--------------------------- MODULE ProxyFlowProofs ---------------------------
(* The gRPC proxy, for any number of messages and operations: the queue that *)
(* brings completions to the main thread (GrpcQueue), and the flow of a call *)
(* that its callbacks drive (ProxyFlow).                                     *)
EXTENDS GrpcQueue, ProxyFlow, SequenceTheorems, TLAPS

-----------------------------------------------------------------------------
(* The completion queue.                                                     *)
(* A tag moves from the head of one sequence to the end of the one before.   *)
LEMMA MoveHead ==
  ASSUME NEW S, NEW a \in Seq(S), NEW s \in Seq(S), s # <<>>
  PROVE  Append(a, Head(s)) \o Tail(s) = a \o s
  <1>1. Head(s) \in S /\ Tail(s) \in Seq(S)
    BY HeadTailProperties
  <1>2. <<Head(s)>> \in Seq(S) /\ <<Head(s)>> \o Tail(s) = s
    BY <1>1
  <1>3. Append(a, Head(s)) = a \o <<Head(s)>>
    BY <1>1, AppendIsConcat
  <1>4. (a \o <<Head(s)>>) \o Tail(s) = a \o (<<Head(s)>> \o Tail(s))
    BY <1>1, <1>2, ConcatAssociative
  <1> QED BY <1>2, <1>3, <1>4

LEMMA AppendLast ==
  ASSUME NEW S, NEW a \in Seq(S), NEW s \in Seq(S), NEW e \in S
  PROVE  a \o Append(s, e) = Append(a \o s, e)
  <1>1. <<e>> \in Seq(S) /\ a \o s \in Seq(S)
    BY ConcatProperties
  <1>2. Append(s, e) = s \o <<e>> /\ Append(a \o s, e) = (a \o s) \o <<e>>
    BY <1>1, AppendIsConcat
  <1> QED BY <1>1, <1>2, ConcatAssociative

(* The steps that move tags keep the concatenation of the five places.       *)
LEMMA QueueSequences ==
  ASSUME QueueTypeOK
  PROVE  /\ ran \o batch \in Seq(TagId)
         /\ ran \o batch \o pending \in Seq(TagId)
         /\ ran \o batch \o pending \o held \in Seq(TagId)
         /\ ran \o batch \o pending \o held \o cq \in Seq(TagId)
  BY ConcatProperties DEF QueueTypeOK

LEMMA InitQueue == QueueInit => QueueInvariant
  <1> SUFFICES ASSUME QueueInit PROVE QueueInvariant
    OBVIOUS
  <1>1. <<>> \in Seq(TagId)
    BY EmptySeq
  <1>2. QueueTypeOK
    <2>1. 0 \in 0..MaxTags /\ {} \subseteq TagId
      BY MaxTagsAssumption
    <2> QED BY <1>1, <2>1 DEF QueueInit, QueueTypeOK
  <1>3. WakeupInvariant /\ LifecycleInvariant
    BY DEF QueueInit, WakeupInvariant, LifecycleInvariant
  <1>4. EveryTagAccountedFor
    BY <1>1, ConcatEmptySeq DEF QueueInit, EveryTagAccountedFor
  <1> QED BY <1>2, <1>3, <1>4 DEF QueueInvariant

LEMMA NextQueue == QueueInvariant /\ [QueueNext]_queueVars => QueueInvariant'
  <1> SUFFICES ASSUME QueueInvariant, [QueueNext]_queueVars PROVE QueueInvariant'
    OBVIOUS
  <1> USE DEF QueueInvariant
  <1>0. /\ QueueTypeOK /\ WakeupInvariant /\ LifecycleInvariant /\ EveryTagAccountedFor
        /\ ran \in Seq(TagId) /\ batch \in Seq(TagId) /\ pending \in Seq(TagId)
        /\ held \in Seq(TagId) /\ cq \in Seq(TagId) /\ completed \in Seq(TagId)
        /\ <<>> \in Seq(TagId)
    BY EmptySeq DEF QueueTypeOK
  <1>1. CASE Instance
    <2>1. QueueTypeOK'
      BY <1>0, <1>1 DEF Instance, QueueTypeOK
    <2>2. WakeupInvariant' /\ LifecycleInvariant'
      BY <1>0, <1>1 DEF Instance, QueueTypeOK, WakeupInvariant, LifecycleInvariant
    <2>3. EveryTagAccountedFor'
      BY <1>0, <1>1 DEF Instance, EveryTagAccountedFor
    <2> QED BY <2>1, <2>2, <2>3
  <1>2. CASE MakeTag
    <2>1. QueueTypeOK'
      <3>1. made' \in 0..MaxTags /\ made + 1 \in TagId
        BY <1>0, <1>2, MaxTagsAssumption DEF MakeTag, QueueTypeOK, TagId
      <3> QED BY <1>0, <1>2, <3>1 DEF MakeTag, QueueTypeOK
    <2>2. WakeupInvariant' /\ LifecycleInvariant'
      BY <1>0, <1>2 DEF MakeTag, WakeupInvariant, LifecycleInvariant
    <2>3. EveryTagAccountedFor'
      BY <1>0, <1>2 DEF MakeTag, EveryTagAccountedFor
    <2> QED BY <2>1, <2>2, <2>3
  <1>3. CASE NginxTagHandler
    <2>1. QueueTypeOK'
      BY <1>0, <1>3 DEF NginxTagHandler, QueueTypeOK
    <2>2. WakeupInvariant' /\ LifecycleInvariant'
      BY <1>0, <1>3 DEF NginxTagHandler, WakeupInvariant, LifecycleInvariant
    <2>3. EveryTagAccountedFor'
      <3>1. /\ batch = <<>> /\ batch' = pending /\ pending' = <<>> /\ queue # "gone"
            /\ UNCHANGED <<queue, ran, held, cq, completed>>
        BY <1>0, <1>3 DEF NginxTagHandler, LifecycleInvariant
      <3>2. ran \o batch = ran /\ (ran \o batch') \o pending' = ran \o pending
        BY <1>0, <3>1, ConcatEmptySeq, ConcatProperties
      <3> QED BY <1>0, <3>1, <3>2 DEF EveryTagAccountedFor
    <2> QED BY <2>1, <2>2, <2>3
  <1>4. CASE RunCallback
    <2>1. CASE batch = <<>>
      <3>1. QueueTypeOK'
        BY <1>0, <1>4, <2>1 DEF RunCallback, QueueTypeOK
      <3>2. WakeupInvariant' /\ LifecycleInvariant'
        BY <1>0, <1>4, <2>1 DEF RunCallback, WakeupInvariant, LifecycleInvariant
      <3>3. EveryTagAccountedFor'
        BY <1>0, <1>4, <2>1 DEF RunCallback, EveryTagAccountedFor
      <3> QED BY <3>1, <3>2, <3>3
    <2>2. CASE batch # <<>>
      <3>1. Head(batch) \in TagId /\ Tail(batch) \in Seq(TagId)
        BY <1>0, <2>2, HeadTailProperties
      <3>2. /\ ran' = Append(ran, Head(batch)) /\ batch' = Tail(batch)
            /\ ran' \in Seq(TagId) /\ batch' \in Seq(TagId) /\ main = "drain"
            /\ UNCHANGED <<main, queue, made, outstanding, cq, worker, held, pending,
                           notified, posted, completed>>
        <4>1. /\ ran' = Append(ran, Head(batch)) /\ batch' = Tail(batch)
              /\ main = "drain"
              /\ UNCHANGED <<main, queue, made, outstanding, cq, worker, held,
                             pending, notified, posted, completed>>
          BY <1>4, <2>2 DEF RunCallback
        <4>2. Append(ran, Head(batch)) \in Seq(TagId)
          BY <1>0, <3>1, AppendProperties
        <4> QED BY <3>1, <4>1, <4>2
      <3>3. QueueTypeOK'
        BY <1>0, <3>2 DEF QueueTypeOK
      <3>4. WakeupInvariant' /\ LifecycleInvariant'
        BY <1>0, <3>2 DEF WakeupInvariant, LifecycleInvariant
      <3>5. ran' \o batch' = ran \o batch
        BY <1>0, <2>2, <3>2, MoveHead
      <3>6. EveryTagAccountedFor'
        BY <1>0, <3>2, <3>5 DEF EveryTagAccountedFor
      <3> QED BY <3>3, <3>4, <3>6
    <2> QED BY <2>1, <2>2
  <1>5. CASE Destructor
    <2>1. QueueTypeOK'
      BY <1>0, <1>5 DEF Destructor, QueueTypeOK
    <2>2. WakeupInvariant' /\ LifecycleInvariant'
      BY <1>0, <1>5 DEF Destructor, WakeupInvariant, LifecycleInvariant
    <2>3. EveryTagAccountedFor'
      BY <1>0, <1>5 DEF Destructor, EveryTagAccountedFor
    <2> QED BY <2>1, <2>2, <2>3
  <1>6. CASE Join
    <2>1. QueueTypeOK'
      BY <1>0, <1>6 DEF Join, QueueTypeOK
    <2>2. WakeupInvariant' /\ LifecycleInvariant'
      BY <1>0, <1>6 DEF Join, WakeupInvariant, LifecycleInvariant
    <2>3. EveryTagAccountedFor'
      BY <1>6 DEF Join, EveryTagAccountedFor
    <2> QED BY <2>1, <2>2, <2>3
  <1>7. CASE WorkerNext
    <2>1. CASE cq # <<>>
      <3>1. Head(cq) \in TagId /\ Tail(cq) \in Seq(TagId)
        BY <1>0, <2>1, HeadTailProperties
      <3>2. /\ worker = "next" /\ worker' = "push" /\ held = <<>>
            /\ held' = <<Head(cq)>> /\ cq' = Tail(cq)
            /\ UNCHANGED <<queue, made, outstanding, pending, notified, posted, main,
                           batch, completed, ran>>
        BY <1>0, <1>7, <2>1 DEF WorkerNext, LifecycleInvariant
      <3>3. held' \in Seq(TagId) /\ held' = Append(held, Head(cq))
        BY <1>0, <3>1, <3>2, AppendProperties
      <3>4. QueueTypeOK'
        BY <1>0, <3>1, <3>2, <3>3 DEF QueueTypeOK
      <3>5. WakeupInvariant' /\ LifecycleInvariant'
        BY <1>0, <3>2 DEF WakeupInvariant, LifecycleInvariant
      <3>6. EveryTagAccountedFor'
        <4> DEFINE a == ran \o batch \o pending
        <4>1. a \in Seq(TagId) /\ a \o held = a
          BY <1>0, <3>2, QueueSequences, ConcatEmptySeq
        <4>2. a' = a
          BY <3>2
        <4> HIDE DEF a
        <4>3. a \o held' = Append(a, Head(cq))
          BY <1>0, <3>1, <3>2, <4>1, AppendIsConcat
        <4>4. (a \o held') \o cq' = (a \o held) \o cq
          BY <1>0, <2>1, <3>2, <4>1, <4>3, MoveHead, ZenonT(60)
        <4> QED BY <1>0, <3>2, <4>2, <4>4 DEF EveryTagAccountedFor, a
      <3> QED BY <3>4, <3>5, <3>6
    <2>2. CASE cq = <<>>
      <3>1. /\ queue = "shutdown" /\ outstanding = {} /\ worker' = "exited"
            /\ worker = "next"
            /\ UNCHANGED <<held, cq, queue, made, outstanding, pending, notified,
                           posted, main, batch, completed, ran>>
        BY <1>7, <2>2 DEF WorkerNext
      <3>2. QueueTypeOK'
        BY <1>0, <3>1 DEF QueueTypeOK
      <3>3. WakeupInvariant' /\ LifecycleInvariant'
        BY <1>0, <2>2, <3>1 DEF WakeupInvariant, LifecycleInvariant
      <3>4. EveryTagAccountedFor'
        BY <1>0, <3>1 DEF EveryTagAccountedFor
      <3> QED BY <3>2, <3>3, <3>4
    <2> QED BY <2>1, <2>2
  <1>8. CASE WorkerPush
    <2>1. /\ worker = "push" /\ pending' = pending \o held /\ held' = <<>>
          /\ notified' = TRUE
          /\ worker' = IF notified THEN "next" ELSE "notify"
          /\ UNCHANGED <<queue, made, outstanding, cq, posted, main, batch, completed,
                         ran>>
      BY <1>8 DEF WorkerPush
    <2>2. pending' \in Seq(TagId)
      BY <1>0, <2>1, ConcatProperties
    <2>3. QueueTypeOK'
      BY <1>0, <2>1, <2>2 DEF QueueTypeOK
    <2>4. WakeupInvariant' /\ LifecycleInvariant'
      BY <1>0, <2>1 DEF WakeupInvariant, LifecycleInvariant
    <2>5. EveryTagAccountedFor'
      <3> DEFINE a == ran \o batch
      <3>1. a \in Seq(TagId) /\ a' = a
        BY <1>0, <2>1, QueueSequences
      <3> HIDE DEF a
      <3>2. a \o pending' = (a \o pending) \o held /\ a \o pending' \in Seq(TagId)
        <4>1. a \o (pending \o held) = (a \o pending) \o held
          <5>1. \A s, t, u \in Seq(TagId) : (s \o t) \o u = s \o (t \o u)
            BY ConcatAssociative
          <5> QED BY <1>0, <3>1, <5>1, ZenonT(60)
        <4>2. a \o pending' \in Seq(TagId)
          BY <2>2, <3>1, ConcatProperties
        <4> QED BY <2>1, <4>1, <4>2
      <3>3. (a \o pending') \o held' = (a \o pending) \o held
        <4>1. \A s \in Seq(TagId) : s \o <<>> = s
          BY ConcatEmptySeq
        <4> QED BY <2>1, <3>2, <4>1
      <3> QED BY <1>0, <2>1, <3>1, <3>3 DEF EveryTagAccountedFor, a
    <2> QED BY <2>3, <2>4, <2>5
  <1>9. CASE WorkerNotify
    <2>1. QueueTypeOK'
      BY <1>0, <1>9 DEF WorkerNotify, QueueTypeOK
    <2>2. WakeupInvariant' /\ LifecycleInvariant'
      BY <1>0, <1>9 DEF WorkerNotify, WakeupInvariant, LifecycleInvariant
    <2>3. EveryTagAccountedFor'
      BY <1>0, <1>9 DEF WorkerNotify, EveryTagAccountedFor
    <2> QED BY <2>1, <2>2, <2>3
  <1>10. CASE CompleteAny
    <2>1. PICK t \in TagId : CompleteTag(t)
      BY <1>10 DEF CompleteAny
    <2>2. /\ t \in outstanding /\ outstanding' = outstanding \ {t}
          /\ cq' = Append(cq, t) /\ completed' = Append(completed, t)
          /\ UNCHANGED <<queue, made, worker, held, pending, notified, posted, main,
                         batch, ran>>
      BY <2>1 DEF CompleteTag
    <2>3. cq' \in Seq(TagId) /\ completed' \in Seq(TagId)
      BY <1>0, <2>2, AppendProperties
    <2>4. QueueTypeOK'
      BY <1>0, <2>2, <2>3 DEF QueueTypeOK
    <2>5. WakeupInvariant' /\ LifecycleInvariant'
      BY <1>0, <2>2 DEF WakeupInvariant, LifecycleInvariant
    <2>6. EveryTagAccountedFor'
      <3> DEFINE a == ran \o batch \o pending \o held
      <3>1. a \in Seq(TagId) /\ a' = a
        BY <1>0, <2>2, QueueSequences
      <3> HIDE DEF a
      <3>2. a \o cq' = Append(a \o cq, t)
        BY <1>0, <2>2, <3>1, AppendLast
      <3> QED BY <1>0, <2>2, <3>1, <3>2 DEF EveryTagAccountedFor, a
    <2> QED BY <2>4, <2>5, <2>6
  <1>11. CASE UNCHANGED queueVars
    <2>1. QueueTypeOK'
      BY <1>0, <1>11 DEF queueVars, QueueTypeOK
    <2>2. WakeupInvariant' /\ LifecycleInvariant'
      BY <1>0, <1>11 DEF queueVars, WakeupInvariant, LifecycleInvariant
    <2>3. EveryTagAccountedFor'
      BY <1>0, <1>11 DEF queueVars, EveryTagAccountedFor
    <2> QED BY <2>1, <2>2, <2>3
  <1> QED BY <1>1, <1>2, <1>3, <1>4, <1>5, <1>6, <1>7, <1>8, <1>9, <1>10, <1>11
      DEF QueueNext, MainThread, WorkerThread

(* The queue's inductive invariant, for any number of operations: notified_  *)
(* is in step with the notification, and the tags are all accounted for.     *)
THEOREM QueueInvariantHolds == QueueSpec => []QueueInvariant
  BY InitQueue, NextQueue, PTL DEF QueueSpec

(* A tag in pending_ always has a wake-up of the main thread on its way.     *)
THEOREM WakeupNeverLost == QueueSpec => []NoLostWakeup
  <1>1. QueueInvariant => NoLostWakeup
    BY DEF QueueInvariant, WakeupInvariant, NoLostWakeup, QueueTypeOK
  <1> QED BY <1>1, QueueInvariantHolds, PTL

(* Callbacks run in completion order, each once, none lost.                  *)
THEOREM TagsAccountedFor == QueueSpec => []EveryTagAccountedFor
  <1>1. QueueInvariant => EveryTagAccountedFor
    BY DEF QueueInvariant
  <1> QED BY <1>1, QueueInvariantHolds, PTL

(* Once the queue is freed its worker has ended and nothing can complete.    *)
THEOREM FreedQueueUnused == QueueSpec => []NothingUsesFreedQueue
  <1>1. QueueInvariant => NothingUsesFreedQueue
    BY DEF QueueInvariant, LifecycleInvariant, NothingUsesFreedQueue
  <1> QED BY <1>1, QueueInvariantHolds, PTL

-----------------------------------------------------------------------------
(* Sequences joined, and the tags in the four places a callback waits in.    *)
Cat(s, t) == s \o t
Waiting == Cat(Cat(Cat(batch, pending), held), cq)

LEMMA CatType == \A S : \A s, t \in Seq(S) : Cat(s, t) \in Seq(S)
  BY ConcatProperties DEF Cat

LEMMA CatAssociative ==
  \A S : \A s, t, u \in Seq(S) : Cat(Cat(s, t), u) = Cat(s, Cat(t, u))
  BY ConcatAssociative DEF Cat

LEMMA CatEmpty == \A S : \A s \in Seq(S) : Cat(s, <<>>) = s /\ Cat(<<>>, s) = s
  BY ConcatEmptySeq DEF Cat

LEMMA FourJoined ==
  ASSUME NEW S, NEW a \in Seq(S), NEW b \in Seq(S), NEW c \in Seq(S), NEW d \in Seq(S)
  PROVE  /\ Cat(Cat(b, c), d) \in Seq(S) /\ Cat(Cat(Cat(a, b), c), d) \in Seq(S)
         /\ Cat(Cat(Cat(a, b), c), d) = Cat(a, Cat(Cat(b, c), d))
         /\ Cat(Cat(Cat(a, b), c), d) = Cat(Cat(a, b), Cat(c, d))
  <1>1. /\ Cat(a, b) \in Seq(S) /\ Cat(b, c) \in Seq(S) /\ Cat(Cat(a, b), c) \in Seq(S)
        /\ Cat(Cat(b, c), d) \in Seq(S) /\ Cat(Cat(Cat(a, b), c), d) \in Seq(S)
    BY CatType
  <1>2. Cat(Cat(a, b), c) = Cat(a, Cat(b, c))
    BY CatAssociative
  <1>3. Cat(Cat(a, Cat(b, c)), d) = Cat(a, Cat(Cat(b, c), d))
    BY <1>1, CatAssociative
  <1>4. Cat(Cat(Cat(a, b), c), d) = Cat(Cat(a, b), Cat(c, d))
    BY <1>1, CatAssociative
  <1> QED BY <1>1, <1>2, <1>3, <1>4

LEMMA FiveJoined ==
  ASSUME NEW S, NEW r \in Seq(S), NEW a \in Seq(S), NEW b \in Seq(S), NEW c \in Seq(S),
         NEW d \in Seq(S)
  PROVE  Cat(Cat(Cat(Cat(r, a), b), c), d) = Cat(r, Cat(Cat(Cat(a, b), c), d))
  <1>1. Cat(r, a) \in Seq(S) /\ Cat(Cat(b, c), d) \in Seq(S)
    BY CatType, FourJoined
  <1>2. Cat(Cat(Cat(Cat(r, a), b), c), d) = Cat(Cat(r, a), Cat(Cat(b, c), d))
    BY <1>1, FourJoined
  <1>3. Cat(Cat(r, a), Cat(Cat(b, c), d)) = Cat(r, Cat(a, Cat(Cat(b, c), d)))
    BY <1>1, CatAssociative
  <1>4. Cat(Cat(Cat(a, b), c), d) = Cat(a, Cat(Cat(b, c), d))
    BY FourJoined
  <1> QED BY <1>2, <1>3, <1>4

LEMMA TailOfCat ==
  ASSUME NEW S, NEW s \in Seq(S), NEW t \in Seq(S), s # <<>>
  PROVE  Cat(s, t) # <<>> /\ Tail(Cat(s, t)) = Cat(Tail(s), t)
  <1>1. s \o t \in Seq(S) /\ Len(s \o t) = Len(s) + Len(t) /\ Len(s) > 0
    BY ConcatProperties, EmptySeq
  <1>2. Tail(s) \in Seq(S) /\ Len(Tail(s)) = Len(s) - 1
    BY HeadTailProperties
  <1>3. s \o t # <<>>
    BY <1>1
  <1> QED BY <1>1, <1>2, <1>3 DEF Cat

LEMMA AppendToCat ==
  ASSUME NEW S, NEW a \in Seq(S), NEW s \in Seq(S), NEW e \in S
  PROVE  Cat(a, Append(s, e)) = Append(Cat(a, s), e)
  BY AppendLast DEF Cat

(* What is left of a whole behind its first part.                            *)
LEMMA RestOf ==
  ASSUME NEW S, NEW s \in Seq(S), NEW t \in Seq(S)
  PROVE  SubSeq(Cat(s, t), Len(s) + 1, Len(Cat(s, t))) = t
  <1>1. s \o t \in Seq(S) /\ Len(s \o t) = Len(s) + Len(t) /\ Len(s) \in Nat /\ Len(t) \in Nat
    BY ConcatProperties
  <1> QED BY <1>1 DEF Cat

(* A step moves a tag, adds one, runs the first one or closes the queue.     *)
LEMMA QueueStepImplements ==
  ASSUME QueueInvariant, QueueInvariant', [QueueNext]_queueVars
  PROVE  [Interface!QueueNext]_(Interface!queueVars)
  <1> DEFINE Mapped == IF queue = "gone"
                       THEN SubSeq(completed, Len(ran) + 1, Len(completed)) ELSE Waiting
             Closed == main = "exit"
             Step == \/ Mapped' = Mapped /\ Closed' = Closed
                     \/ \E t \in TagId : Mapped' = Append(Mapped, t) /\ Closed' = Closed
                     \/ ~Closed /\ Mapped # <<>> /\ Mapped' = Tail(Mapped) /\ Closed' = Closed
                     \/ Closed' = TRUE /\ Mapped' = Mapped
             Rest == Cat(Cat(pending, held), cq)
  <1>0. /\ QueueTypeOK /\ LifecycleInvariant /\ EveryTagAccountedFor
        /\ ran \in Seq(TagId) /\ batch \in Seq(TagId) /\ pending \in Seq(TagId)
        /\ held \in Seq(TagId) /\ cq \in Seq(TagId) /\ completed \in Seq(TagId)
        /\ <<>> \in Seq(TagId)
    BY EmptySeq DEF QueueInvariant, QueueTypeOK
  <1>1. /\ Waiting \in Seq(TagId) /\ Rest \in Seq(TagId) /\ Waiting = Cat(batch, Rest)
        /\ queue # "gone" => completed = Cat(ran, Waiting)
    <2>1. Cat(Cat(Cat(Cat(ran, batch), pending), held), cq) = Cat(ran, Waiting)
      BY <1>0, FiveJoined DEF Waiting
    <2>2. queue # "gone" => completed = Cat(Cat(Cat(Cat(ran, batch), pending), held), cq)
      BY <1>0 DEF EveryTagAccountedFor, Cat
    <2>3. Waiting \in Seq(TagId) /\ Rest \in Seq(TagId) /\ Waiting = Cat(batch, Rest)
      BY <1>0, FourJoined DEF Waiting
    <2> QED BY <2>1, <2>2, <2>3
  <1>2. SUFFICES Step
    BY DEF Interface!QueueNext, Interface!queueVars, Interface!CompleteTag, Interface!RunFirst,
           Interface!Close, Waiting, Cat
  <1>3. CASE Instance \/ MakeTag \/ WorkerNotify
    <2>1. /\ UNCHANGED <<batch, pending, held, cq, main, ran, completed>>
          /\ queue' = "gone" <=> queue = "gone"
      BY <1>3 DEF Instance, MakeTag, WorkerNotify
    <2> QED BY <2>1 DEF Waiting
  <1>4. CASE NginxTagHandler
    <2>1. /\ batch = <<>> /\ batch' = pending /\ pending' = <<>> /\ queue # "gone"
          /\ main = "idle" /\ main' = "drain"
          /\ queue' = queue /\ held' = held /\ cq' = cq
      BY <1>0, <1>4 DEF NginxTagHandler, LifecycleInvariant
    <2>2. Cat(batch', pending') = pending /\ Cat(batch, pending) = pending
      BY <1>0, <2>1, CatEmpty
    <2>3. Waiting' = Waiting
      BY <2>1, <2>2 DEF Waiting
    <2> QED BY <2>1, <2>3
  <1>5. CASE RunCallback
    <2>1. main = "drain" /\ queue # "gone" /\ queue' = queue
      BY <1>0, <1>5 DEF RunCallback, LifecycleInvariant
    <2>2. CASE batch = <<>>
      <3>1. main' = "idle" /\ UNCHANGED <<batch, pending, held, cq>>
        BY <1>5, <2>2 DEF RunCallback
      <3>2. Waiting' = Waiting
        BY <3>1 DEF Waiting
      <3> QED BY <2>1, <3>1, <3>2
    <2>3. CASE batch # <<>>
      <3>1. batch' = Tail(batch) /\ main' = main /\ UNCHANGED <<pending, held, cq>>
        BY <1>5, <2>3 DEF RunCallback
      <3>2. Waiting' = Cat(Tail(batch), Rest)
        <4>1. PICK tail \in Seq(TagId) : tail = Tail(batch)
          BY <1>0, <2>3, HeadTailProperties
        <4>2. Cat(Cat(Cat(tail, pending), held), cq) = Cat(tail, Rest)
          BY <1>0, FourJoined
        <4> QED BY <3>1, <4>1, <4>2 DEF Waiting
      <3> HIDE DEF Rest
      <3>3. Waiting # <<>> /\ Tail(Waiting) = Cat(Tail(batch), Rest)
        BY <1>0, <1>1, <2>3, TailOfCat
      <3> QED BY <2>1, <3>1, <3>2, <3>3
    <2> QED BY <2>2, <2>3
  <1>6. CASE Destructor
    <2>1. /\ UNCHANGED <<batch, pending, held, cq>> /\ main' = "exit"
          /\ queue # "gone" /\ queue' # "gone"
      BY <1>6 DEF Destructor
    <2> QED BY <2>1 DEF Waiting
  <1>7. CASE Join
    <2>1. /\ queue # "gone" /\ queue' = "gone" /\ main' = main
          /\ ran' = ran /\ completed' = completed
      BY <1>7 DEF Join
    <2>2. SubSeq(Cat(ran, Waiting), Len(ran) + 1, Len(Cat(ran, Waiting))) = Waiting
      BY <1>0, <1>1, RestOf
    <2>3. completed = Cat(ran, Waiting)
      BY <1>1, <2>1
    <2> QED BY <2>1, <2>2, <2>3
  <1>8. CASE WorkerNext
    <2>1. UNCHANGED <<queue, main, ran, completed, batch, pending>>
      BY <1>8 DEF WorkerNext
    <2>2. Cat(held', cq') = Cat(held, cq)
      <3>1. CASE cq # <<>>
        <4>1. held = <<>> /\ held' = <<Head(cq)>> /\ cq' = Tail(cq)
          BY <1>0, <1>8, <3>1 DEF WorkerNext, LifecycleInvariant
        <4>2. <<Head(cq)>> \o Tail(cq) = cq /\ <<>> \o cq = cq
          BY <1>0, <3>1
        <4> QED BY <4>1, <4>2 DEF Cat
      <3>2. CASE cq = <<>>
        BY <1>8, <3>2 DEF WorkerNext
      <3> QED BY <3>1, <3>2
    <2>3. Waiting' = Waiting
      <3>1. held' \in Seq(TagId) /\ cq' \in Seq(TagId)
        BY DEF QueueInvariant, QueueTypeOK
      <3>2. Cat(Cat(Cat(batch, pending), held'), cq') = Cat(Cat(batch, pending), Cat(held', cq'))
        BY <1>0, <3>1, FourJoined
      <3>3. Cat(Cat(Cat(batch, pending), held), cq) = Cat(Cat(batch, pending), Cat(held, cq))
        BY <1>0, FourJoined
      <3> QED BY <2>1, <2>2, <3>2, <3>3 DEF Waiting
    <2> QED BY <2>1, <2>3
  <1>9. CASE WorkerPush
    <2>1. /\ pending' = pending \o held /\ held' = <<>>
          /\ UNCHANGED <<queue, main, ran, completed, batch, cq>>
      BY <1>9 DEF WorkerPush
    <2>2. Cat(Cat(batch, pending'), held') = Cat(Cat(batch, pending), held)
      <3>1. pending' = Cat(pending, held) /\ Cat(pending, held) \in Seq(TagId)
        BY <1>0, <2>1, CatType DEF Cat
      <3>2. Cat(Cat(batch, pending), held) = Cat(batch, Cat(pending, held))
        BY <1>0, CatAssociative
      <3>3. Cat(Cat(batch, pending'), <<>>) = Cat(batch, pending')
        BY <1>0, <3>1, CatType, CatEmpty
      <3> QED BY <2>1, <3>1, <3>2, <3>3
    <2>3. Waiting' = Waiting
      BY <2>1, <2>2 DEF Waiting
    <2> QED BY <2>1, <2>3
  <1>10. CASE CompleteAny
    <2>1. PICK t \in TagId : CompleteTag(t)
      BY <1>10 DEF CompleteAny
    <2>2. /\ queue # "gone" /\ cq' = Append(cq, t)
          /\ UNCHANGED <<queue, main, batch, pending, held>>
      BY <1>0, <2>1 DEF CompleteTag, LifecycleInvariant
    <2>3. Cat(Cat(batch, pending), held) \in Seq(TagId)
      BY <1>0, CatType
    <2>4. Waiting' = Append(Waiting, t)
      <3>1. PICK a \in Seq(TagId) : a = Cat(Cat(batch, pending), held)
        BY <2>3
      <3>2. Cat(a, Append(cq, t)) = Append(Cat(a, cq), t)
        BY <1>0, AppendToCat
      <3>3. Waiting' = Cat(a, Append(cq, t)) /\ Waiting = Cat(a, cq)
        BY <2>2, <3>1 DEF Waiting
      <3> QED BY <3>2, <3>3
    <2> QED BY <2>2, <2>4
  <1>11. CASE UNCHANGED queueVars
    BY <1>11 DEF queueVars, Waiting
  <1> QED BY <1>3, <1>4, <1>5, <1>6, <1>7, <1>8, <1>9, <1>10, <1>11
      DEF QueueNext, MainThread, WorkerThread

(* NgxEspGrpcQueue implements AsyncGrpcQueue: from outside, for any number   *)
(* of operations and any interleaving of the two threads, it is one queue    *)
(* whose callbacks run in the order of the completions until it is closed.   *)
THEOREM QueueImplementsInterface == QueueSpec => ImplementsInterface
  <1>1. QueueInit => Interface!QueueInit
    BY DEF QueueInit, Interface!QueueInit
  <1>2. QueueInvariant /\ QueueInvariant' /\ [QueueNext]_queueVars =>
          [Interface!QueueNext]_(Interface!queueVars)
    BY QueueStepImplements
  <1> QED BY <1>1, <1>2, QueueInvariantHolds, PTL
      DEF QueueSpec, ImplementsInterface, Interface!QueueSpec

-----------------------------------------------------------------------------
(* The flow of a call.                                                       *)
(* Adding to or taking from the outstanding operations keeps their type.     *)
LEMMA WithType ==
  ASSUME NEW o \in [OpKind -> Nat], NEW op \in OpKind
  PROVE  /\ With(o, op) \in [OpKind -> Nat]
         /\ \A k \in OpKind : With(o, op)[k] = IF k = op THEN o[k] + 1 ELSE o[k]
  BY DEF With, OpKind

(* Running the oldest tag takes its operation off the outstanding ones and   *)
(* leaves the other tags with an outstanding operation each.                 *)
LEMMA RunTagEffect ==
  ASSUME TypeOK, TagsOutstanding,
         NEW op \in OpKind, NEW ok \in BOOLEAN, RunTag(op, ok)
  PROVE  /\ Done(op) \in [OpKind -> Nat]
         /\ ops[op] >= 1
         /\ \A k \in OpKind : Done(op)[k] = IF k = op THEN ops[k] - 1 ELSE ops[k]
         /\ tags' \in Seq(Tag)
         /\ \A i \in 1..Len(tags') : Done(op)[tags'[i].op] >= 1
         /\ \A i, j \in 1..Len(tags') : tags'[i].op = tags'[j].op => i = j
  <1>1. tags \in Seq(Tag) /\ tags # <<>>
        /\ tags' = Tail(tags) /\ tags[1] = [op |-> op, ok |-> ok]
    <2>1. tags \in Seq(Tag)
      BY DEF TypeOK
    <2>2. tags # <<>> /\ tags' = Tail(tags) /\ Head(tags) = [op |-> op, ok |-> ok]
      BY DEF RunTag
    <2> QED BY <2>1, <2>2
  <1>2. /\ Len(tags) \in Nat /\ Len(tags) >= 1
        /\ Len(tags') = Len(tags) - 1
        /\ tags' \in Seq(Tag)
        /\ \A i \in 1..Len(tags') : tags'[i] = tags[i + 1]
    BY <1>1
  <1>3. ops[op] >= 1
    BY <1>1, <1>2 DEF TagsOutstanding
  <1>4. /\ Done(op) \in [OpKind -> Nat]
        /\ \A k \in OpKind : Done(op)[k] = IF k = op THEN ops[k] - 1 ELSE ops[k]
    BY <1>3 DEF TypeOK, Done
  <1>5. ASSUME NEW i \in 1..Len(tags') PROVE Done(op)[tags'[i].op] >= 1
    <2>1. tags'[i] = tags[i + 1] /\ i + 1 \in 1..Len(tags) /\ 1 \in 1..Len(tags)
      BY <1>2
    <2>2. tags[i + 1].op # op
      BY <2>1, <1>1 DEF TagsOutstanding
    <2>3. ops[tags[i + 1].op] >= 1
      BY <2>1 DEF TagsOutstanding
    <2>4. tags[i + 1] \in Tag
      BY <2>1, <1>1
    <2>5. tags[i + 1].op \in OpKind
      BY <2>4 DEF Tag
    <2> QED BY <2>1, <2>2, <2>3, <2>5, <1>4
  <1>6. ASSUME NEW i \in 1..Len(tags'), NEW j \in 1..Len(tags'),
               tags'[i].op = tags'[j].op
        PROVE  i = j
    <2>1. /\ tags'[i] = tags[i + 1] /\ i + 1 \in 1..Len(tags)
          /\ tags'[j] = tags[j + 1] /\ j + 1 \in 1..Len(tags)
      BY <1>2
    <2>2. i + 1 = j + 1
      BY <2>1, <1>6 DEF TagsOutstanding
    <2> QED BY <2>2
  <1> QED BY <1>2, <1>3, <1>4, <1>5, <1>6

(* Types of what the server call owns, after a step.                         *)
CallTypes ==
  /\ finalized \in Nat
  /\ client_status \in Status \cup {"none"}
  /\ delivered \in Seq(Nat)
  /\ request \in {"active", "lingering", "freed"}
  /\ read_handler \in {"block", "readable", "detached"}
  /\ write_handler \in {"none", "esp", "writer"}
  /\ grpc_upstream_cancel \in BOOLEAN
  /\ read_continuation \in BOOLEAN
  /\ header_sent \in BOOLEAN
  /\ sent_upstream_writes_done \in BOOLEAN
  /\ wd_status \in Status

(* Effect of ending the request on the operations, the half-close and the    *)
(* pending read: a pending read may become a WritesDone, nothing else is     *)
(* started.                                                                  *)
EndEffect(o) ==
  \/ /\ ops' = o
     /\ sent_upstream_writes_done' = sent_upstream_writes_done
     /\ \/ read_continuation' = read_continuation /\ read_handler' = read_handler
        \/ (read_continuation' => read_continuation) /\ read_handler' = "detached"
  \/ /\ ops' = With(o, "writesdone")
     /\ read_continuation /\ ~read_continuation'
     /\ ~sent_upstream_writes_done /\ sent_upstream_writes_done'
     /\ read_handler' = "detached"

(* What finalizing the request does, with a read pending or not.             *)
LEMMA FinalizeType ==
  ASSUME TypeOK, NEW o, NEW reading \in BOOLEAN, NEW st \in Status, NEW n \in Nat,
         Finalize(o, reading, st, n)
  PROVE  /\ finalized' \in Nat
         /\ client_status' \in Status \cup {"none"}
         /\ request' \in {"active", "lingering", "freed"}
         /\ read_handler' = "detached"
         /\ write_handler' \in {"none", "esp", "writer"}
         /\ grpc_upstream_cancel' \in BOOLEAN
         /\ read_continuation' \in BOOLEAN
         /\ sent_upstream_writes_done' \in BOOLEAN
         /\ wd_status' \in Status
         /\ \/ /\ ops' = o
               /\ sent_upstream_writes_done' = sent_upstream_writes_done
               /\ read_continuation' => reading
            \/ /\ ops' = With(o, "writesdone")
               /\ reading /\ ~read_continuation'
               /\ ~sent_upstream_writes_done /\ sent_upstream_writes_done'
  <1>1. "OK" \in Status
    BY DEF Status
  <1>2. /\ finalized' = finalized + n
        /\ client_status' = IF client_status = "none" THEN st ELSE client_status
    BY DEF Finalize
  <1>3. finalized' \in Nat /\ client_status' \in Status \cup {"none"}
    BY <1>2 DEF TypeOK
  <1>4. CASE Cleanup(o, reading)
    <2>1. /\ request' = "freed" /\ read_continuation' = FALSE
          /\ grpc_upstream_cancel' = FALSE /\ read_handler' = "detached"
          /\ write_handler' = "none"
      BY <1>4 DEF Cleanup
    <2>2. CASE reading /\ ~sent_upstream_writes_done
      <3>1. /\ ops' = With(o, "writesdone") /\ sent_upstream_writes_done' = TRUE
            /\ wd_status' = "OK"
        BY <1>4, <2>2 DEF Cleanup, StartUpstreamWritesDone
      <3> QED BY <3>1, <2>1, <2>2, <1>1, <1>3
    <2>3. CASE ~reading \/ sent_upstream_writes_done
      <3>1. /\ ops' = o /\ sent_upstream_writes_done' = sent_upstream_writes_done
            /\ wd_status' = wd_status
        BY <1>4, <2>3 DEF Cleanup, StartUpstreamWritesDone
      <3> QED BY <3>1, <2>1, <1>3 DEF TypeOK
    <2> QED BY <2>2, <2>3
  <1>5. CASE ~Cleanup(o, reading)
    <2>1. /\ request' = "lingering" /\ read_handler' = "detached"
          /\ write_handler' = "writer" /\ read_continuation' = reading /\ ops' = o
          /\ sent_upstream_writes_done' = sent_upstream_writes_done
          /\ wd_status' = wd_status
          /\ grpc_upstream_cancel' = grpc_upstream_cancel
      BY <1>5 DEF Finalize
    <2> QED BY <2>1, <1>3 DEF TypeOK
  <1> QED BY <1>4, <1>5

(* Ending the call towards the client is final and disturbs nothing but a    *)
(* reading read.                                                             *)
LEMMA DownstreamFinishEffect ==
  ASSUME TypeOK, NEW o, NEW st \in Status, StartDownstreamFinish(o, st)
  PROVE  /\ sent_downstream_finish' = TRUE
         /\ CallTypes'
         /\ EndEffect(o)
  <1>0. CallTypes /\ sent_downstream_finish \in BOOLEAN
        /\ status_from_upstream \in Status
    BY DEF TypeOK, CallTypes
  <1>1. CASE sent_downstream_finish
    <2>1. /\ ops' = o
          /\ UNCHANGED <<sent_downstream_finish, callVars, outVars,
                         sent_upstream_writes_done, wd_status>>
      BY <1>1 DEF StartDownstreamFinish
    <2>2. CallTypes'
      BY <2>1, <1>0 DEF CallTypes, callVars, outVars
    <2>3. EndEffect(o)
      BY <2>1 DEF EndEffect, callVars
    <2> QED BY <2>1, <2>2, <2>3, <1>0, <1>1
  <1>2. CASE ~sent_downstream_finish /\ request = "freed"
    <2>1. /\ sent_downstream_finish' = TRUE
          /\ ops' = o
          /\ UNCHANGED <<callVars, outVars, sent_upstream_writes_done, wd_status>>
      BY <1>2 DEF StartDownstreamFinish, Finish
    <2>2. CallTypes'
      BY <2>1, <1>0 DEF CallTypes, callVars, outVars
    <2>3. EndEffect(o)
      BY <2>1 DEF EndEffect, callVars
    <2> QED BY <2>1, <2>2, <2>3
  <1>3. CASE ~sent_downstream_finish /\ request # "freed"
    <2>1. PICK s \in Status :
            /\ Finalize(o, read_continuation, s, 1)
            /\ header_sent' = TRUE /\ delivered' = delivered
      <3>1. {"OK", "INTERNAL", "CONVERT_ERR"} \subseteq Status
        BY DEF Status
      <3>2. Finish(o, IF st = "OK" THEN status_from_upstream ELSE st)
        BY <1>3 DEF StartDownstreamFinish
      <3> DEFINE t == IF st = "OK" THEN status_from_upstream ELSE st
      <3>3. t \in Status
        BY <1>0
      <3>4. /\ \/ Finalize(o, read_continuation, t, 1)
               \/ Finalize(o, read_continuation, "INTERNAL", 1)
               \/ Finalize(o, read_continuation, "CONVERT_ERR", 1)
            /\ header_sent' = TRUE /\ delivered' = delivered
        BY <1>3, <3>2 DEF Finish
      <3> HIDE DEF t
      <3> QED BY <3>1, <3>3, <3>4
    <2>2. read_continuation \in BOOLEAN /\ 1 \in Nat
      BY DEF TypeOK
    <2>3. sent_downstream_finish' = TRUE
      BY <1>3 DEF StartDownstreamFinish
    <2>4. CallTypes'
      BY <2>1, <2>2, <1>0, FinalizeType DEF CallTypes
    <2>5. EndEffect(o)
      BY <2>1, <2>2, FinalizeType DEF EndEffect
    <2> QED BY <2>3, <2>4, <2>5
  <1> QED BY <1>1, <1>2, <1>3

(* Types of the request body's side, after a step.                           *)
BodyTypes ==
  /\ slices \in Nat /\ sock \in Nat /\ req_read \in Nat /\ req_buf \in Nat
  /\ reading_body \in BOOLEAN /\ sock_end \in BOOLEAN

(* Effect of a downstream read that no other operation of the request        *)
(* direction accompanies: it starts one upstream write, or one half-close,   *)
(* or waits, or ends the direction.                                          *)
ReadEffect(o) ==
  \/ /\ ops' = With(o, "write") /\ ~read_continuation'     \* a message
     /\ ~sent_upstream_writes_done
     /\ sent_upstream_writes_done' => slices' = 0 /\ ~reading_body'
     /\ read_handler' # "readable"
     /\ req_read' = req_read + 1 /\ req_buf' = req_read + 1
  \/ /\ ops' = With(o, "writesdone") /\ ~read_continuation' \* half-close
     /\ ~sent_upstream_writes_done /\ sent_upstream_writes_done'
     /\ read_handler' # "readable"
     /\ req_read' = req_read
  \/ /\ ops' = o                                            \* end or wait
     /\ sent_upstream_writes_done' = sent_upstream_writes_done
     /\ sent_upstream_writes_done => slices' = 0 /\ ~reading_body'
     /\ read_handler' = "readable" => read_continuation'
     /\ req_read' = req_read

LEMMA ReadEndedEffect ==
  ASSUME TypeOK, NEW o, NEW st \in Status, ReadEnded(o, st),
         sent_upstream_writes_done => slices' = 0 /\ ~reading_body'
  PROVE  ReadEffect(o) /\ CallTypes' /\ req_buf' \in Nat /\ req_read' \in Nat
  <1>1. /\ ~read_continuation' /\ read_continuation' = FALSE
        /\ read_handler' = "block" /\ req_buf' = 0
        /\ grpc_upstream_cancel' \in BOOLEAN
        /\ UNCHANGED <<request, header_sent, write_handler, outVars, req_read>>
    BY DEF ReadEnded
  <1>2. CASE sent_upstream_writes_done
    <2>1. /\ ops' = o /\ wd_status' = wd_status
          /\ sent_upstream_writes_done' = sent_upstream_writes_done
      BY <1>2 DEF ReadEnded, StartUpstreamWritesDone
    <2> QED BY <1>1, <1>2, <2>1 DEF ReadEffect, CallTypes, TypeOK, outVars
  <1>3. CASE ~sent_upstream_writes_done
    <2>1. /\ ops' = With(o, "writesdone") /\ wd_status' = st
          /\ sent_upstream_writes_done' = TRUE
      BY <1>3 DEF ReadEnded, StartUpstreamWritesDone
    <2> QED BY <1>1, <1>3, <2>1 DEF ReadEffect, CallTypes, TypeOK, outVars
  <1> QED BY <1>2, <1>3

LEMMA ReadBufferedEffect ==
  ASSUME TypeOK, NEW o, NEW n \in Nat, NEW open \in BOOLEAN,
         sent_upstream_writes_done => n = 0 /\ ~open,
         ReadBuffered(o, n, open)
  PROVE  /\ ReadEffect(o) /\ CallTypes'
         /\ slices' \in Nat /\ reading_body' \in BOOLEAN
         /\ req_buf' \in Nat /\ req_read' \in Nat
  <1>0. reading_body' = open
    BY DEF ReadBuffered
  <1>1. CASE n > 0 /\ slices' = n - 1 /\ StartUpstreamWriteMessage(o, ~open /\ n = 1)
    <2>1. ~sent_upstream_writes_done
      BY <1>1
    <2>2. /\ ops' = With(o, "write")
          /\ sent_upstream_writes_done' = (sent_upstream_writes_done \/ (~open /\ n = 1))
          /\ grpc_upstream_cancel' \in BOOLEAN
          /\ req_read' = req_read + 1 /\ req_buf' = req_read + 1
          /\ read_continuation' = FALSE /\ read_handler' = "block"
          /\ UNCHANGED <<request, header_sent, write_handler, outVars, wd_status>>
      BY <1>1, <2>1 DEF StartUpstreamWriteMessage
    <2>3. sent_upstream_writes_done' \in BOOLEAN
          /\ (sent_upstream_writes_done' => ~open /\ n = 1)
      BY <2>1, <2>2
    <2>4. ReadEffect(o)
      BY <1>0, <1>1, <2>1, <2>2, <2>3 DEF ReadEffect
    <2>5. CallTypes'
      BY <2>2, <2>3 DEF CallTypes, TypeOK, outVars
    <2>6. slices' \in Nat /\ req_buf' \in Nat /\ req_read' \in Nat
      BY <1>1, <2>2 DEF TypeOK
    <2> QED BY <1>0, <2>4, <2>5, <2>6
  <1>2. CASE n > 0 /\ slices' = n /\ ReadEnded(o, "INTERNAL")
    <2>1. "INTERNAL" \in Status /\ ~sent_upstream_writes_done
      BY <1>2 DEF Status
    <2>2. ReadEffect(o) /\ CallTypes' /\ req_buf' \in Nat /\ req_read' \in Nat
      BY <1>2, <2>1, ReadEndedEffect
    <2> QED BY <1>0, <1>2, <2>2
  <1>3. CASE n = 0 /\ ~open /\ slices' = 0 /\ ReadEnded(o, "OK")
    <2>1. "OK" \in Status /\ slices' = 0 /\ ~reading_body'
      BY <1>0, <1>3 DEF Status
    <2>2. ReadEffect(o) /\ CallTypes' /\ req_buf' \in Nat /\ req_read' \in Nat
      BY <1>3, <2>1, ReadEndedEffect
    <2> QED BY <1>0, <1>3, <2>2
  <1>4. CASE ~(n > 0) /\ ~(n = 0 /\ ~open /\ slices' = 0 /\ ReadEnded(o, "OK"))
    <2>1. /\ open /\ slices' = 0 /\ read_continuation' = TRUE
          /\ read_handler' = "readable" /\ ops' = o /\ req_buf' = 0
          /\ UNCHANGED <<sent_upstream_writes_done, wd_status, req_read, request,
                         header_sent, write_handler, grpc_upstream_cancel, outVars>>
      BY <1>4 DEF ReadBuffered
    <2>2. ~sent_upstream_writes_done
      BY <2>1
    <2>3. ReadEffect(o)
      BY <2>1, <2>2 DEF ReadEffect
    <2>4. CallTypes' /\ req_read' \in Nat
      BY <2>1 DEF CallTypes, TypeOK, outVars
    <2> QED BY <1>0, <2>1, <2>3, <2>4
  <1>5. n > 0 =>
          \/ slices' = n - 1 /\ StartUpstreamWriteMessage(o, ~open /\ n = 1)
          \/ slices' = n /\ ReadEnded(o, "INTERNAL")
    BY DEF ReadBuffered
  <1> QED BY <1>1, <1>2, <1>3, <1>4, <1>5

LEMMA RunPendingReadEffect ==
  ASSUME TypeOK, NEW o,
         sent_upstream_writes_done => slices = 0 /\ ~reading_body,
         RunPendingRead(o)
  PROVE  ReadEffect(o) /\ CallTypes' /\ BodyTypes'
  <1>0. BodyTypes
    BY DEF TypeOK, BodyTypes
  <1>1. CASE /\ Finalize(o, TRUE, "CONVERT_ERR", 1)
             /\ header_sent' = TRUE /\ req_buf' = 0
             /\ UNCHANGED <<delivered, bodyVars>>
    <2>1. "CONVERT_ERR" \in Status /\ TRUE \in BOOLEAN /\ 1 \in Nat
      BY DEF Status
    <2>2. BodyTypes'
      BY <1>0, <1>1 DEF BodyTypes, bodyVars
    <2>3. CallTypes'
      BY <1>1, <2>1, FinalizeType DEF CallTypes, TypeOK
    <2>4. slices' = slices /\ reading_body' = reading_body /\ req_read' = req_read
      BY <1>1 DEF bodyVars
    <2>5. ReadEffect(o)
      BY <1>1, <2>1, <2>4, FinalizeType DEF ReadEffect
    <2> QED BY <2>2, <2>3, <2>5
  <1>2. CASE /\ ReadBuffered(o, slices, reading_body)
             /\ UNCHANGED <<sock, sock_end>>
    <2>1. slices \in Nat /\ reading_body \in BOOLEAN
      BY DEF TypeOK
    <2>2. /\ ReadEffect(o) /\ CallTypes'
          /\ slices' \in Nat /\ reading_body' \in BOOLEAN
          /\ req_buf' \in Nat /\ req_read' \in Nat
      BY <1>2, <2>1, ReadBufferedEffect
    <2> QED BY <1>0, <1>2, <2>2 DEF BodyTypes
  <1>3. CASE /\ slices = 0 /\ reading_body
             /\ ReadEnded(o, "READ_ERR")
             /\ UNCHANGED <<slices, reading_body, sock, sock_end>>
    <2>1. "READ_ERR" \in Status
      BY DEF Status
    <2>2. ReadEffect(o) /\ CallTypes' /\ req_buf' \in Nat /\ req_read' \in Nat
      BY <1>3, <2>1, ReadEndedEffect
    <2> QED BY <1>0, <1>3, <2>2 DEF BodyTypes
  <1>4. CASE /\ reading_body
             /\ \E k \in 0..sock, end \in BOOLEAN :
                  sock' = sock - k /\ ReadBuffered(o, k, ~end)
             /\ UNCHANGED sock_end
    <2>1. PICK k \in 0..sock, end \in BOOLEAN :
            sock' = sock - k /\ ReadBuffered(o, k, ~end)
      BY <1>4
    <2>2. k \in Nat /\ (~end) \in BOOLEAN /\ sock' \in Nat
      BY <2>1 DEF TypeOK
    <2>3. ~sent_upstream_writes_done
      BY <1>4
    <2>4. /\ ReadEffect(o) /\ CallTypes'
          /\ slices' \in Nat /\ reading_body' \in BOOLEAN
          /\ req_buf' \in Nat /\ req_read' \in Nat
      BY <2>1, <2>2, <2>3, ReadBufferedEffect
    <2> QED BY <1>0, <1>4, <2>2, <2>4 DEF BodyTypes
  <1> QED BY <1>1, <1>2, <1>3, <1>4 DEF RunPendingRead

(* Effect of StartDownstreamReadMessage when no read is pending.             *)
LEMMA DownstreamReadEffect ==
  ASSUME TypeOK, NEW o,
         ~read_continuation, ReadableMeansPending,
         sent_upstream_writes_done => slices = 0 /\ ~reading_body,
         StartDownstreamReadMessage(o)
  PROVE  ReadEffect(o) /\ CallTypes' /\ BodyTypes'
  <1>0. BodyTypes /\ CallTypes /\ read_handler # "readable"
    BY DEF TypeOK, BodyTypes, CallTypes, ReadableMeansPending
  <1>1. CASE sent_downstream_finish
    <2>1. /\ ops' = o /\ req_buf' = 0
          /\ UNCHANGED <<sent_upstream_writes_done, wd_status, callVars, outVars,
                         bodyVars>>
      BY <1>1 DEF StartDownstreamReadMessage
    <2>2. CallTypes' /\ BodyTypes'
      BY <1>0, <2>1 DEF CallTypes, BodyTypes, callVars, outVars, bodyVars
    <2>3. ReadEffect(o)
      BY <1>0, <2>1 DEF ReadEffect, callVars, bodyVars
    <2> QED BY <2>2, <2>3
  <1>2. CASE ~sent_downstream_finish /\ request = "freed"
    <2>1. /\ StartUpstreamWritesDone(o, "OK") /\ req_buf' = 0
          /\ UNCHANGED <<callVars, outVars, bodyVars>>
      BY <1>2 DEF StartDownstreamReadMessage, Read
    <2>2. /\ read_continuation' = read_continuation /\ read_handler' = read_handler
          /\ slices' = slices /\ reading_body' = reading_body /\ req_read' = req_read
          /\ UNCHANGED <<finalized, client_status, delivered, request,
                         write_handler, grpc_upstream_cancel, header_sent>>
          /\ BodyTypes'
      BY <1>0, <2>1 DEF callVars, bodyVars, outVars, BodyTypes
    <2>3. CASE sent_upstream_writes_done
      <3>1. /\ ops' = o /\ wd_status' = wd_status
            /\ sent_upstream_writes_done' = sent_upstream_writes_done
        BY <2>1, <2>3 DEF StartUpstreamWritesDone
      <3> QED BY <1>0, <2>2, <3>1 DEF ReadEffect, CallTypes
    <2>4. CASE ~sent_upstream_writes_done
      <3>1. /\ ops' = With(o, "writesdone") /\ wd_status' = "OK"
            /\ sent_upstream_writes_done' = TRUE
        BY <2>1, <2>4 DEF StartUpstreamWritesDone
      <3>2. "OK" \in Status
        BY DEF Status
      <3> QED BY <1>0, <2>2, <2>4, <3>1, <3>2 DEF ReadEffect, CallTypes
    <2> QED BY <2>3, <2>4
  <1>3. CASE ~sent_downstream_finish /\ request # "freed"
    <2>1. RunPendingRead(o)
      BY <1>3 DEF StartDownstreamReadMessage, Read
    <2> QED BY <2>1, RunPendingReadEffect
  <1> QED BY <1>1, <1>2, <1>3

(* Effect of passing a response or the initial metadata on: the next read,   *)
(* a blocked write, or the end of the call.                                  *)
WriteEffect(o) ==
  \/ /\ ops' = With(o, "read") /\ write_continuation' = write_continuation
     /\ UNCHANGED <<sent_upstream_writes_done, read_continuation, read_handler,
                    sent_downstream_finish>>
  \/ /\ ops' = o /\ write_continuation' = TRUE
     /\ UNCHANGED <<sent_upstream_writes_done, read_continuation, read_handler,
                    sent_downstream_finish>>
  \/ /\ EndEffect(o) /\ write_continuation' = write_continuation
     /\ sent_downstream_finish' = TRUE

LEMMA DownstreamWriteEffect ==
  ASSUME TypeOK, NEW o, StartDownstreamWriteMessage(o)
  PROVE  WriteEffect(o) /\ CallTypes' /\ write_continuation' \in BOOLEAN
         /\ sent_downstream_finish' \in BOOLEAN /\ stale_use' \in BOOLEAN
  <1>0. CallTypes /\ sent_downstream_finish \in BOOLEAN /\ stale_use \in BOOLEAN
        /\ write_continuation \in BOOLEAN /\ resp_buf \in Nat
        /\ "UNKNOWN" \in Status /\ "CONVERT_ERR" \in Status /\ 1 \in Nat /\ 2 \in Nat
    BY DEF TypeOK, CallTypes, Status
  <1>1. CASE sent_downstream_finish
    <2>1. /\ ops' = o
          /\ UNCHANGED <<sent_downstream_finish, sent_upstream_writes_done,
                         wd_status, callVars, outVars, asideVars>>
      BY <1>1 DEF StartDownstreamWriteMessage
    <2>2. CallTypes'
      BY <1>0, <2>1 DEF CallTypes, callVars, outVars
    <2>3. WriteEffect(o)
      BY <1>0, <1>1, <2>1 DEF WriteEffect, EndEffect, callVars, asideVars
    <2> QED BY <1>0, <2>1, <2>2, <2>3 DEF asideVars
  <1>2. CASE ~sent_downstream_finish
    <2>0. stale_use' \in BOOLEAN /\ Write(o)
      BY <1>2 DEF StartDownstreamWriteMessage
    <2>1. CASE StartDownstreamFinish(o, "UNKNOWN") /\ UNCHANGED write_continuation
      BY <1>0, <2>0, <2>1, DownstreamFinishEffect DEF WriteEffect
    <2>2. CASE /\ \E n \in {1, 2} : Finalize(o, read_continuation, "CONVERT_ERR", n)
               /\ sent_downstream_finish' = TRUE /\ header_sent' = TRUE
               /\ UNCHANGED <<write_continuation, delivered>>
      <3>1. PICK n \in {1, 2} : Finalize(o, read_continuation, "CONVERT_ERR", n)
        BY <2>2
      <3>2. n \in Nat /\ read_continuation \in BOOLEAN
        BY <1>0 DEF CallTypes
      <3>3. CallTypes' /\ EndEffect(o)
        BY <1>0, <2>2, <3>1, <3>2, FinalizeType DEF CallTypes, EndEffect
      <3> QED BY <1>0, <2>0, <2>2, <3>3 DEF WriteEffect
    <2>3. CASE /\ delivered' = Append(delivered, resp_buf) /\ header_sent' = TRUE
               /\ \/ /\ ops' = With(o, "read")
                     /\ UNCHANGED <<write_continuation, write_handler>>
                  \/ /\ ops' = o /\ write_continuation' = TRUE
                     /\ write_handler' = "esp"
               /\ UNCHANGED <<sent_downstream_finish, sent_upstream_writes_done,
                              wd_status, request, read_continuation, read_handler,
                              grpc_upstream_cancel, client_status, finalized>>
      <3>1. delivered' \in Seq(Nat)
        BY <1>0, <2>3 DEF CallTypes
      <3>2. CallTypes'
        BY <1>0, <2>3, <3>1 DEF CallTypes
      <3>3. WriteEffect(o)
        BY <2>3 DEF WriteEffect
      <3> QED BY <1>0, <2>0, <2>3, <3>2, <3>3
    <2> QED BY <2>0, <2>1, <2>2, <2>3 DEF Write
  <1> QED BY <1>1, <1>2

LEMMA InitialMetadataEffect ==
  ASSUME TypeOK, NEW o, StartDownstreamWriteInitialMetadata(o),
         UNCHANGED write_continuation
  PROVE  WriteEffect(o) /\ CallTypes' /\ sent_downstream_finish' \in BOOLEAN
  <1>0. CallTypes /\ sent_downstream_finish \in BOOLEAN /\ "UNKNOWN" \in Status
    BY DEF TypeOK, CallTypes, Status
  <1>1. CASE sent_downstream_finish
    <2>1. /\ ops' = o
          /\ UNCHANGED <<sent_downstream_finish, sent_upstream_writes_done,
                         wd_status, callVars, outVars>>
      BY <1>1 DEF StartDownstreamWriteInitialMetadata
    <2>2. CallTypes'
      BY <1>0, <2>1 DEF CallTypes, callVars, outVars
    <2>3. WriteEffect(o)
      BY <1>0, <1>1, <2>1 DEF WriteEffect, EndEffect, callVars
    <2> QED BY <1>0, <2>1, <2>2, <2>3
  <1>2. CASE ~sent_downstream_finish /\ StartDownstreamFinish(o, "UNKNOWN")
    BY <1>0, <1>2, DownstreamFinishEffect DEF WriteEffect
  <1>3. CASE ~sent_downstream_finish /\ ~StartDownstreamFinish(o, "UNKNOWN")
    <2>1. /\ ops' = With(o, "read")
          /\ header_sent' = (header_sent \/ ~Transcoding)
          /\ UNCHANGED <<sent_downstream_finish, sent_upstream_writes_done,
                         wd_status, request, read_continuation, read_handler,
                         write_handler, grpc_upstream_cancel, outVars>>
      BY <1>3 DEF StartDownstreamWriteInitialMetadata
    <2>2. header_sent' \in BOOLEAN
      BY <2>1
    <2>3. CallTypes'
      BY <1>0, <2>1, <2>2 DEF CallTypes, outVars
    <2> QED BY <1>0, <2>1, <2>3 DEF WriteEffect
  <1> QED BY <1>1, <1>2, <1>3

-----------------------------------------------------------------------------
(* The part of the invariant that is about operations and continuations.     *)
TokenInvariant ==
  /\ BeforeStart
  /\ ReadableMeansPending
  /\ OneOperationPerDirection
  /\ HalfCloseDrained
  /\ ResponseUnderWay

(* The invariant's parts hold before every step below; a tag that is run has *)
(* an outstanding operation, so the flow is started.                         *)
LEMMA TagStarted ==
  ASSUME FlowInvariant, NEW op \in OpKind, ops[op] >= 1
  PROVE  started
  BY DEF FlowInvariant, BeforeStart, TypeOK

(* Tags keep an outstanding operation each when operations are only added.   *)
LEMMA TagsKept ==
  ASSUME NEW o \in [OpKind -> Nat],
         tags' \in Seq(Tag),
         \A i \in 1..Len(tags') : o[tags'[i].op] >= 1,
         \A i, j \in 1..Len(tags') : tags'[i].op = tags'[j].op => i = j,
         ops' \in [OpKind -> Nat],
         \A k \in OpKind : ops'[k] >= o[k]
  PROVE  TagsOutstanding'
  <1>1. ASSUME NEW i \in 1..Len(tags') PROVE ops'[tags'[i].op] >= 1
    <2>1. tags'[i] \in Tag
      OBVIOUS
    <2>2. tags'[i].op \in OpKind
      BY <2>1 DEF Tag
    <2>3. /\ ops'[tags'[i].op] >= o[tags'[i].op] /\ o[tags'[i].op] >= 1
          /\ ops'[tags'[i].op] \in Nat /\ o[tags'[i].op] \in Nat
      BY <2>2
    <2> QED BY <2>3
  <1> QED BY <1>1 DEF TagsOutstanding

(* The step that ends the call runs one tag and is otherwise EndEffect.      *)
LEMMA EndPreserves ==
  ASSUME FlowInvariant,
         NEW o \in [OpKind -> Nat],
         \A k \in OpKind : o[k] <= ops[k],
         EndEffect(o), CallTypes',
         sent_downstream_finish' = TRUE,
         started' = TRUE,
         UNCHANGED <<started_upstream_finish, slices, reading_body>>,
         write_continuation' \in BOOLEAN,
         write_continuation' => write_continuation,
         o["finish"] >= 1 => started_upstream_finish
  PROVE  /\ ops' \in [OpKind -> Nat]
         /\ \A k \in OpKind : ops'[k] >= o[k]
         /\ TokenInvariant'
  <1>1. /\ ops \in [OpKind -> Nat] /\ read_continuation \in BOOLEAN
        /\ write_continuation \in BOOLEAN /\ read_continuation' \in BOOLEAN
        /\ RequestTokens <= 1 /\ ResponseTokens <= 1 /\ ops["finish"] <= 1
        /\ ReadableMeansPending /\ HalfCloseDrained
    BY DEF FlowInvariant, TypeOK, CallTypes, OneOperationPerDirection
  <1>2. CASE /\ ops' = o
             /\ sent_upstream_writes_done' = sent_upstream_writes_done
             /\ \/ read_continuation' = read_continuation /\ read_handler' = read_handler
                \/ (read_continuation' => read_continuation) /\ read_handler' = "detached"
    <2>1. ops' \in [OpKind -> Nat] /\ \A k \in OpKind : ops'[k] >= o[k]
      BY <1>2
    <2>2. Flag(read_continuation') <= Flag(read_continuation)
          /\ Flag(write_continuation') <= Flag(write_continuation)
          /\ Flag(read_continuation) \in 0..1 /\ Flag(read_continuation') \in 0..1
          /\ Flag(write_continuation) \in 0..1 /\ Flag(write_continuation') \in 0..1
      BY <1>1, <1>2 DEF Flag
    <2>3. OneOperationPerDirection'
      BY <1>1, <1>2, <2>2
         DEF OneOperationPerDirection, RequestTokens, ResponseTokens, OpKind
    <2>4. HalfCloseDrained'
      BY <1>1, <1>2, <2>2 DEF HalfCloseDrained, OpKind
    <2>5. ReadableMeansPending'
      BY <1>1, <1>2 DEF ReadableMeansPending
    <2>6. ResponseUnderWay' /\ BeforeStart'
      BY <1>2 DEF ResponseUnderWay, BeforeStart
    <2> QED BY <2>1, <2>3, <2>4, <2>5, <2>6 DEF TokenInvariant
  <1>3. CASE /\ ops' = With(o, "writesdone")
             /\ read_continuation /\ ~read_continuation'
             /\ ~sent_upstream_writes_done /\ sent_upstream_writes_done'
             /\ read_handler' = "detached"
    <2>0. "writesdone" \in OpKind
      BY DEF OpKind
    <2>1. /\ ops' \in [OpKind -> Nat]
          /\ \A k \in OpKind : ops'[k] = IF k = "writesdone" THEN o[k] + 1 ELSE o[k]
      BY <1>3, <2>0, WithType
    <2>2. /\ Flag(read_continuation') = 0 /\ Flag(read_continuation) = 1
          /\ Flag(write_continuation') <= Flag(write_continuation)
          /\ Flag(write_continuation) \in 0..1 /\ Flag(write_continuation') \in 0..1
      BY <1>1, <1>3 DEF Flag
    <2>3. OneOperationPerDirection'
      BY <1>1, <2>1, <2>2
         DEF OneOperationPerDirection, RequestTokens, ResponseTokens, OpKind
    <2>4. ops'["call"] + ops'["write"] + Flag(read_continuation') = 0
      BY <1>1, <2>1, <2>2 DEF RequestTokens, OpKind
    <2>5. HalfCloseDrained' /\ ReadableMeansPending' /\ BeforeStart'
      BY <2>4, <1>3 DEF HalfCloseDrained, ReadableMeansPending, BeforeStart
    <2>6. ops'["finish"] = o["finish"]
      BY <2>1 DEF OpKind
    <2>7. ResponseUnderWay'
      BY <2>6 DEF ResponseUnderWay
    <2>8. \A k \in OpKind : ops'[k] >= o[k]
      BY <2>1
    <2> QED BY <2>1, <2>3, <2>5, <2>7, <2>8 DEF TokenInvariant
  <1> QED BY <1>2, <1>3 DEF EndEffect

(* A downstream read takes the place of the operation that led to it.        *)
LEMMA ReadPreserves ==
  ASSUME TypeOK,
         NEW o \in [OpKind -> Nat],
         o["call"] = 0, o["write"] = 0, o["writesdone"] = 0, o["finish"] <= 1,
         o["initmeta"] + o["read"] + Flag(write_continuation) <= 1,
         \/ sent_downstream_finish
         \/ o["initmeta"] + o["read"] + Flag(write_continuation) >= 1
         \/ o["finish"] >= 1,
         o["finish"] >= 1 => started_upstream_finish,
         started_upstream_finish => sent_downstream_finish \/ o["finish"] >= 1,
         ReadEffect(o), CallTypes', started' = TRUE,
         UNCHANGED <<started_upstream_finish, sent_downstream_finish,
                     write_continuation>>
  PROVE  /\ ops' \in [OpKind -> Nat]
         /\ \A k \in OpKind : ops'[k] >= o[k]
         /\ TokenInvariant'
  <1>0. /\ read_continuation' \in BOOLEAN /\ write_continuation \in BOOLEAN
        /\ Flag(write_continuation) \in 0..1
        /\ Flag(write_continuation') = Flag(write_continuation)
        /\ Flag(read_continuation') \in 0..1
        /\ read_continuation' = FALSE => Flag(read_continuation') = 0
    BY DEF CallTypes, TypeOK, Flag
  <1>1. CASE \E op \in {"write", "writesdone"} :
               /\ ops' = With(o, op) /\ ~read_continuation'
               /\ read_handler' # "readable"
               /\ sent_upstream_writes_done' =>
                     op = "writesdone" \/ (slices' = 0 /\ ~reading_body')
    <2>1. PICK op \in {"write", "writesdone"} :
               /\ ops' = With(o, op) /\ ~read_continuation'
               /\ read_handler' # "readable"
               /\ sent_upstream_writes_done' =>
                     op = "writesdone" \/ (slices' = 0 /\ ~reading_body')
      BY <1>1
    <2>2. op \in OpKind
      BY DEF OpKind
    <2>3. /\ ops' \in [OpKind -> Nat]
          /\ \A k \in OpKind : ops'[k] = IF k = op THEN o[k] + 1 ELSE o[k]
      BY <2>1, <2>2, WithType
    <2>4. \A k \in OpKind : ops'[k] >= o[k]
      BY <2>3
    <2>5. Flag(read_continuation') = 0
      BY <1>0, <2>1
    <2>6. OneOperationPerDirection'
      BY <1>0, <2>3, <2>5
         DEF OneOperationPerDirection, RequestTokens, ResponseTokens, OpKind
    <2>7. HalfCloseDrained'
      BY <2>1, <2>3, <2>5 DEF HalfCloseDrained, OpKind
    <2>8. ReadableMeansPending' /\ BeforeStart'
      BY <2>1 DEF ReadableMeansPending, BeforeStart
    <2>9. ResponseUnderWay'
      <3>1. /\ ops'["call"] = 0 /\ ops'["initmeta"] = o["initmeta"]
            /\ ops'["read"] = o["read"] /\ ops'["finish"] = o["finish"]
        BY <2>3 DEF OpKind
      <3>2. ResponseTokens' = o["initmeta"] + o["read"] + Flag(write_continuation)
        BY <1>0, <3>1 DEF ResponseTokens, OpKind
      <3> QED BY <3>1, <3>2 DEF ResponseUnderWay
    <2> QED BY <2>3, <2>4, <2>6, <2>7, <2>8, <2>9 DEF TokenInvariant
  <1>2. CASE /\ ops' = o
             /\ sent_upstream_writes_done' = sent_upstream_writes_done
             /\ sent_upstream_writes_done => slices' = 0 /\ ~reading_body'
             /\ read_handler' = "readable" => read_continuation'
    <2>1. \A k \in OpKind : ops'[k] >= o[k]
      BY <1>2
    <2>2. OneOperationPerDirection'
      BY <1>0, <1>2
         DEF OneOperationPerDirection, RequestTokens, ResponseTokens, OpKind
    <2>3. HalfCloseDrained' /\ ReadableMeansPending' /\ BeforeStart'
      BY <1>2 DEF HalfCloseDrained, ReadableMeansPending, BeforeStart
    <2>4. ResponseUnderWay'
      <3>1. ResponseTokens' = o["initmeta"] + o["read"] + Flag(write_continuation)
        BY <1>0, <1>2 DEF ResponseTokens, OpKind
      <3> QED BY <1>2, <3>1 DEF ResponseUnderWay
    <2> QED BY <1>2, <2>1, <2>2, <2>3, <2>4 DEF TokenInvariant
  <1>3. <1>1!1 \/ <1>2!1
    BY DEF ReadEffect
  <1> QED BY <1>1, <1>2, <1>3

(* Passing something on to the client takes the place of the upstream read   *)
(* it came from.                                                             *)
LEMMA WritePreserves ==
  ASSUME FlowInvariant, started' = TRUE,
         NEW o \in [OpKind -> Nat],
         \A k \in OpKind : o[k] <= ops[k],
         o["finish"] = ops["finish"],
         o["call"] + o["initmeta"] + o["read"] + Flag(write_continuation) = 0,
         WriteEffect(o), CallTypes', write_continuation' \in BOOLEAN,
         UNCHANGED <<started_upstream_finish, slices, reading_body>>
  PROVE  /\ ops' \in [OpKind -> Nat]
         /\ \A k \in OpKind : ops'[k] >= o[k]
         /\ TokenInvariant'
  <1>0. /\ ops \in [OpKind -> Nat] /\ read_continuation \in BOOLEAN
        /\ write_continuation \in BOOLEAN
        /\ Flag(read_continuation) \in 0..1 /\ Flag(write_continuation) \in 0..1
        /\ RequestTokens <= 1 /\ ops["finish"] <= 1
        /\ ReadableMeansPending /\ HalfCloseDrained /\ ResponseUnderWay
    BY DEF FlowInvariant, TypeOK, OneOperationPerDirection, Flag
  <1>1. CASE EndEffect(o) /\ write_continuation' = write_continuation
             /\ sent_downstream_finish' = TRUE
    <2>1. o["finish"] >= 1 => started_upstream_finish
      BY <1>0 DEF ResponseUnderWay
    <2> QED BY <1>1, <2>1, EndPreserves
  <1>2. CASE /\ ops' = With(o, "read") /\ write_continuation' = write_continuation
             /\ UNCHANGED <<sent_upstream_writes_done, read_continuation,
                            read_handler, sent_downstream_finish>>
    <2>1. "read" \in OpKind
      BY DEF OpKind
    <2>2. /\ ops' \in [OpKind -> Nat]
          /\ \A k \in OpKind : ops'[k] = IF k = "read" THEN o[k] + 1 ELSE o[k]
      BY <1>2, <2>1, WithType
    <2>3. \A k \in OpKind : ops'[k] >= o[k]
      BY <2>2
    <2>4. /\ Flag(read_continuation') = Flag(read_continuation)
          /\ Flag(write_continuation') = Flag(write_continuation)
      BY <1>2
    <2>5. OneOperationPerDirection' /\ ResponseTokens' >= 1
      BY <1>0, <2>2, <2>4
         DEF OneOperationPerDirection, RequestTokens, ResponseTokens, OpKind
    <2>6. HalfCloseDrained'
      <3>1. /\ ops'["call"] \in 0..ops["call"] /\ ops'["write"] \in 0..ops["write"]
            /\ ops["call"] \in Nat /\ ops["write"] \in Nat
        BY <1>0, <2>2 DEF OpKind
      <3>2. ops["call"] + ops["write"] + Flag(read_continuation) = 0 =>
              ops'["call"] + ops'["write"] + Flag(read_continuation') = 0
        BY <1>0, <2>4, <3>1
      <3> QED BY <1>0, <1>2, <3>2 DEF HalfCloseDrained
    <2>7. ReadableMeansPending' /\ BeforeStart'
      BY <1>0, <1>2 DEF ReadableMeansPending, BeforeStart
    <2>8. ops'["finish"] = ops["finish"]
      BY <2>2 DEF OpKind
    <2>9. ResponseUnderWay'
      BY <1>0, <1>2, <2>5, <2>8 DEF ResponseUnderWay
    <2> QED BY <2>2, <2>3, <2>5, <2>6, <2>7, <2>9 DEF TokenInvariant
  <1>3. CASE /\ ops' = o /\ write_continuation' = TRUE
             /\ UNCHANGED <<sent_upstream_writes_done, read_continuation,
                            read_handler, sent_downstream_finish>>
    <2>1. \A k \in OpKind : ops'[k] >= o[k]
      BY <1>3
    <2>2. /\ Flag(read_continuation') = Flag(read_continuation)
          /\ Flag(write_continuation') = 1
      BY <1>3 DEF Flag
    <2>3. OneOperationPerDirection' /\ ResponseTokens' >= 1
      BY <1>0, <1>3, <2>2
         DEF OneOperationPerDirection, RequestTokens, ResponseTokens, OpKind
    <2>4. HalfCloseDrained'
      BY <1>0, <1>3, <2>2, SMTT(30) DEF HalfCloseDrained, OpKind
    <2>5. ReadableMeansPending' /\ BeforeStart'
      BY <1>0, <1>3 DEF ReadableMeansPending, BeforeStart
    <2>6. ResponseUnderWay'
      BY <1>0, <1>3, <2>3 DEF ResponseUnderWay
    <2> QED BY <1>3, <2>1, <2>3, <2>4, <2>5, <2>6 DEF TokenInvariant
  <1> QED BY <1>1, <1>2, <1>3 DEF WriteEffect

(* A failed operation starts the one Finish of the call.                     *)
LEMMA UpstreamFinishPreserves ==
  ASSUME FlowInvariant, started, started' = TRUE,
         NEW o \in [OpKind -> Nat],
         \A k \in OpKind : o[k] <= ops[k],
         o["finish"] = ops["finish"],
         StartUpstreamFinish(o),
         UNCHANGED <<sent_upstream_writes_done, sent_downstream_finish,
                     read_continuation, write_continuation, read_handler,
                     slices, reading_body>>
  PROVE  /\ ops' \in [OpKind -> Nat]
         /\ \A k \in OpKind : ops'[k] >= o[k]
         /\ TokenInvariant'
  <1>0. /\ ops \in [OpKind -> Nat] /\ read_continuation \in BOOLEAN
        /\ write_continuation \in BOOLEAN
        /\ Flag(read_continuation) \in 0..1 /\ Flag(write_continuation) \in 0..1
        /\ Flag(read_continuation') = Flag(read_continuation)
        /\ Flag(write_continuation') = Flag(write_continuation)
        /\ started_upstream_finish \in BOOLEAN
        /\ RequestTokens <= 1 /\ ResponseTokens <= 1 /\ ops["finish"] <= 1
        /\ ReadableMeansPending /\ HalfCloseDrained /\ ResponseUnderWay
    BY DEF FlowInvariant, TypeOK, OneOperationPerDirection, Flag
  <1>1. "finish" \in OpKind
    BY DEF OpKind
  <1>2. /\ started_upstream_finish' = TRUE
        /\ ops' \in [OpKind -> Nat]
        /\ \A k \in OpKind \ {"finish"} : ops'[k] = o[k]
        /\ ops'["finish"] = IF started_upstream_finish THEN ops["finish"]
                            ELSE ops["finish"] + 1
    BY <1>1, WithType DEF StartUpstreamFinish
  <1>3. \A k \in OpKind : ops'[k] >= o[k]
    BY <1>0, <1>1, <1>2
  <1>4. ops["finish"] >= 1 => started_upstream_finish
    BY <1>0 DEF ResponseUnderWay
  <1>5. OneOperationPerDirection'
    <2>1. ops'["finish"] <= 1
      BY <1>0, <1>1, <1>2, <1>4
    <2> QED BY <1>0, <1>2, <2>1
        DEF OneOperationPerDirection, RequestTokens, ResponseTokens, OpKind
  <1>6. HalfCloseDrained'
    BY <1>0, <1>2 DEF HalfCloseDrained, OpKind
  <1>7. ReadableMeansPending' /\ BeforeStart'
    BY <1>0 DEF ReadableMeansPending, BeforeStart
  <1>8. ResponseUnderWay'
    <2>1. sent_downstream_finish' \/ ops'["finish"] >= 1
      BY <1>0, <1>1, <1>2 DEF ResponseUnderWay
    <2> QED BY <1>2, <2>1 DEF ResponseUnderWay
  <1> QED BY <1>2, <1>3, <1>5, <1>6, <1>7, <1>8 DEF TokenInvariant

-----------------------------------------------------------------------------
(* Every step preserves the invariant.                                       *)

(* What is left of the type invariant beside the server call and the body.   *)
RestTypes ==
  /\ started \in BOOLEAN /\ started_upstream_finish \in BOOLEAN
  /\ sent_downstream_finish \in BOOLEAN
  /\ status_from_upstream \in Status
  /\ tags \in Seq(Tag) /\ resp_buf \in Nat
  /\ write_continuation \in BOOLEAN /\ stale_use \in BOOLEAN
  /\ conn_error \in BOOLEAN /\ read_event \in BOOLEAN
  /\ b_sent \in Nat /\ b_read \in Nat /\ b_got \in Seq(Nat)
  /\ b_closed \in {"open", "OK", "ERR", "CANCELLED"}

LEMMA TypeParts ==
  TypeOK <=> ops \in [OpKind -> Nat] /\ CallTypes /\ BodyTypes /\ RestTypes
  BY DEF TypeOK, CallTypes, BodyTypes, RestTypes

LEMMA InvariantParts ==
  FlowInvariant <=> TypeOK /\ TagsOutstanding /\ TokenInvariant
  BY DEF FlowInvariant, TokenInvariant

LEMMA InvariantRestored ==
  ASSUME ops' \in [OpKind -> Nat], CallTypes', BodyTypes', RestTypes',
         TagsOutstanding', TokenInvariant'
  PROVE  FlowInvariant'
  <1>1. TypeOK'
    BY DEF TypeOK, CallTypes, BodyTypes, RestTypes
  <1> QED BY <1>1 DEF FlowInvariant, TokenInvariant

LEMMA OpKinds ==
  /\ "call" \in OpKind /\ "initmeta" \in OpKind /\ "read" \in OpKind
  /\ "write" \in OpKind /\ "writesdone" \in OpKind /\ "finish" \in OpKind
  BY DEF OpKind

LEMMA Statuses ==
  {"OK", "ERR", "CANCELLED", "UNAVAILABLE", "UNKNOWN", "INTERNAL", "READ_ERR",
   "CONVERT_ERR"} \subseteq Status
  BY DEF Status

(* A tag whose callback only ends the call.                                  *)
LEMMA EndTagPreserves ==
  ASSUME FlowInvariant, NEW op \in OpKind, NEW ok \in BOOLEAN, RunTag(op, ok),
         NEW st \in Status, StartDownstreamFinish(Done(op), st),
         UNCHANGED <<started_upstream_finish, req_buf, asideVars, bodyVars>>
  PROVE  FlowInvariant'
  <1>1. TypeOK /\ TagsOutstanding /\ CallTypes /\ BodyTypes /\ RestTypes
    BY InvariantParts, TypeParts
  <1>2. /\ Done(op) \in [OpKind -> Nat]
        /\ ops[op] >= 1
        /\ \A k \in OpKind : Done(op)[k] = IF k = op THEN ops[k] - 1 ELSE ops[k]
        /\ tags' \in Seq(Tag)
        /\ \A i \in 1..Len(tags') : Done(op)[tags'[i].op] >= 1
        /\ \A i, j \in 1..Len(tags') : tags'[i].op = tags'[j].op => i = j
    BY <1>1, RunTagEffect
  <1>3. sent_downstream_finish' = TRUE /\ CallTypes' /\ EndEffect(Done(op))
    BY <1>1, DownstreamFinishEffect
  <1>4. started' = TRUE
    BY <1>2, TagStarted, <1>1 DEF RunTag, RestTypes
  <1>5. /\ \A k \in OpKind : Done(op)[k] <= ops[k]
        /\ Done(op)["finish"] >= 1 => started_upstream_finish
    <2>1. \A k \in OpKind : ops[k] \in Nat
      BY <1>1 DEF TypeOK
    <2>2. ops["finish"] >= 1 => started_upstream_finish
      BY DEF FlowInvariant, ResponseUnderWay
    <2> QED BY <1>2, <2>1, <2>2, OpKinds, SMTT(30)
  <1>6. /\ ops' \in [OpKind -> Nat]
        /\ \A k \in OpKind : ops'[k] >= Done(op)[k]
        /\ TokenInvariant'
    <2>1. /\ UNCHANGED <<started_upstream_finish, slices, reading_body>>
          /\ write_continuation' \in BOOLEAN
          /\ (write_continuation' => write_continuation)
      BY <1>1 DEF asideVars, bodyVars, RestTypes
    <2> QED BY <1>2, <1>3, <1>4, <1>5, <2>1, EndPreserves
  <1>7. TagsOutstanding'
    BY <1>2, <1>6, TagsKept
  <1>8. BodyTypes' /\ RestTypes'
    BY <1>1, <1>2, <1>3, <1>4
       DEF BodyTypes, RestTypes, RunTag, asideVars, bodyVars, connVars, backendVars
  <1> QED BY <1>3, <1>6, <1>7, <1>8, InvariantRestored

(* A tag whose callback starts the Finish of the upstream call.              *)
LEMMA FinishTagPreserves ==
  ASSUME FlowInvariant, NEW op \in OpKind \ {"finish"}, NEW ok \in BOOLEAN,
         RunTag(op, ok), StartUpstreamFinish(Done(op)),
         UNCHANGED <<sent_downstream_finish, sent_upstream_writes_done, wd_status,
                     callVars, asideVars, outVars, bodyVars>>,
         req_buf' \in Nat
  PROVE  FlowInvariant'
  <1>1. TypeOK /\ TagsOutstanding /\ CallTypes /\ BodyTypes /\ RestTypes
    BY InvariantParts, TypeParts
  <1>2. /\ Done(op) \in [OpKind -> Nat]
        /\ ops[op] >= 1
        /\ \A k \in OpKind : Done(op)[k] = IF k = op THEN ops[k] - 1 ELSE ops[k]
        /\ tags' \in Seq(Tag)
        /\ \A i \in 1..Len(tags') : Done(op)[tags'[i].op] >= 1
        /\ \A i, j \in 1..Len(tags') : tags'[i].op = tags'[j].op => i = j
    BY <1>1, RunTagEffect
  <1>3. started /\ started' = TRUE
    BY <1>2, TagStarted, <1>1 DEF RunTag, RestTypes
  <1>4. /\ \A k \in OpKind : Done(op)[k] <= ops[k]
        /\ Done(op)["finish"] = ops["finish"]
    <2>1. \A k \in OpKind : ops[k] \in Nat
      BY <1>1 DEF TypeOK
    <2> QED BY <1>2, <2>1, OpKinds
  <1>5. UNCHANGED <<sent_upstream_writes_done, sent_downstream_finish,
                    read_continuation, write_continuation, read_handler,
                    slices, reading_body>>
    BY DEF callVars, asideVars, bodyVars
  <1>6. /\ ops' \in [OpKind -> Nat]
        /\ \A k \in OpKind : ops'[k] >= Done(op)[k]
        /\ TokenInvariant'
    BY <1>2, <1>3, <1>4, <1>5, UpstreamFinishPreserves
  <1>7. TagsOutstanding'
    BY <1>2, <1>6, TagsKept
  <1>8. CallTypes'
    BY <1>1 DEF CallTypes, callVars, outVars
  <1>9. BodyTypes'
    BY <1>1 DEF BodyTypes, bodyVars
  <1>10. started_upstream_finish' \in BOOLEAN
    BY DEF StartUpstreamFinish
  <1>11. RestTypes'
    BY <1>1, <1>2, <1>3, <1>10
       DEF RestTypes, RunTag, asideVars, connVars, backendVars
  <1> QED BY <1>6, <1>7, <1>8, <1>9, <1>11, InvariantRestored

(* A tag whose callback starts the next downstream read.                     *)
LEMMA ReadTagPreserves ==
  ASSUME FlowInvariant, NEW op \in {"call", "write"}, RunTag(op, TRUE),
         NEW o, o = IF op = "call" THEN With(Done(op), "initmeta") ELSE Done(op),
         StartDownstreamReadMessage(o),
         UNCHANGED <<started_upstream_finish, sent_downstream_finish, asideVars>>
  PROVE  FlowInvariant'
  <1>0. op \in OpKind /\ TRUE \in BOOLEAN
    BY OpKinds
  <1>1. TypeOK /\ TagsOutstanding /\ CallTypes /\ BodyTypes /\ RestTypes
    BY InvariantParts, TypeParts
  <1>2. /\ Done(op) \in [OpKind -> Nat]
        /\ ops[op] >= 1
        /\ \A k \in OpKind : Done(op)[k] = IF k = op THEN ops[k] - 1 ELSE ops[k]
        /\ tags' \in Seq(Tag)
        /\ \A i \in 1..Len(tags') : Done(op)[tags'[i].op] >= 1
        /\ \A i, j \in 1..Len(tags') : tags'[i].op = tags'[j].op => i = j
    BY <1>0, <1>1, RunTagEffect
  <1>3. started /\ started' = TRUE
    BY <1>0, <1>2, TagStarted, <1>1 DEF RunTag, RestTypes
  <1>4. /\ read_continuation \in BOOLEAN /\ write_continuation \in BOOLEAN
        /\ Flag(read_continuation) \in 0..1 /\ Flag(write_continuation) \in 0..1
        /\ read_continuation => Flag(read_continuation) = 1
        /\ RequestTokens <= 1 /\ ResponseTokens <= 1 /\ ops["finish"] <= 1
        /\ ReadableMeansPending /\ HalfCloseDrained /\ ResponseUnderWay
        /\ \A k \in OpKind : ops[k] \in Nat
    BY <1>1 DEF FlowInvariant, TypeOK, OneOperationPerDirection, Flag
  <1>5. /\ o \in [OpKind -> Nat]
        /\ \A k \in OpKind : o[k] >= Done(op)[k]
        /\ o["call"] = IF op = "call" THEN ops["call"] - 1 ELSE ops["call"]
        /\ o["write"] = IF op = "write" THEN ops["write"] - 1 ELSE ops["write"]
        /\ o["writesdone"] = ops["writesdone"]
        /\ o["finish"] = ops["finish"]
        /\ o["read"] = ops["read"]
        /\ o["initmeta"] = IF op = "call" THEN ops["initmeta"] + 1
                           ELSE ops["initmeta"]
    <2>1. CASE op = "call"
      <3>1. /\ o \in [OpKind -> Nat]
            /\ \A k \in OpKind : o[k] = IF k = "initmeta" THEN Done(op)[k] + 1
                                        ELSE Done(op)[k]
        <4> DEFINE p == Done(op)
        <4>1. o = With(p, "initmeta") /\ p \in [OpKind -> Nat]
          BY <2>1, <1>2
        <4> HIDE DEF p
        <4>2. /\ o \in [OpKind -> Nat]
              /\ \A k \in OpKind : o[k] = IF k = "initmeta" THEN p[k] + 1 ELSE p[k]
          BY <4>1, OpKinds, WithType
        <4> QED BY <4>2 DEF p
      <3>2. \A k \in OpKind : Done(op)[k] \in Nat
        BY <1>2
      <3>3. \A k \in OpKind : o[k] >= Done(op)[k]
        BY <3>1, <3>2
      <3> QED BY <2>1, <3>1, <3>3, <1>2, OpKinds
    <2>2. CASE op = "write"
      <3>1. o = Done(op) /\ \A k \in OpKind : Done(op)[k] \in Nat
        BY <2>2, <1>2
      <3>2. \A k \in OpKind : o[k] >= Done(op)[k]
        BY <3>1
      <3> QED BY <2>2, <3>1, <3>2, <1>2, OpKinds
    <2> QED BY <2>1, <2>2
  <1> DEFINE c == ops["call"]  w == ops["write"]  d == ops["writesdone"]
             m == ops["initmeta"]  r == ops["read"]
  <1>n. /\ c \in Nat /\ w \in Nat /\ d \in Nat /\ m \in Nat /\ r \in Nat
        /\ ops["finish"] \in Nat
        /\ (op = "call" => c >= 1) /\ (op = "write" => w >= 1)
        /\ c + Flag(read_continuation) + w + d <= 1
        /\ c + m + r + Flag(write_continuation) = ResponseTokens
    BY <1>2, <1>4, OpKinds DEF RequestTokens, ResponseTokens
  <1>6. /\ ~read_continuation
        /\ o["call"] = 0 /\ o["write"] = 0 /\ o["writesdone"] = 0
        /\ o["finish"] = ops["finish"]
    <2> HIDE DEF c, w, d, m, r
    <2>1. c + w = 1 /\ d = 0 /\ Flag(read_continuation) = 0
          /\ (op = "call" => c = 1 /\ w = 0) /\ (op = "write" => w = 1 /\ c = 0)
      BY <1>n, <1>4
    <2> QED BY <2>1, <1>4, <1>5 DEF c, w, d
  <1>7. sent_upstream_writes_done => slices = 0 /\ ~reading_body
    <2>1. c + w + Flag(read_continuation) # 0
      <3> HIDE DEF c, w, d, m, r
      <3> QED BY <1>n, <1>4
    <2> QED BY <2>1, <1>4 DEF HalfCloseDrained
  <1>8. o["initmeta"] + o["read"] + Flag(write_continuation) = ResponseTokens
    <2>1. /\ c + m + r = o["initmeta"] + o["read"]
      <3>1. CASE op = "call"
        <4>1. c = 1 /\ o["initmeta"] = m + 1 /\ o["read"] = r
          BY <3>1, <1>5, <1>6, <1>n
        <4> QED BY <4>1, <1>n
      <3>2. CASE op = "write"
        <4>1. c = 0 /\ o["initmeta"] = m /\ o["read"] = r
          BY <3>2, <1>5, <1>6, <1>n
        <4> QED BY <4>1, <1>n
      <3> QED BY <3>1, <3>2
    <2> QED BY <2>1, <1>n
  <1>9. /\ \/ sent_downstream_finish \/ ResponseTokens >= 1 \/ o["finish"] >= 1
        /\ o["finish"] >= 1 => started_upstream_finish
        /\ started_upstream_finish => sent_downstream_finish \/ o["finish"] >= 1
    BY <1>3, <1>4, <1>6 DEF ResponseUnderWay
  <1>10. ReadEffect(o) /\ CallTypes' /\ BodyTypes'
    BY <1>1, <1>4, <1>6, <1>7, DownstreamReadEffect
  <1>11. /\ ops' \in [OpKind -> Nat]
         /\ \A k \in OpKind : ops'[k] >= o[k]
         /\ TokenInvariant'
    <2>1. UNCHANGED <<started_upstream_finish, sent_downstream_finish,
                      write_continuation>>
      BY DEF asideVars
    <2> QED BY <1>1, <1>3, <1>4, <1>5, <1>6, <1>8, <1>9, <1>10, <2>1, ReadPreserves
  <1>12. \A k \in OpKind : ops'[k] >= Done(op)[k]
    <2>1. ASSUME NEW k \in OpKind PROVE ops'[k] >= Done(op)[k]
      <3>1. ops'[k] \in Nat /\ o[k] \in Nat /\ Done(op)[k] \in Nat
        BY <1>2, <1>5, <1>11
      <3>2. ops'[k] >= o[k] /\ o[k] >= Done(op)[k]
        BY <1>5, <1>11
      <3> QED BY <3>1, <3>2
    <2> QED BY <2>1
  <1>13. TagsOutstanding'
    BY <1>2, <1>11, <1>12, TagsKept
  <1>14. RestTypes'
    BY <1>1, <1>2, <1>3
       DEF RestTypes, RunTag, asideVars, connVars, backendVars
  <1> QED BY <1>10, <1>11, <1>13, <1>14, InvariantRestored

(* A tag whose callback passes something on to the client.                   *)
LEMMA WriteTagPreserves ==
  ASSUME FlowInvariant, NEW op \in {"initmeta", "read"}, RunTag(op, TRUE),
         WriteEffect(Done(op)), CallTypes', write_continuation' \in BOOLEAN,
         sent_downstream_finish' \in BOOLEAN, stale_use' \in BOOLEAN,
         UNCHANGED <<started_upstream_finish, req_buf, bodyVars>>
  PROVE  FlowInvariant'
  <1>0. op \in OpKind /\ TRUE \in BOOLEAN
    BY OpKinds
  <1>1. TypeOK /\ TagsOutstanding /\ CallTypes /\ BodyTypes /\ RestTypes
    BY InvariantParts, TypeParts
  <1>2. /\ Done(op) \in [OpKind -> Nat]
        /\ ops[op] >= 1
        /\ \A k \in OpKind : Done(op)[k] = IF k = op THEN ops[k] - 1 ELSE ops[k]
        /\ tags' \in Seq(Tag)
        /\ \A i \in 1..Len(tags') : Done(op)[tags'[i].op] >= 1
        /\ \A i, j \in 1..Len(tags') : tags'[i].op = tags'[j].op => i = j
    BY <1>0, <1>1, RunTagEffect
  <1>3. started' = TRUE
    BY <1>0, <1>2, TagStarted, <1>1 DEF RunTag, RestTypes
  <1> DEFINE o == Done(op)
  <1>4. /\ o \in [OpKind -> Nat]
        /\ \A k \in OpKind : o[k] <= ops[k]
        /\ o["finish"] = ops["finish"]
        /\ o["call"] = ops["call"]
        /\ o["initmeta"] = IF op = "initmeta" THEN ops["initmeta"] - 1
                           ELSE ops["initmeta"]
        /\ o["read"] = IF op = "read" THEN ops["read"] - 1 ELSE ops["read"]
    <2>1. \A k \in OpKind : ops[k] \in Nat
      BY <1>1 DEF TypeOK
    <2>2. \A k \in OpKind : o[k] <= ops[k]
      BY <1>2, <2>1
    <2> QED BY <1>2, <2>2, OpKinds
  <1>5. /\ ops["call"] \in Nat /\ ops["initmeta"] \in Nat /\ ops["read"] \in Nat
        /\ Flag(write_continuation) \in 0..1
        /\ ops["call"] + ops["initmeta"] + ops["read"] + Flag(write_continuation) <= 1
        /\ (op = "initmeta" => ops["initmeta"] >= 1) /\ (op = "read" => ops["read"] >= 1)
    <2>1. ops["call"] \in Nat /\ ops["initmeta"] \in Nat /\ ops["read"] \in Nat
      BY <1>1, OpKinds DEF TypeOK
    <2>2. Flag(write_continuation) \in 0..1
      BY DEF Flag
    <2>3. ResponseTokens <= 1
      BY DEF FlowInvariant, OneOperationPerDirection
    <2> QED BY <1>2, <2>1, <2>2, <2>3 DEF ResponseTokens
  <1>6. o["call"] + o["initmeta"] + o["read"] + Flag(write_continuation) = 0
    <2>1. CASE op = "initmeta"
      BY <1>4, <1>5, <2>1
    <2>2. CASE op = "read"
      BY <1>4, <1>5, <2>2
    <2> QED BY <2>1, <2>2
  <1>7. WriteEffect(o) /\ UNCHANGED <<started_upstream_finish, slices, reading_body>>
    BY DEF bodyVars
  <1>8. /\ ops' \in [OpKind -> Nat]
        /\ \A k \in OpKind : ops'[k] >= o[k]
        /\ TokenInvariant'
    <2> HIDE DEF o
    <2> QED BY <1>3, <1>4, <1>6, <1>7, WritePreserves
  <1>9. TagsOutstanding'
    BY <1>2, <1>8, TagsKept
  <1>10. BodyTypes'
    BY <1>1 DEF BodyTypes, bodyVars
  <1>11. RestTypes'
    BY <1>1, <1>2, <1>3 DEF RestTypes, RunTag, connVars, backendVars
  <1> QED BY <1>8, <1>9, <1>10, <1>11, InvariantRestored

(* The tag of a WritesDone after a clean end of the body starts nothing.     *)
LEMMA QuietTagPreserves ==
  ASSUME FlowInvariant, RunTag("writesdone", TRUE), ops' = Done("writesdone"),
         UNCHANGED <<sent_downstream_finish, sent_upstream_writes_done, wd_status,
                     callVars, outVars, started_upstream_finish, req_buf,
                     asideVars, bodyVars>>
  PROVE  FlowInvariant'
  <1>1. TypeOK /\ TagsOutstanding /\ CallTypes /\ BodyTypes /\ RestTypes
    BY InvariantParts, TypeParts
  <1>2. /\ ops' \in [OpKind -> Nat]
        /\ ops["writesdone"] >= 1
        /\ \A k \in OpKind : ops'[k] = IF k = "writesdone" THEN ops[k] - 1 ELSE ops[k]
        /\ tags' \in Seq(Tag)
        /\ \A i \in 1..Len(tags') : ops'[tags'[i].op] >= 1
        /\ \A i, j \in 1..Len(tags') : tags'[i].op = tags'[j].op => i = j
    BY <1>1, OpKinds, RunTagEffect
  <1>3. started /\ started' = TRUE
    BY <1>2, OpKinds, TagStarted, <1>1 DEF RunTag, RestTypes
  <1>4. /\ ops'["call"] = ops["call"] /\ ops'["initmeta"] = ops["initmeta"]
        /\ ops'["read"] = ops["read"] /\ ops'["write"] = ops["write"]
        /\ ops'["writesdone"] = ops["writesdone"] - 1
        /\ ops'["finish"] = ops["finish"]
        /\ \A k \in OpKind : ops[k] \in Nat
    BY <1>1, <1>2, OpKinds DEF TypeOK
  <1>5. UNCHANGED <<read_continuation, write_continuation, read_handler, slices,
                    reading_body>>
    BY DEF callVars, asideVars, bodyVars
  <1>6. ResponseTokens' = ResponseTokens
    BY <1>4, <1>5 DEF ResponseTokens
  <1>7. RequestTokens' <= 1
    <2>1. RequestTokens <= 1 /\ Flag(read_continuation) \in 0..1
      BY <1>1 DEF FlowInvariant, OneOperationPerDirection, Flag
    <2>2. /\ ops["call"] \in Nat /\ ops["write"] \in Nat /\ ops["writesdone"] \in Nat
      BY <1>4, OpKinds
    <2>3. RequestTokens' = ops["call"] + Flag(read_continuation) + ops["write"]
                           + (ops["writesdone"] - 1)
      BY <1>4, <1>5 DEF RequestTokens
    <2> QED BY <2>1, <2>2, <2>3 DEF RequestTokens
  <1>8. TokenInvariant'
    BY <1>3, <1>4, <1>5, <1>6, <1>7
       DEF FlowInvariant, TokenInvariant, OneOperationPerDirection, HalfCloseDrained,
           ReadableMeansPending, BeforeStart, ResponseUnderWay
  <1>9. TagsOutstanding'
    BY <1>2 DEF TagsOutstanding
  <1>10. CallTypes' /\ BodyTypes'
    BY <1>1 DEF CallTypes, BodyTypes, callVars, outVars, bodyVars
  <1>11. RestTypes'
    BY <1>1, <1>2, <1>3 DEF RestTypes, RunTag, asideVars, connVars, backendVars
  <1> QED BY <1>2, <1>8, <1>9, <1>10, <1>11, InvariantRestored

(* Every completion tag preserves the invariant.                             *)
LEMMA TagPreserves ==
  ASSUME FlowInvariant, OnTag
  PROVE  FlowInvariant'
  <1>0. TypeOK /\ req_buf \in Nat /\ wd_status \in Status
    BY DEF FlowInvariant, TypeOK
  <1>1. CASE OnCallTag
    <2>1. CASE /\ RunTag("call", FALSE)
               /\ StartDownstreamFinish(Done("call"), "UNAVAILABLE")
               /\ UNCHANGED <<started_upstream_finish, req_buf, asideVars, bodyVars>>
      BY <2>1, OpKinds, Statuses, EndTagPreserves
    <2>2. CASE /\ RunTag("call", TRUE)
               /\ StartDownstreamReadMessage(With(Done("call"), "initmeta"))
               /\ UNCHANGED <<started_upstream_finish, sent_downstream_finish, asideVars>>
      BY <2>2, ReadTagPreserves
    <2> QED BY <1>1, <2>1, <2>2 DEF OnCallTag
  <1>2. CASE OnInitialMetadataTag
    <2>0. UNCHANGED <<started_upstream_finish, req_buf, asideVars, bodyVars>>
      BY <1>2 DEF OnInitialMetadataTag
    <2>1. CASE /\ RunTag("initmeta", FALSE)
               /\ StartDownstreamFinish(Done("initmeta"), "UNKNOWN")
      BY <2>0, <2>1, OpKinds, Statuses, EndTagPreserves
    <2>2. CASE /\ RunTag("initmeta", TRUE)
               /\ StartDownstreamWriteInitialMetadata(Done("initmeta"))
      <3>1. /\ UNCHANGED write_continuation
            /\ write_continuation' \in BOOLEAN /\ stale_use' \in BOOLEAN
        BY <1>0, <2>0 DEF asideVars, TypeOK
      <3>2. WriteEffect(Done("initmeta")) /\ CallTypes'
            /\ sent_downstream_finish' \in BOOLEAN
        BY <1>0, <2>2, <3>1, InitialMetadataEffect
      <3> QED BY <2>0, <2>2, <3>1, <3>2, WriteTagPreserves
    <2> QED BY <1>2, <2>1, <2>2 DEF OnInitialMetadataTag
  <1>3. CASE OnReadTag
    <2>1. CASE /\ RunTag("read", FALSE)
               /\ StartUpstreamFinish(Done("read"))
               /\ UNCHANGED <<sent_downstream_finish, sent_upstream_writes_done,
                              wd_status, callVars, asideVars, outVars, req_buf, bodyVars>>
      BY <1>0, <2>1, OpKinds, FinishTagPreserves
    <2>2. CASE /\ RunTag("read", TRUE)
               /\ StartDownstreamWriteMessage(Done("read"))
               /\ UNCHANGED <<started_upstream_finish, req_buf, bodyVars>>
      <3>1. WriteEffect(Done("read")) /\ CallTypes' /\ write_continuation' \in BOOLEAN
            /\ sent_downstream_finish' \in BOOLEAN /\ stale_use' \in BOOLEAN
        BY <1>0, <2>2, DownstreamWriteEffect
      <3> QED BY <2>2, <3>1, WriteTagPreserves
    <2> QED BY <1>3, <2>1, <2>2 DEF OnReadTag
  <1>4. CASE OnWriteTag
    <2>1. CASE /\ RunTag("write", FALSE)
               /\ req_buf' = 0
               /\ StartUpstreamFinish(Done("write"))
               /\ UNCHANGED <<sent_downstream_finish, sent_upstream_writes_done,
                              wd_status, callVars, asideVars, outVars, bodyVars>>
      BY <2>1, OpKinds, FinishTagPreserves
    <2>2. CASE /\ RunTag("write", TRUE)
               /\ StartDownstreamReadMessage(Done("write"))
               /\ UNCHANGED <<started_upstream_finish, sent_downstream_finish, asideVars>>
      BY <2>2, ReadTagPreserves
    <2> QED BY <1>4, <2>1, <2>2 DEF OnWriteTag
  <1>5. CASE OnWritesDoneTag
    <2>1. CASE /\ RunTag("writesdone", FALSE)
               /\ StartUpstreamFinish(Done("writesdone"))
               /\ UNCHANGED <<sent_downstream_finish, sent_upstream_writes_done,
                              wd_status, callVars, asideVars, outVars, req_buf, bodyVars>>
      BY <1>0, <2>1, OpKinds, FinishTagPreserves
    <2>2. CASE /\ RunTag("writesdone", TRUE) /\ wd_status = "OK"
               /\ ops' = Done("writesdone")
               /\ UNCHANGED <<sent_downstream_finish, sent_upstream_writes_done,
                              wd_status, callVars, outVars>>
               /\ UNCHANGED <<started_upstream_finish, req_buf, asideVars, bodyVars>>
      BY <2>2, QuietTagPreserves
    <2>3. CASE /\ RunTag("writesdone", TRUE)
               /\ StartDownstreamFinish(Done("writesdone"), wd_status)
               /\ UNCHANGED <<started_upstream_finish, req_buf, asideVars, bodyVars>>
      BY <1>0, <2>3, OpKinds, EndTagPreserves
    <2> QED BY <1>5, <2>1, <2>2, <2>3 DEF OnWritesDoneTag
  <1>6. CASE OnFinishTag
    <2>1. PICK ok \in BOOLEAN : RunTag("finish", ok)
      BY <1>6 DEF OnFinishTag
    <2> QED BY <1>6, <2>1, OpKinds, Statuses, EndTagPreserves DEF OnFinishTag
  <1> QED BY <1>1, <1>2, <1>3, <1>4, <1>5, <1>6 DEF OnTag

-----------------------------------------------------------------------------
(* Events and the environment.                                               *)

(* A step that touches neither operations nor continuations.                 *)
LEMMA TokensKept ==
  ASSUME FlowInvariant,
         UNCHANGED <<started, sent_upstream_writes_done, started_upstream_finish,
                     sent_downstream_finish, ops, read_continuation,
                     write_continuation, grpc_upstream_cancel, read_handler,
                     slices, reading_body>>
  PROVE  TokenInvariant'
  <1>1. RequestTokens' = RequestTokens /\ ResponseTokens' = ResponseTokens
    BY DEF RequestTokens, ResponseTokens
  <1> QED BY <1>1
      DEF FlowInvariant, TokenInvariant, OneOperationPerDirection, HalfCloseDrained,
          ReadableMeansPending, BeforeStart, ResponseUnderWay

(* Tags stay outstanding when no tag is run and operations are only added.   *)
LEMMA TagsUntouched ==
  ASSUME FlowInvariant, tags' = tags, ops' \in [OpKind -> Nat],
         \A k \in OpKind : ops'[k] >= ops[k]
  PROVE  TagsOutstanding'
  <1>1. /\ ops \in [OpKind -> Nat] /\ tags' \in Seq(Tag)
        /\ \A i \in 1..Len(tags') : ops[tags'[i].op] >= 1
        /\ \A i, j \in 1..Len(tags') : tags'[i].op = tags'[j].op => i = j
    BY DEF FlowInvariant, TypeOK, TagsOutstanding
  <1> QED BY <1>1, TagsKept

(* libgrpc completes an operation that is outstanding and has no tag yet.    *)
LEMMA CompletePreserves ==
  ASSUME FlowInvariant, NEW op \in OpKind, NEW ok \in BOOLEAN, Complete(op, ok),
         status_from_upstream' \in Status, resp_buf' \in Nat, b_read' \in Nat,
         b_got' \in Seq(Nat)
  PROVE  FlowInvariant'
  <1>1. TypeOK /\ TagsOutstanding /\ CallTypes /\ BodyTypes /\ RestTypes
    BY InvariantParts, TypeParts
  <1>2. /\ ops[op] > 0 /\ ~Completed(op)
        /\ tags' = Append(tags, [op |-> op, ok |-> ok])
        /\ UNCHANGED <<started, sent_upstream_writes_done, started_upstream_finish,
                       sent_downstream_finish, wd_status, ops, req_buf, callVars,
                       asideVars, bodyVars, connVars, outVars, b_sent, b_closed>>
    BY DEF Complete
  <1>3. TokenInvariant'
    BY <1>2, TokensKept DEF callVars, asideVars, bodyVars
  <1>4. CallTypes' /\ BodyTypes' /\ ops' \in [OpKind -> Nat]
    BY <1>1, <1>2 DEF CallTypes, BodyTypes, callVars, outVars, bodyVars, TypeOK
  <1> DEFINE t == [op |-> op, ok |-> ok]
  <1>5. t \in Tag /\ t.op = op /\ tags \in Seq(Tag)
    BY <1>1 DEF Tag, TypeOK
  <1>6. tags' \in Seq(Tag)
    BY <1>2, <1>5
  <1>7. RestTypes'
    BY <1>1, <1>2, <1>6 DEF RestTypes, asideVars, connVars
  <1>8. /\ Len(tags) \in Nat /\ Len(tags') = Len(tags) + 1
        /\ \A i \in 1..Len(tags) : tags'[i] = tags[i]
        /\ tags'[Len(tags) + 1] = t
    <2> HIDE DEF t
    <2>1. tags' = Append(tags, t)
      BY <1>2 DEF t
    <2> QED BY <2>1, <1>5
  <1>9. \A i \in 1..Len(tags) : tags[i].op # op
    BY <1>2, <1>5 DEF Completed
  <1>10. ASSUME NEW i \in 1..Len(tags') PROVE ops'[tags'[i].op] >= 1
    <2>1. CASE i \in 1..Len(tags)
      BY <2>1, <1>1, <1>2, <1>8 DEF TagsOutstanding
    <2>2. CASE i = Len(tags) + 1
      <3>1. ops'[tags'[i].op] = ops[op] /\ ops[op] \in Nat
        BY <2>2, <1>1, <1>2, <1>5, <1>8 DEF TypeOK
      <3> QED BY <3>1, <1>2
    <2> QED BY <2>1, <2>2, <1>8
  <1>11. ASSUME NEW i \in 1..Len(tags'), NEW j \in 1..Len(tags'),
                tags'[i].op = tags'[j].op
         PROVE  i = j
    <2> HIDE DEF t
    <2>1. CASE i \in 1..Len(tags) /\ j \in 1..Len(tags)
      BY <2>1, <1>1, <1>8, <1>11 DEF TagsOutstanding
    <2>2. CASE i = Len(tags) + 1 /\ j \in 1..Len(tags)
      BY <2>2, <1>5, <1>8, <1>9, <1>11
    <2>3. CASE j = Len(tags) + 1 /\ i \in 1..Len(tags)
      BY <2>3, <1>5, <1>8, <1>9, <1>11
    <2>4. CASE i = Len(tags) + 1 /\ j = Len(tags) + 1
      BY <2>4
    <2> QED BY <2>1, <2>2, <2>3, <2>4, <1>8
  <1>12. TagsOutstanding'
    BY <1>10, <1>11 DEF TagsOutstanding
  <1> QED BY <1>3, <1>4, <1>7, <1>12, InvariantRestored

LEMMA CompleteOpPreserves ==
  ASSUME FlowInvariant, CompleteOp
  PROVE  FlowInvariant'
  <1>0. /\ status_from_upstream \in Status /\ resp_buf \in Nat /\ b_read \in Nat
        /\ b_got \in Seq(Nat) /\ req_buf \in Nat
        /\ b_closed \in {"open", "OK", "ERR", "CANCELLED"}
    BY DEF FlowInvariant, TypeOK
  <1>1. CASE CompleteCall
    <2>1. PICK ok \in BOOLEAN : Complete("call", ok)
      BY <1>1 DEF CompleteCall
    <2> QED BY <1>0, <1>1, <2>1, OpKinds, CompletePreserves DEF CompleteCall
  <1>2. CASE CompleteInitialMetadata
    <2>1. PICK ok \in BOOLEAN : Complete("initmeta", ok)
      BY <1>2 DEF CompleteInitialMetadata
    <2> QED BY <1>0, <1>2, <2>1, OpKinds, CompletePreserves DEF CompleteInitialMetadata
  <1>3. CASE CompleteRead
    <2>1. PICK ok \in BOOLEAN : Complete("read", ok)
      BY <1>3 DEF CompleteRead
    <2>2. /\ resp_buf' \in Nat /\ b_read' \in Nat
          /\ UNCHANGED <<status_from_upstream, b_got>>
      <3>1. CASE resp_buf' = b_read + 1 /\ b_read' = b_read + 1
        BY <1>0, <1>3, <3>1 DEF CompleteRead
      <3>2. CASE UNCHANGED <<resp_buf, b_read>>
        BY <1>0, <1>3, <3>2 DEF CompleteRead
      <3> QED BY <1>3, <3>1, <3>2 DEF CompleteRead
    <2> QED BY <1>0, <2>1, <2>2, OpKinds, CompletePreserves
  <1>4. CASE CompleteWrite
    <2>1. PICK ok \in BOOLEAN : Complete("write", ok)
      BY <1>4 DEF CompleteWrite
    <2>2. /\ b_got' \in Seq(Nat)
          /\ UNCHANGED <<status_from_upstream, resp_buf, b_read>>
      <3>1. CASE b_got' = Append(b_got, req_buf)
        BY <1>0, <1>4, <3>1 DEF CompleteWrite
      <3>2. CASE UNCHANGED b_got
        BY <1>0, <1>4, <3>2 DEF CompleteWrite
      <3> QED BY <1>4, <3>1, <3>2 DEF CompleteWrite
    <2> QED BY <1>0, <2>1, <2>2, OpKinds, CompletePreserves
  <1>5. CASE CompleteWritesDone
    <2>1. PICK ok \in BOOLEAN : Complete("writesdone", ok)
      BY <1>5 DEF CompleteWritesDone
    <2> QED BY <1>0, <1>5, <2>1, OpKinds, CompletePreserves DEF CompleteWritesDone
  <1>6. CASE CompleteFinish
    <2>1. /\ Complete("finish", TRUE)
          /\ status_from_upstream' \in Status
          /\ UNCHANGED <<resp_buf, b_read, b_got>>
      BY <1>0, <1>6, Statuses DEF CompleteFinish, Failed
    <2> QED BY <1>0, <2>1, OpKinds, CompletePreserves
  <1> QED BY <1>1, <1>2, <1>3, <1>4, <1>5, <1>6 DEF CompleteOp

(* The client, the backend and the flow's destruction leave the flow alone.  *)
LEMMA EnvironmentPreserves ==
  ASSUME FlowInvariant, Client \/ Backend \/ DestroyFlow
  PROVE  FlowInvariant'
  <1>1. TypeOK /\ TagsOutstanding /\ CallTypes /\ BodyTypes /\ RestTypes
    BY InvariantParts, TypeParts
  <1>2. /\ UNCHANGED <<flowVars, opVars, callVars, asideVars, outVars, slices,
                       reading_body, req_read>>
        /\ sock' \in Nat /\ sock_end' \in BOOLEAN
        /\ conn_error' \in BOOLEAN /\ read_event' \in BOOLEAN
        /\ b_sent' \in Nat /\ b_read' \in Nat /\ b_got' \in Seq(Nat)
        /\ b_closed' \in {"open", "OK", "ERR", "CANCELLED"}
    <2>1. CASE ClientSend
      BY <1>1, <2>1 DEF ClientSend, BodyTypes, RestTypes, connVars, backendVars
    <2>2. CASE ClientHalfClose
      BY <1>1, <2>2 DEF ClientHalfClose, BodyTypes, RestTypes, connVars, backendVars
    <2>3. CASE ClientReset
      BY <1>1, <2>3 DEF ClientReset, BodyTypes, RestTypes, bodyVars, backendVars
    <2>4. CASE BackendSend
      BY <1>1, <2>4 DEF BackendSend, BodyTypes, RestTypes, bodyVars, connVars
    <2>5. CASE BackendClose
      BY <1>1, <2>5 DEF BackendClose, BodyTypes, RestTypes, bodyVars, connVars
    <2>6. CASE DestroyFlow
      BY <1>1, <2>6 DEF DestroyFlow, BodyTypes, RestTypes, bodyVars, connVars
    <2> QED BY <2>1, <2>2, <2>3, <2>4, <2>5, <2>6 DEF Client, Backend
  <1>3. TokenInvariant'
    BY <1>2, TokensKept DEF flowVars, opVars, callVars, asideVars
  <1>4. TagsOutstanding' /\ ops' \in [OpKind -> Nat]
    BY <1>1, <1>2 DEF TagsOutstanding, TypeOK, opVars
  <1>5. CallTypes'
    BY <1>1, <1>2 DEF CallTypes, flowVars, callVars, outVars
  <1>6. BodyTypes'
    BY <1>1, <1>2 DEF BodyTypes, opVars
  <1>7. RestTypes'
    BY <1>1, <1>2 DEF RestTypes, flowVars, opVars, asideVars
  <1> QED BY <1>3, <1>4, <1>5, <1>6, <1>7, InvariantRestored

(* The release of the request: a pending read becomes a half-close.          *)
LEMMA FreeLingeringPreserves ==
  ASSUME FlowInvariant, FreeLingering
  PROVE  FlowInvariant'
  <1>1. TypeOK /\ TagsOutstanding /\ CallTypes /\ BodyTypes /\ RestTypes
    BY InvariantParts, TypeParts
  <1>2. /\ Cleanup(ops, read_continuation)
        /\ UNCHANGED <<started, started_upstream_finish, sent_downstream_finish,
                       status_from_upstream, tags, req_buf, resp_buf, header_sent,
                       asideVars, bodyVars, connVars, outVars, backendVars>>
    BY DEF FreeLingering
  <1>3. /\ request' = "freed" /\ read_continuation' = FALSE
        /\ grpc_upstream_cancel' = FALSE /\ read_handler' = "detached"
        /\ write_handler' = "none"
    BY <1>2 DEF Cleanup
  <1>4. /\ ops \in [OpKind -> Nat] /\ \A k \in OpKind : ops[k] \in Nat
        /\ read_continuation \in BOOLEAN
        /\ Flag(read_continuation) \in 0..1 /\ Flag(read_continuation') = 0
        /\ (read_continuation => Flag(read_continuation) = 1)
        /\ UNCHANGED <<write_continuation, slices, reading_body>>
        /\ RequestTokens <= 1 /\ ResponseTokens <= 1 /\ ops["finish"] <= 1
        /\ HalfCloseDrained /\ ResponseUnderWay /\ BeforeStart
    BY <1>1, <1>2, <1>3
       DEF TypeOK, Flag, asideVars, bodyVars, FlowInvariant, OneOperationPerDirection
  <1>5. CASE /\ ops' = ops /\ wd_status' = wd_status
             /\ sent_upstream_writes_done' = sent_upstream_writes_done
    <2>1. ResponseTokens' = ResponseTokens
      BY <1>4, <1>5 DEF ResponseTokens
    <2>2. RequestTokens' <= 1 /\ HalfCloseDrained'
      <3>1. /\ ops["call"] \in Nat /\ ops["write"] \in Nat /\ ops["writesdone"] \in Nat
        BY <1>4, OpKinds
      <3>2. RequestTokens' = ops["call"] + 0 + ops["write"] + ops["writesdone"]
        BY <1>4, <1>5 DEF RequestTokens
      <3>3. RequestTokens' <= 1
        BY <1>4, <3>1, <3>2 DEF RequestTokens
      <3>4. ops["call"] + ops["write"] + Flag(read_continuation) = 0 =>
              ops'["call"] + ops'["write"] + Flag(read_continuation') = 0
        BY <1>4, <1>5, <3>1
      <3> QED BY <1>4, <1>5, <3>3, <3>4 DEF HalfCloseDrained
    <2>3. TokenInvariant'
      BY <1>2, <1>3, <1>4, <1>5, <2>1, <2>2
         DEF TokenInvariant, OneOperationPerDirection, ReadableMeansPending,
             BeforeStart, ResponseUnderWay
    <2>4. TagsOutstanding' /\ ops' \in [OpKind -> Nat]
      BY <1>1, <1>2, <1>4, <1>5 DEF TagsOutstanding
    <2>5. CallTypes' /\ BodyTypes'
      BY <1>1, <1>2, <1>3, <1>5 DEF CallTypes, BodyTypes, outVars, bodyVars
    <2>6. RestTypes'
      BY <1>1, <1>2 DEF RestTypes, asideVars, connVars, backendVars
    <2> QED BY <2>3, <2>4, <2>5, <2>6, InvariantRestored
  <1>6. CASE /\ read_continuation /\ ~sent_upstream_writes_done
             /\ sent_upstream_writes_done' = TRUE /\ wd_status' = "OK"
             /\ ops' = With(ops, "writesdone")
    <2>1. /\ ops' \in [OpKind -> Nat]
          /\ \A k \in OpKind : ops'[k] = IF k = "writesdone" THEN ops[k] + 1 ELSE ops[k]
      BY <1>4, <1>6, OpKinds, WithType
    <2>2. /\ ops["call"] = 0 /\ ops["write"] = 0 /\ ops["writesdone"] = 0
      <3>1. /\ ops["call"] \in Nat /\ ops["write"] \in Nat /\ ops["writesdone"] \in Nat
        BY <1>4, OpKinds
      <3>2. RequestTokens <= 1 /\ Flag(read_continuation) = 1
        BY <1>4, <1>6
      <3> QED BY <3>1, <3>2 DEF RequestTokens
    <2>3. /\ ops'["call"] = 0 /\ ops'["write"] = 0 /\ ops'["writesdone"] = 1
          /\ ops'["initmeta"] = ops["initmeta"] /\ ops'["read"] = ops["read"]
          /\ ops'["finish"] = ops["finish"]
      BY <2>1, <2>2, OpKinds
    <2>4. ResponseTokens' = ResponseTokens
      BY <1>4, <2>2, <2>3 DEF ResponseTokens
    <2>5. RequestTokens' <= 1
      BY <1>4, <2>3 DEF RequestTokens
    <2>6. HalfCloseDrained'
      BY <1>4, <2>3 DEF HalfCloseDrained
    <2>7. started /\ started'
      BY <1>2, <1>4, <1>6 DEF BeforeStart
    <2>8. TokenInvariant'
      BY <1>2, <1>3, <1>4, <2>3, <2>4, <2>5, <2>6, <2>7
         DEF TokenInvariant, OneOperationPerDirection, ReadableMeansPending,
             BeforeStart, ResponseUnderWay
    <2>9. \A k \in OpKind : ops'[k] >= ops[k]
      BY <1>4, <2>1
    <2>10. TagsOutstanding'
      BY <1>2, <2>1, <2>9, TagsUntouched
    <2>11. CallTypes'
      BY <1>1, <1>2, <1>3, <1>6, Statuses DEF CallTypes, outVars
    <2>12. BodyTypes' /\ RestTypes'
      BY <1>1, <1>2 DEF RestTypes, BodyTypes, bodyVars, asideVars, connVars, backendVars
    <2> QED BY <2>1, <2>8, <2>10, <2>11, <2>12, InvariantRestored
  <1>7. <1>5!1 \/ <1>6!1
    BY <1>2 DEF Cleanup, StartUpstreamWritesDone
  <1> QED BY <1>5, <1>6, <1>7

LEMMA StartPreserves ==
  ASSUME FlowInvariant, Start
  PROVE  FlowInvariant'
  <1>1. TypeOK /\ TagsOutstanding /\ CallTypes /\ BodyTypes /\ RestTypes
    BY InvariantParts, TypeParts
  <1>2. /\ started' = TRUE
        /\ UNCHANGED <<started_upstream_finish, status_from_upstream, tags, req_buf,
                       resp_buf, asideVars, bodyVars, connVars, backendVars>>
    BY DEF Start
  <1>3. /\ \A k \in OpKind : ops[k] = 0
        /\ ~read_continuation /\ ~write_continuation
        /\ ~sent_upstream_writes_done /\ ~started_upstream_finish
        /\ ReadableMeansPending /\ ops \in [OpKind -> Nat]
    BY <1>1 DEF Start, FlowInvariant, BeforeStart, TypeOK
  <1>4. BodyTypes'
    BY <1>1, <1>2 DEF BodyTypes, bodyVars
  <1>5. CASE /\ ops' = With(ops, "call")
             /\ UNCHANGED <<sent_downstream_finish, sent_upstream_writes_done,
                            wd_status, callVars, outVars>>
    <2>1. /\ ops' \in [OpKind -> Nat]
          /\ \A k \in OpKind : ops'[k] = IF k = "call" THEN ops[k] + 1 ELSE ops[k]
      BY <1>3, <1>5, OpKinds, WithType
    <2>2. /\ ops'["call"] = 1 /\ ops'["initmeta"] = 0 /\ ops'["read"] = 0
          /\ ops'["write"] = 0 /\ ops'["writesdone"] = 0 /\ ops'["finish"] = 0
      BY <1>3, <2>1, OpKinds
    <2>3. UNCHANGED <<read_continuation, write_continuation, read_handler>>
      BY <1>2, <1>5 DEF callVars, asideVars
    <2>4. Flag(read_continuation') = 0 /\ Flag(write_continuation') = 0
      BY <1>3, <2>3 DEF Flag
    <2>5. RequestTokens' = 1 /\ ResponseTokens' = 1
      BY <2>2, <2>4 DEF RequestTokens, ResponseTokens
    <2>6. TokenInvariant'
      BY <1>2, <1>3, <1>5, <2>2, <2>3, <2>5
         DEF TokenInvariant, OneOperationPerDirection, ReadableMeansPending,
             BeforeStart, ResponseUnderWay, HalfCloseDrained
    <2>7. \A k \in OpKind : ops'[k] >= ops[k]
      BY <1>3, <2>1
    <2>8. TagsOutstanding'
      BY <1>2, <2>1, <2>7, TagsUntouched
    <2>9. CallTypes'
      BY <1>1, <1>5 DEF CallTypes, callVars, outVars
    <2>10. RestTypes'
      BY <1>1, <1>2, <1>5 DEF RestTypes, asideVars, connVars, backendVars
    <2> QED BY <1>4, <2>1, <2>6, <2>8, <2>9, <2>10, InvariantRestored
  <1>6. CASE StartDownstreamFinish(ops, "INTERNAL")
    <2>1. sent_downstream_finish' = TRUE /\ CallTypes' /\ EndEffect(ops)
      BY <1>1, <1>6, Statuses, DownstreamFinishEffect
    <2>2. /\ UNCHANGED <<started_upstream_finish, slices, reading_body>>
          /\ write_continuation' \in BOOLEAN
          /\ (write_continuation' => write_continuation)
          /\ (ops["finish"] >= 1 => started_upstream_finish)
          /\ \A k \in OpKind : ops[k] <= ops[k]
      BY <1>1, <1>2, <1>3, OpKinds DEF asideVars, bodyVars, RestTypes
    <2>3. /\ ops' \in [OpKind -> Nat]
          /\ \A k \in OpKind : ops'[k] >= ops[k]
          /\ TokenInvariant'
      BY <1>2, <1>3, <2>1, <2>2, EndPreserves
    <2>4. TagsOutstanding'
      BY <1>2, <2>3, TagsUntouched
    <2>5. RestTypes'
      BY <1>1, <1>2, <2>1 DEF RestTypes, asideVars, connVars, backendVars
    <2> QED BY <1>4, <2>1, <2>3, <2>4, <2>5, InvariantRestored
  <1> QED BY <1>5, <1>6 DEF Start

(* The three read and write events of nginx.                                 *)
LEMMA ReadablePreserves ==
  ASSUME FlowInvariant, OnDownstreamReadable
  PROVE  FlowInvariant'
  <1>1. TypeOK /\ TagsOutstanding /\ CallTypes /\ BodyTypes /\ RestTypes
    BY InvariantParts, TypeParts
  <1>2. /\ read_handler = "readable" /\ read_event' = FALSE /\ RunPendingRead(ops)
        /\ UNCHANGED <<started, started_upstream_finish, sent_downstream_finish,
                       status_from_upstream, tags, resp_buf, asideVars, conn_error,
                       backendVars>>
    BY DEF OnDownstreamReadable
  <1>3. /\ ops \in [OpKind -> Nat] /\ \A k \in OpKind : ops[k] \in Nat
        /\ RequestTokens <= 1 /\ ResponseTokens <= 1 /\ ops["finish"] <= 1
        /\ ReadableMeansPending /\ HalfCloseDrained /\ ResponseUnderWay /\ BeforeStart
        /\ started \in BOOLEAN
    BY <1>1 DEF FlowInvariant, TypeOK, OneOperationPerDirection
  <1>4. read_continuation /\ Flag(read_continuation) = 1
        /\ Flag(write_continuation) \in 0..1
    BY <1>2, <1>3 DEF ReadableMeansPending, Flag
  <1>5. started /\ started' = TRUE
    BY <1>2, <1>3, <1>4 DEF BeforeStart
  <1>6. /\ ops["call"] = 0 /\ ops["write"] = 0 /\ ops["writesdone"] = 0
    <2>1. /\ ops["call"] \in Nat /\ ops["write"] \in Nat /\ ops["writesdone"] \in Nat
      BY <1>3, OpKinds
    <2>2. RequestTokens <= 1 /\ Flag(read_continuation) = 1
      BY <1>3, <1>4
    <2> QED BY <2>1, <2>2 DEF RequestTokens
  <1>7. sent_upstream_writes_done => slices = 0 /\ ~reading_body
    <2>1. Flag(read_continuation) = 1 /\ HalfCloseDrained
      BY <1>3, <1>4
    <2>2. ops["call"] + ops["write"] + Flag(read_continuation) # 0
      BY <1>6, <2>1
    <2> QED BY <2>1, <2>2 DEF HalfCloseDrained
  <1>8. ops["initmeta"] + ops["read"] + Flag(write_continuation) = ResponseTokens
    <2>1. ops["initmeta"] \in Nat /\ ops["read"] \in Nat
      BY <1>3, OpKinds
    <2> QED BY <1>4, <1>6, <2>1 DEF ResponseTokens
  <1>9. ReadEffect(ops) /\ CallTypes' /\ BodyTypes'
    BY <1>1, <1>2, <1>7, RunPendingReadEffect
  <1>10. UNCHANGED <<started_upstream_finish, sent_downstream_finish, write_continuation>>
    BY <1>2 DEF asideVars
  <1>11. /\ \/ sent_downstream_finish \/ ResponseTokens >= 1 \/ ops["finish"] >= 1
         /\ ops["finish"] >= 1 => started_upstream_finish
         /\ started_upstream_finish => sent_downstream_finish \/ ops["finish"] >= 1
    BY <1>3, <1>5 DEF ResponseUnderWay
  <1>12. /\ ops' \in [OpKind -> Nat]
         /\ \A k \in OpKind : ops'[k] >= ops[k]
         /\ TokenInvariant'
    BY <1>1, <1>3, <1>5, <1>6, <1>8, <1>9, <1>10, <1>11, ReadPreserves
  <1>13. TagsOutstanding'
    BY <1>2, <1>12, TagsUntouched
  <1>14. RestTypes'
    BY <1>1, <1>2 DEF RestTypes, asideVars, backendVars
  <1> QED BY <1>9, <1>12, <1>13, <1>14, InvariantRestored

LEMMA BlockReadingPreserves ==
  ASSUME FlowInvariant, OnHttpBlockReading
  PROVE  FlowInvariant'
  <1>1. TypeOK /\ TagsOutstanding /\ CallTypes /\ BodyTypes /\ RestTypes
    BY InvariantParts, TypeParts
  <1>2. /\ read_event' = FALSE
        /\ UNCHANGED <<started, sent_upstream_writes_done, sent_downstream_finish,
                       status_from_upstream, wd_status, tags, req_buf, resp_buf,
                       request, read_continuation, header_sent, read_handler,
                       write_handler, asideVars, bodyVars, conn_error, outVars,
                       b_sent, b_read, b_got>>
    BY DEF OnHttpBlockReading
  <1>3. UNCHANGED <<write_continuation, slices, reading_body>>
    BY <1>2 DEF asideVars, bodyVars
  <1>4. /\ ops \in [OpKind -> Nat] /\ \A k \in OpKind : ops[k] \in Nat
        /\ grpc_upstream_cancel => started
    BY <1>1 DEF TypeOK, FlowInvariant, BeforeStart
  <1>5. /\ ops' \in [OpKind -> Nat] /\ \A k \in OpKind : ops'[k] >= ops[k]
        /\ TokenInvariant' /\ grpc_upstream_cancel' \in BOOLEAN
        /\ b_closed' \in {"open", "OK", "ERR", "CANCELLED"}
        /\ started_upstream_finish' \in BOOLEAN
    <2>1. CASE grpc_upstream_cancel
      <3>1. /\ StartUpstreamFinish(ops) /\ grpc_upstream_cancel' = FALSE
            /\ b_closed' = IF b_closed = "open" THEN "CANCELLED" ELSE b_closed
        BY <2>1 DEF OnHttpBlockReading
      <3>2. /\ ops' \in [OpKind -> Nat] /\ \A k \in OpKind : ops'[k] >= ops[k]
            /\ TokenInvariant'
        <4>1. started /\ started' = TRUE /\ \A k \in OpKind : ops[k] <= ops[k]
          BY <1>1, <1>2, <1>4, <2>1 DEF RestTypes
        <4> QED BY <1>2, <1>3, <1>4, <3>1, <4>1, UpstreamFinishPreserves
      <3>3. started_upstream_finish' \in BOOLEAN
        BY <3>1 DEF StartUpstreamFinish
      <3> QED BY <1>1, <3>1, <3>2, <3>3 DEF RestTypes
    <2>2. CASE ~grpc_upstream_cancel
      <3>1. UNCHANGED <<grpc_upstream_cancel, b_closed, started_upstream_finish, ops>>
        BY <2>2 DEF OnHttpBlockReading
      <3>2. TokenInvariant'
        BY <1>2, <1>3, <3>1, TokensKept
      <3>3. \A k \in OpKind : ops'[k] >= ops[k]
        BY <1>4, <3>1
      <3> QED BY <1>1, <1>4, <3>1, <3>2, <3>3 DEF RestTypes, CallTypes
    <2> QED BY <2>1, <2>2
  <1>6. TagsOutstanding'
    BY <1>2, <1>5, TagsUntouched
  <1>7. CallTypes' /\ BodyTypes'
    BY <1>1, <1>2, <1>5 DEF CallTypes, BodyTypes, outVars, bodyVars
  <1>8. RestTypes'
    BY <1>1, <1>2, <1>5 DEF RestTypes, asideVars
  <1> QED BY <1>5, <1>6, <1>7, <1>8, InvariantRestored

LEMMA WriteablePreserves ==
  ASSUME FlowInvariant, OnDownstreamWriteable
  PROVE  FlowInvariant'
  <1>1. TypeOK /\ TagsOutstanding /\ CallTypes /\ BodyTypes /\ RestTypes
    BY InvariantParts, TypeParts
  <1>2. /\ write_continuation /\ write_continuation' = FALSE
        /\ UNCHANGED <<started, started_upstream_finish, status_from_upstream, tags,
                       req_buf, resp_buf, stale_use, bodyVars, connVars, backendVars>>
    BY DEF OnDownstreamWriteable
  <1>3. /\ ops \in [OpKind -> Nat] /\ \A k \in OpKind : ops[k] \in Nat
        /\ Flag(read_continuation) \in 0..1
        /\ RequestTokens <= 1 /\ ResponseTokens <= 1 /\ ops["finish"] <= 1
        /\ ReadableMeansPending /\ HalfCloseDrained /\ ResponseUnderWay /\ BeforeStart
        /\ started \in BOOLEAN
    BY <1>1 DEF FlowInvariant, TypeOK, OneOperationPerDirection, Flag
  <1>4. started /\ started' = TRUE
    BY <1>2, <1>3 DEF BeforeStart
  <1>5. ops["call"] = 0 /\ ops["initmeta"] = 0 /\ ops["read"] = 0
    <2>1. /\ ops["call"] \in Nat /\ ops["initmeta"] \in Nat /\ ops["read"] \in Nat
      BY <1>3, OpKinds
    <2>2. Flag(write_continuation) = 1
      BY <1>2 DEF Flag
    <2> QED BY <1>3, <2>1, <2>2 DEF ResponseTokens
  <1>6. BodyTypes' /\ slices' = slices /\ reading_body' = reading_body
    BY <1>1, <1>2 DEF BodyTypes, bodyVars
  <1>7. CASE /\ ops' = IF sent_downstream_finish THEN ops ELSE With(ops, "read")
             /\ write_handler' = "none"
             /\ UNCHANGED <<sent_downstream_finish, sent_upstream_writes_done,
                            wd_status, request, read_continuation, header_sent,
                            read_handler, grpc_upstream_cancel, outVars>>
    <2>1. /\ ops' \in [OpKind -> Nat]
          /\ \A k \in OpKind : ops'[k] = IF k = "read" /\ ~sent_downstream_finish
                                         THEN ops[k] + 1 ELSE ops[k]
      <3>1. CASE sent_downstream_finish
        BY <1>3, <1>7, <3>1
      <3>2. CASE ~sent_downstream_finish
        BY <1>3, <1>7, <3>2, OpKinds, WithType
      <3> QED BY <3>1, <3>2
    <2>2. \A k \in OpKind : ops'[k] >= ops[k]
      BY <1>3, <2>1
    <2>3. /\ ops'["call"] = ops["call"] /\ ops'["write"] = ops["write"]
          /\ ops'["writesdone"] = ops["writesdone"]
          /\ ops'["finish"] = ops["finish"] /\ ops'["initmeta"] = 0
          /\ ops'["read"] = IF sent_downstream_finish THEN 0 ELSE 1
      BY <1>5, <2>1, OpKinds
    <2>4. RequestTokens' = RequestTokens
      BY <1>7, <2>3 DEF RequestTokens
    <2>5. ResponseTokens' <= 1 /\ (~sent_downstream_finish => ResponseTokens' >= 1)
      <3>1. Flag(write_continuation') = 0
        BY <1>2 DEF Flag
      <3> QED BY <1>5, <2>3, <3>1 DEF ResponseTokens
    <2>6. HalfCloseDrained'
      BY <1>3, <1>6, <1>7, <2>3 DEF HalfCloseDrained
    <2>7. ResponseUnderWay' /\ OneOperationPerDirection'
      BY <1>2, <1>3, <1>7, <2>3, <2>4, <2>5
         DEF ResponseUnderWay, OneOperationPerDirection
    <2>8. TokenInvariant'
      BY <1>3, <1>4, <1>7, <2>6, <2>7
         DEF TokenInvariant, ReadableMeansPending, BeforeStart
    <2>9. TagsOutstanding'
      BY <1>2, <2>1, <2>2, TagsUntouched
    <2>10. CallTypes'
      BY <1>1, <1>7 DEF CallTypes, outVars
    <2>11. RestTypes'
      BY <1>1, <1>2, <1>7 DEF RestTypes, connVars, backendVars
    <2> QED BY <1>6, <2>1, <2>8, <2>9, <2>10, <2>11, InvariantRestored
  <1>8. CASE StartDownstreamFinish(ops, "UNKNOWN")
    <2>1. sent_downstream_finish' = TRUE /\ CallTypes' /\ EndEffect(ops)
      BY <1>1, <1>8, Statuses, DownstreamFinishEffect
    <2>2. \A k \in OpKind : ops[k] <= ops[k]
      BY <1>3
    <2>3. /\ ops' \in [OpKind -> Nat]
          /\ \A k \in OpKind : ops'[k] >= ops[k]
          /\ TokenInvariant'
      <3>1. /\ write_continuation' \in BOOLEAN
            /\ (write_continuation' => write_continuation)
            /\ (ops["finish"] >= 1 => started_upstream_finish)
        BY <1>2, <1>3 DEF ResponseUnderWay
      <3> QED BY <1>2, <1>3, <1>4, <1>6, <2>1, <2>2, <3>1, EndPreserves
    <2>4. TagsOutstanding'
      BY <1>2, <2>3, TagsUntouched
    <2>5. RestTypes'
      BY <1>1, <1>2, <2>1 DEF RestTypes, connVars, backendVars
    <2> QED BY <1>6, <2>1, <2>3, <2>4, <2>5, InvariantRestored
  <1> QED BY <1>7, <1>8 DEF OnDownstreamWriteable

-----------------------------------------------------------------------------
LEMMA InitEstablishes ==
  ASSUME Init
  PROVE  FlowInvariant
  <1>1. /\ slices \in Nat /\ reading_body \in BOOLEAN /\ sock = 0
        /\ sock_end = ~reading_body
    BY BoundsAssumption DEF Init
  <1>2. /\ request \in {"active", "lingering", "freed"} /\ finalized \in Nat
        /\ client_status \in Status \cup {"none"} /\ header_sent \in BOOLEAN
        /\ read_handler \in {"block", "detached"}
        /\ write_handler \in {"none", "esp", "writer"}
    <2>1. CASE request = "active" /\ finalized = 0 /\ client_status = "none"
               /\ header_sent = FALSE /\ read_handler = "block"
               /\ write_handler = "none"
      BY <2>1
    <2>2. CASE /\ request \in {"freed", "lingering"}
               /\ finalized = 1 /\ client_status = "CONVERT_ERR"
               /\ header_sent = TRUE /\ read_handler = "detached"
               /\ write_handler = IF request = "freed" THEN "none" ELSE "writer"
      BY <2>2, Statuses
    <2> QED BY <2>1, <2>2 DEF Init
  <1>3. /\ ops \in [OpKind -> Nat] /\ \A k \in OpKind : ops[k] = 0
        /\ tags = <<>> /\ delivered = <<>> /\ b_got = <<>>
    BY DEF Init
  <1>4. /\ started = FALSE /\ sent_upstream_writes_done = FALSE
        /\ started_upstream_finish = FALSE /\ sent_downstream_finish = FALSE
        /\ status_from_upstream = "OK" /\ wd_status = "OK"
        /\ req_buf = 0 /\ resp_buf = 0
        /\ read_continuation = FALSE /\ write_continuation = FALSE
        /\ grpc_upstream_cancel = FALSE /\ stale_use = FALSE /\ req_read = 0
        /\ conn_error = FALSE /\ read_event = FALSE
        /\ b_sent = 0 /\ b_read = 0 /\ b_closed = "open"
    BY DEF Init
  <1>5. TypeOK
    <2>1. tags \in Seq(Tag) /\ delivered \in Seq(Nat) /\ b_got \in Seq(Nat)
      BY <1>3
    <2>2. CallTypes
      BY <1>2, <1>4, <2>1, Statuses DEF CallTypes
    <2>3. BodyTypes
      BY <1>1, <1>4 DEF BodyTypes
    <2>4. RestTypes
      BY <1>4, <2>1, Statuses DEF RestTypes
    <2> QED BY <1>3, <2>2, <2>3, <2>4, TypeParts
  <1>6. TagsOutstanding
    BY <1>3 DEF TagsOutstanding
  <1>7. OneOperationPerDirection
    <2>1. Flag(read_continuation) = 0 /\ Flag(write_continuation) = 0
      BY <1>4 DEF Flag
    <2> QED BY <1>3, <2>1, OpKinds
        DEF OneOperationPerDirection, RequestTokens, ResponseTokens
  <1>8. ResponseUnderWay
    BY <1>3, <1>4, OpKinds DEF ResponseUnderWay
  <1> QED BY <1>2, <1>3, <1>4, <1>5, <1>6, <1>7, <1>8
      DEF FlowInvariant, BeforeStart, ReadableMeansPending, HalfCloseDrained

LEMMA NextPreserves ==
  ASSUME FlowInvariant, [Next]_vars
  PROVE  FlowInvariant'
  <1>1. CASE Start
    BY <1>1, StartPreserves
  <1>2. CASE OnTag
    BY <1>2, TagPreserves
  <1>3. CASE OnEvent
    BY <1>3, ReadablePreserves, BlockReadingPreserves, WriteablePreserves DEF OnEvent
  <1>4. CASE FreeLingering
    BY <1>4, FreeLingeringPreserves
  <1>5. CASE DestroyFlow \/ Client \/ Backend
    BY <1>5, EnvironmentPreserves
  <1>6. CASE CompleteOp
    BY <1>6, CompleteOpPreserves
  <1>7. CASE UNCHANGED vars
    <2>1. UNCHANGED <<flowVars, opVars, callVars, asideVars, bodyVars, connVars,
                      outVars, backendVars>>
      BY <1>7 DEF vars
    <2>2. TypeOK /\ TagsOutstanding /\ CallTypes /\ BodyTypes /\ RestTypes
      BY InvariantParts, TypeParts
    <2>3. TokenInvariant'
      BY <2>1, TokensKept DEF flowVars, opVars, callVars, asideVars, bodyVars
    <2>4. TagsOutstanding' /\ ops' \in [OpKind -> Nat]
      BY <2>1, <2>2 DEF TagsOutstanding, TypeOK, opVars
    <2>5. CallTypes'
      BY <2>1, <2>2 DEF CallTypes, flowVars, callVars, outVars
    <2>6. BodyTypes'
      BY <2>1, <2>2 DEF BodyTypes, opVars, bodyVars
    <2>7. RestTypes'
      BY <2>1, <2>2 DEF RestTypes, flowVars, opVars, asideVars, connVars, backendVars
    <2> QED BY <2>3, <2>4, <2>5, <2>6, <2>7, InvariantRestored
  <1> QED BY <1>1, <1>2, <1>3, <1>4, <1>5, <1>6, <1>7 DEF Next

(* The flow invariant holds of every proxied call, transcoded or not, for    *)
(* any number of messages: the tags, the continuations and the flags of      *)
(* ProxyFlow and of the server call stay consistent.                         *)
THEOREM FlowInvariantHolds == Spec => []FlowInvariant
  <1>1. Init => FlowInvariant
    BY InitEstablishes
  <1>2. FlowInvariant /\ [Next]_vars => FlowInvariant'
    BY NextPreserves
  <1> QED BY <1>1, <1>2, PTL DEF Spec

(* Every variable of the flow and of the server call keeps its type.         *)
THEOREM TypeCorrect == Spec => []TypeOK
  <1>1. FlowInvariant => TypeOK
    BY DEF FlowInvariant
  <1> QED BY <1>1, FlowInvariantHolds, PTL

(* The flow never has two write-side operations, two read-side operations or *)
(* two Finishes outstanding on the upstream call.                            *)
THEOREM OneOperation == Spec => []OneOperationPerDirection
  <1>1. FlowInvariant => OneOperationPerDirection
    BY DEF FlowInvariant
  <1> QED BY <1>1, FlowInvariantHolds, PTL

(* The flow never drops its last reference with the client still waiting.    *)
THEOREM NoOrphan == Spec => []NoOrphanedRequest
  <1>1. FlowInvariant => NoOrphanedRequest
    <2> SUFFICES ASSUME FlowInvariant, ~FlowReferenced
                 PROVE  sent_downstream_finish
      BY DEF NoOrphanedRequest
    <2>1. /\ started /\ ~read_continuation /\ ~write_continuation
          /\ \A k \in OpKind : ~(ops[k] > 0)
      BY DEF FlowReferenced
    <2>2. \A k \in OpKind : ops[k] \in Nat
      BY DEF FlowInvariant, TypeOK
    <2>3. /\ ops["call"] = 0 /\ ops["initmeta"] = 0 /\ ops["read"] = 0
          /\ ops["finish"] = 0
      BY <2>1, <2>2, OpKinds
    <2>4. Flag(write_continuation) = 0
      BY <2>1 DEF Flag
    <2>5. ResponseTokens = 0
      BY <2>3, <2>4 DEF ResponseTokens
    <2> QED BY <2>1, <2>3, <2>5 DEF FlowInvariant, ResponseUnderWay
  <1> QED BY <1>1, FlowInvariantHolds, PTL

-----------------------------------------------------------------------------
(* The request direction: what a step does to the messages on their way to   *)
(* the backend.                                                              *)

NoNewWrites(o) ==
  sent_upstream_writes_done =>
    ops'["write"] <= o["write"] /\ ops'["writesdone"] <= o["writesdone"]

(* The step moves no message.                                                *)
MessageQuiet ==
  /\ UNCHANGED <<b_got, req_read>>
  /\ started => started'
  /\ ops'["call"] > 0 => ~started \/ ops["call"] > 0
  /\ read_continuation' => read_continuation
  /\ HasTag("write", TRUE)' => HasTag("write", TRUE)
  /\ ops'["write"] > 0 /\ ~Completed("write")' =>
       ops["write"] > 0 /\ ~Completed("write") /\ req_buf' = req_buf

(* The step reads a message from the client into the buffer, or fails to.    *)
MessageRead ==
  /\ b_got' = b_got /\ started'
  /\ ops["call"] > 0 \/ read_continuation \/ HasTag("write", TRUE)
  /\ \/ req_read' = req_read /\ ops'["write"] = 0
     \/ /\ req_read' = req_read + 1 /\ req_buf' = req_read + 1
        /\ ~read_continuation' /\ ops'["call"] = 0 /\ ~HasTag("write", TRUE)'

(* The backend takes the message in the buffer.                              *)
MessageTaken ==
  /\ ops["write"] > 0 /\ ~Completed("write") /\ Completed("write")'
  /\ b_got' = Append(b_got, req_buf) /\ req_read' = req_read

LEMMA BufferSteps ==
  ASSUME RequestInvariant, FlowInvariant',
         MessageQuiet \/ MessageRead \/ MessageTaken
  PROVE  RequestInvariant'
  <1>1. /\ RequestInOrder /\ BufferKept /\ b_got \in Seq(Nat) /\ req_read \in Nat
        /\ req_buf \in Nat
    BY SMTT(60) DEF RequestInvariant, FlowInvariant, TypeOK
  <1>2. CASE MessageQuiet
    BY <1>1, <1>2 DEF RequestInvariant, RequestInOrder, BufferKept, MessageQuiet
  <1>3. CASE MessageRead
    <2>1. Len(b_got) = req_read /\ Len(b_got) \in Nat
      BY <1>1, <1>3 DEF BufferKept, MessageRead
    <2>2. RequestInOrder'
      BY <1>1, <1>3 DEF RequestInOrder, MessageRead
    <2>3. ASSUME req_read' = req_read, ops'["write"] = 0 PROVE BufferKept'
      BY <1>3, <2>1, <2>3 DEF BufferKept, MessageRead
    <2>4. ASSUME req_read' = req_read + 1, req_buf' = req_read + 1,
                 ~read_continuation', ops'["call"] = 0, ~HasTag("write", TRUE)'
          PROVE  BufferKept'
      <3>1. ~(ops'["call"] > 0)
        BY <2>4
      <3>2. req_buf' = req_read' /\ req_read' = Len(b_got') + 1 /\ started'
        BY <1>3, <2>1, <2>4 DEF MessageRead
      <3> QED BY <2>4, <3>1, <3>2, Zenon DEF BufferKept
    <2>5. BufferKept'
      BY <1>3, <2>3, <2>4 DEF MessageRead
    <2> QED BY <2>2, <2>5 DEF RequestInvariant
  <1>4. CASE MessageTaken
    <2>1. req_buf = req_read /\ req_read = Len(b_got) + 1 /\ Len(b_got) \in Nat
      BY <1>1, <1>4 DEF BufferKept, MessageTaken
    <2>2. b_got' = Append(b_got, Len(b_got) + 1) /\ Len(b_got') = req_read'
      BY <1>1, <1>4, <2>1 DEF MessageTaken
    <2>3. RequestInOrder'
      BY <1>1, <2>1, <2>2 DEF RequestInOrder
    <2>4. BufferKept'
      BY <1>4, <2>2 DEF BufferKept, MessageTaken
    <2> QED BY <2>3, <2>4 DEF RequestInvariant
  <1> QED BY <1>2, <1>3, <1>4

(* What running the oldest tag, and completing an operation, do to the       *)
(* queue of tags.                                                            *)
LEMMA RunTagQueue ==
  ASSUME TypeOK, TagsOutstanding, NEW op \in OpKind, NEW ok \in BOOLEAN,
         RunTag(op, ok)
  PROVE  /\ HasTag(op, ok) /\ ~Completed(op)' /\ \A b \in BOOLEAN : ~HasTag(op, b)'
         /\ \A b \in BOOLEAN : HasTag(op, b) => b = ok
         /\ \A k \in OpKind, b \in BOOLEAN : HasTag(k, b)' => HasTag(k, b)
         /\ \A k \in OpKind : Completed(k) => k = op \/ Completed(k)'
         /\ \A k \in OpKind, b \in BOOLEAN : HasTag(k, b) => k = op \/ HasTag(k, b)'
  <1>1. /\ tags \in Seq(Tag) /\ tags # <<>>
        /\ tags' = Tail(tags) /\ Head(tags) = [op |-> op, ok |-> ok]
    BY DEF TypeOK, RunTag
  <1>2. /\ Len(tags) \in Nat /\ Len(tags) >= 1
        /\ Len(tags') = Len(tags) - 1 /\ tags' \in Seq(Tag)
        /\ tags[1] = [op |-> op, ok |-> ok]
        /\ \A i \in 1..Len(tags') : tags'[i] = tags[i + 1]
        /\ DOMAIN tags = 1..Len(tags) /\ DOMAIN tags' = 1..Len(tags')
    BY <1>1
  <1>3. HasTag(op, ok)
    BY <1>2 DEF HasTag
  <1>4. ~Completed(op)'
    <2> SUFFICES ASSUME NEW i \in 1..Len(tags'), tags'[i].op = op PROVE FALSE
      BY <1>2 DEF Completed
    <2>1. i + 1 \in 1..Len(tags) /\ 1 \in 1..Len(tags) /\ tags'[i] = tags[i + 1]
      BY <1>2
    <2>2. tags[i + 1].op = tags[1].op
      BY <1>2, <2>1
    <2>3. i + 1 = 1
      BY <2>1, <2>2 DEF TagsOutstanding
    <2> QED BY <2>3
  <1>5. ASSUME NEW k \in OpKind, NEW b \in BOOLEAN, HasTag(k, b)'
        PROVE  HasTag(k, b)
    <2>1. PICK i \in 1..Len(tags') : tags'[i] = [op |-> k, ok |-> b]
      BY <1>5 DEF HasTag
    <2>2. i + 1 \in 1..Len(tags) /\ tags[i + 1] = [op |-> k, ok |-> b]
      BY <1>2, <2>1
    <2> QED BY <2>2 DEF HasTag
  <1>6. ASSUME NEW i \in 1..Len(tags), tags[i].op # op
        PROVE  i - 1 \in 1..Len(tags') /\ tags'[i - 1] = tags[i]
    <2>1. i # 1
      BY <1>2, <1>6
    <2>2. i - 1 \in 1..Len(tags')
      BY <1>2, <2>1
    <2> QED BY <1>2, <2>2
  <1>7. ASSUME NEW k \in OpKind, Completed(k), k # op PROVE Completed(k)'
    <2>1. PICK i \in 1..Len(tags) : tags[i].op = k
      BY <1>2, <1>7 DEF Completed
    <2>2. i - 1 \in 1..Len(tags') /\ tags'[i - 1] = tags[i]
      BY <1>6, <1>7, <2>1
    <2> QED BY <1>2, <2>1, <2>2 DEF Completed
  <1>8. ASSUME NEW k \in OpKind, NEW b \in BOOLEAN, HasTag(k, b), k # op
        PROVE  HasTag(k, b)'
    <2>1. PICK i \in 1..Len(tags) : tags[i] = [op |-> k, ok |-> b]
      BY <1>8 DEF HasTag
    <2>2. i - 1 \in 1..Len(tags') /\ tags'[i - 1] = tags[i]
      BY <1>6, <1>8, <2>1
    <2> QED BY <2>1, <2>2 DEF HasTag
  <1>9. ASSUME NEW b \in BOOLEAN, HasTag(op, b)' PROVE FALSE
    <2>1. PICK i \in 1..Len(tags') : tags'[i] = [op |-> op, ok |-> b]
      BY <1>9 DEF HasTag
    <2>2. tags'[i].op = op
      BY <2>1
    <2> QED BY <1>2, <1>4, <2>2 DEF Completed
  <1>10. ASSUME NEW b \in BOOLEAN, HasTag(op, b) PROVE b = ok
    <2>1. PICK i \in 1..Len(tags) : tags[i] = [op |-> op, ok |-> b]
      BY <1>10 DEF HasTag
    <2>2. tags[i].op = tags[1].op /\ 1 \in 1..Len(tags)
      BY <1>2, <2>1
    <2>3. i = 1
      BY <2>2 DEF TagsOutstanding
    <2> QED BY <1>2, <2>1, <2>3
  <1> QED BY <1>3, <1>4, <1>5, <1>7, <1>8, <1>9, <1>10

LEMMA CompleteQueue ==
  ASSUME TypeOK, NEW op \in OpKind, NEW ok \in BOOLEAN, Complete(op, ok)
  PROVE  /\ Completed(op)' /\ HasTag(op, ok)' /\ ~Completed(op)
         /\ \A k \in OpKind, b \in BOOLEAN : HasTag(k, b) => HasTag(k, b)' /\ Completed(k)
         /\ \A k \in OpKind, b \in BOOLEAN :
              HasTag(k, b)' => HasTag(k, b) \/ (k = op /\ b = ok)
         /\ \A k \in OpKind : Completed(k) => Completed(k)'
  <1> DEFINE t == [op |-> op, ok |-> ok]
  <1>1. /\ tags \in Seq(Tag) /\ t \in Tag /\ t.op = op /\ tags' = Append(tags, t)
        /\ ~Completed(op)
    BY DEF TypeOK, Complete, Tag
  <1>2. \A k \in OpKind, b \in BOOLEAN : t = [op |-> k, ok |-> b] => k = op /\ b = ok
    OBVIOUS
  <1>9. \A k \in OpKind, b \in BOOLEAN : [op |-> k, ok |-> b].op = k
    OBVIOUS
  <1>10. t = [op |-> op, ok |-> ok]
    OBVIOUS
  <1> HIDE DEF t
  <1>3. /\ Len(tags) \in Nat /\ Len(tags') = Len(tags) + 1
        /\ \A i \in 1..Len(tags) : i \in 1..Len(tags') /\ tags'[i] = tags[i]
        /\ tags'[Len(tags) + 1] = t /\ Len(tags) + 1 \in 1..Len(tags')
        /\ DOMAIN tags = 1..Len(tags) /\ DOMAIN tags' = 1..Len(tags')
    BY <1>1
  <1>4. Completed(op)' /\ HasTag(op, ok)'
    BY <1>1, <1>3, <1>10 DEF Completed, HasTag
  <1>5. ASSUME NEW k \in OpKind, NEW b \in BOOLEAN, HasTag(k, b)
        PROVE  HasTag(k, b)' /\ Completed(k)
    <2>1. PICK i \in 1..Len(tags) : tags[i] = [op |-> k, ok |-> b]
      BY <1>5 DEF HasTag
    <2> QED BY <1>3, <1>9, <2>1 DEF HasTag, Completed
  <1>6. ASSUME NEW k \in OpKind, NEW b \in BOOLEAN, HasTag(k, b)'
        PROVE  HasTag(k, b) \/ (k = op /\ b = ok)
    <2>1. PICK i \in 1..Len(tags') : tags'[i] = [op |-> k, ok |-> b]
      BY <1>6 DEF HasTag
    <2>2. CASE i \in 1..Len(tags)
      BY <1>3, <2>1, <2>2 DEF HasTag
    <2>3. CASE i = Len(tags) + 1
      BY <1>2, <1>3, <2>1, <2>3
    <2> QED BY <1>3, <2>2, <2>3
  <1>7. ASSUME NEW k \in OpKind, Completed(k) PROVE Completed(k)'
    BY <1>3, <1>7 DEF Completed
  <1> QED BY <1>1, <1>4, <1>5, <1>6, <1>7

(* A step that leaves the queue of tags alone.                               *)
LEMMA SameQueue ==
  ASSUME tags' = tags
  PROVE  /\ \A k \in OpKind, b \in BOOLEAN : HasTag(k, b)' <=> HasTag(k, b)
         /\ \A k \in OpKind : Completed(k)' <=> Completed(k)
  BY DEF HasTag, Completed

(* Whoever starts the next read is alone in the request direction, and a     *)
(* half-closed direction has nothing left to read.                           *)
LEMMA RequestTurn ==
  ASSUME FlowInvariant,
         ops["call"] >= 1 \/ ops["write"] >= 1 \/ read_continuation
  PROVE  /\ ops["call"] + ops["write"] + Flag(read_continuation) = 1
         /\ ops["writesdone"] = 0
         /\ read_continuation <=> ops["call"] + ops["write"] = 0
         /\ sent_upstream_writes_done => slices = 0 /\ ~reading_body
  <1> DEFINE c == ops["call"]  w == ops["write"]  d == ops["writesdone"]
             f == Flag(read_continuation)
  <1>1. /\ c \in Nat /\ w \in Nat /\ d \in Nat /\ c + f + w + d <= 1
        /\ read_continuation => f = 1
        /\ ~read_continuation => f = 0
    BY OpKinds DEF FlowInvariant, TypeOK, OneOperationPerDirection, RequestTokens, Flag
  <1>2. HalfCloseDrained
    BY DEF FlowInvariant
  <1>3. c >= 1 \/ w >= 1 \/ read_continuation
    OBVIOUS
  <1> HIDE DEF c, w, d, f
  <1>4. c + w + f = 1 /\ d = 0 /\ (read_continuation <=> c + w = 0)
    BY <1>1, <1>3
  <1> QED BY <1>2, <1>4 DEF HalfCloseDrained, c, w, d, f

(* Ending the call, passing a response on and starting Finish start neither  *)
(* a call nor a write, and a half-close only once.                           *)
LEMMA EffectOnRequest ==
  ASSUME NEW o \in [OpKind -> Nat],
         \/ EndEffect(o) \/ WriteEffect(o)
         \/ StartUpstreamFinish(o) /\ UNCHANGED read_continuation
         \/ ops' = o /\ UNCHANGED read_continuation
  PROVE  /\ ops'["call"] = o["call"] /\ ops'["write"] = o["write"]
         /\ read_continuation' => read_continuation
         /\ NoNewWrites(o)
  <1>1. /\ o["write"] \in Nat /\ o["writesdone"] \in Nat
        /\ \A op \in OpKind, k \in OpKind : With(o, op)[k] = IF k = op THEN o[k] + 1 ELSE o[k]
    BY OpKinds, WithType
  <1>2. /\ o["write"] <= o["write"] /\ o["writesdone"] <= o["writesdone"]
    BY <1>1
  <1>3. CASE ops' = o
    BY <1>2, <1>3 DEF NoNewWrites, EndEffect, WriteEffect
  <1>4. CASE ops' = With(o, "writesdone") /\ EndEffect(o) /\ ops' # o
    BY <1>1, <1>4, OpKinds DEF NoNewWrites, EndEffect
  <1>5. CASE ops' = With(o, "read") \/ ops' = With(o, "finish")
    <2>1. /\ ops'["call"] = o["call"] /\ ops'["write"] = o["write"]
          /\ ops'["writesdone"] = o["writesdone"]
      BY <1>1, <1>5, OpKinds
    <2> QED BY <1>2, <2>1 DEF NoNewWrites, EndEffect, WriteEffect
  <1> QED BY <1>3, <1>4, <1>5 DEF EndEffect, WriteEffect, StartUpstreamFinish

(* A tag whose callback does not read from the client.                       *)
LEMMA QuietTag ==
  ASSUME FlowInvariant, NEW op \in OpKind, NEW ok \in BOOLEAN, RunTag(op, ok),
         \/ EndEffect(Done(op)) \/ WriteEffect(Done(op))
         \/ StartUpstreamFinish(Done(op)) /\ UNCHANGED read_continuation
         \/ ops' = Done(op) /\ UNCHANGED read_continuation,
         req_read' = req_read, op # "write" => req_buf' = req_buf
  PROVE  MessageQuiet /\ NoNewWrites(ops)
  <1>1. TypeOK /\ TagsOutstanding /\ \A k \in OpKind : ops[k] \in Nat
    BY DEF FlowInvariant, TypeOK
  <1> DEFINE o == Done(op)
  <1>2. /\ o \in [OpKind -> Nat] /\ ops[op] >= 1
        /\ \A k \in OpKind : o[k] = IF k = op THEN ops[k] - 1 ELSE ops[k]
    BY <1>1, RunTagEffect
  <1> HIDE DEF o
  <1>3. /\ ops'["call"] = o["call"] /\ ops'["write"] = o["write"]
        /\ read_continuation' => read_continuation
        /\ NoNewWrites(o)
    BY <1>2, EffectOnRequest DEF o
  <1>4. /\ HasTag("write", TRUE)' => HasTag("write", TRUE)
        /\ Completed("write") => "write" = op \/ Completed("write")'
    BY <1>1, OpKinds, RunTagQueue
  <1>5. op = "write" => ops'["write"] = 0
    <2> SUFFICES ASSUME op = "write" PROVE ops'["write"] = 0
      OBVIOUS
    <2>1. ops["call"] + ops["write"] + Flag(read_continuation) = 1
          /\ Flag(read_continuation) \in 0..1 /\ ops["call"] \in Nat /\ ops["write"] \in Nat
      BY <1>1, <1>2, OpKinds, RequestTurn DEF Flag
    <2>2. ops["write"] = 1
      BY <1>2, <2>1
    <2> QED BY <1>2, <1>3, <2>2, OpKinds
  <1>6. ops'["call"] > 0 => ops["call"] > 0
    BY <1>1, <1>2, <1>3, OpKinds
  <1>7. ops'["write"] > 0 => ops["write"] > 0 /\ op # "write"
    BY <1>1, <1>2, <1>3, <1>5, OpKinds
  <1>8. UNCHANGED <<b_got, started>>
    BY DEF RunTag, backendVars
  <1>9. NoNewWrites(ops)
    <2>1. /\ o["write"] <= ops["write"] /\ o["writesdone"] <= ops["writesdone"]
          /\ o["write"] \in Nat /\ ops["write"] \in Nat
          /\ o["writesdone"] \in Nat /\ ops["writesdone"] \in Nat
      BY <1>1, <1>2, OpKinds
    <2>2. sent_upstream_writes_done => ops'["writesdone"] <= o["writesdone"]
      BY <1>3 DEF NoNewWrites
    <2>3. ops'["writesdone"] \in Nat
      BY <1>2, OpKinds, WithType DEF EndEffect, WriteEffect, StartUpstreamFinish, o
    <2> QED BY <1>3, <2>1, <2>2, <2>3 DEF NoNewWrites
  <1> QED BY <1>3, <1>4, <1>6, <1>7, <1>8, <1>9, Zenon DEF MessageQuiet

(* A tag whose callback reads the next message.                              *)
LEMMA ReadingTag ==
  ASSUME FlowInvariant, NEW op \in {"call", "write"}, RunTag(op, TRUE),
         NEW o, o = IF op = "call" THEN With(Done(op), "initmeta") ELSE Done(op),
         StartDownstreamReadMessage(o)
  PROVE  MessageRead /\ NoNewWrites(ops)
  <1>0. op \in OpKind /\ TRUE \in BOOLEAN
    BY OpKinds
  <1>1. /\ TypeOK /\ TagsOutstanding /\ ReadableMeansPending
        /\ \A k \in OpKind : ops[k] \in Nat
    BY DEF FlowInvariant, TypeOK
  <1>2. /\ Done(op) \in [OpKind -> Nat] /\ ops[op] >= 1
        /\ \A k \in OpKind : Done(op)[k] = IF k = op THEN ops[k] - 1 ELSE ops[k]
    BY <1>0, <1>1, RunTagEffect
  <1>3. HasTag(op, TRUE) /\ started' = started /\ b_got' = b_got
    BY <1>0, <1>1, RunTagQueue DEF RunTag, backendVars
  <1>4. /\ ops["call"] + ops["write"] + Flag(read_continuation) = 1
        /\ ops["writesdone"] = 0
        /\ read_continuation <=> ops["call"] + ops["write"] = 0
        /\ sent_upstream_writes_done => slices = 0 /\ ~reading_body
    BY <1>2, RequestTurn
  <1>5. ~read_continuation /\ started /\ Flag(read_continuation) \in 0..1
    BY <1>0, <1>1, <1>2, <1>4, OpKinds, TagStarted DEF Flag
  <1>6. ReadEffect(o)
    BY <1>1, <1>4, <1>5, DownstreamReadEffect
  <1>7. /\ o \in [OpKind -> Nat]
        /\ \A k \in OpKind : k # "initmeta" => o[k] = Done(op)[k]
    <2>1. CASE op = "call"
      <3> DEFINE p == Done(op)
      <3>1. o = With(p, "initmeta") /\ p \in [OpKind -> Nat]
        BY <1>2, <2>1
      <3> HIDE DEF p
      <3>2. /\ o \in [OpKind -> Nat]
            /\ \A k \in OpKind : o[k] = IF k = "initmeta" THEN p[k] + 1 ELSE p[k]
        BY <3>1, OpKinds, WithType
      <3> QED BY <3>2 DEF p
    <2>2. CASE op = "write"
      BY <1>2, <2>2
    <2> QED BY <2>1, <2>2
  <1>8. /\ o["call"] = 0 /\ o["write"] = 0 /\ o["writesdone"] = 0
    <2>1. /\ ops["call"] \in Nat /\ ops["write"] \in Nat
          /\ o["call"] = IF op = "call" THEN ops["call"] - 1 ELSE ops["call"]
          /\ o["write"] = IF op = "write" THEN ops["write"] - 1 ELSE ops["write"]
          /\ o["writesdone"] = ops["writesdone"]
      BY <1>1, <1>2, <1>7, OpKinds
    <2> DEFINE c == ops["call"]  w == ops["write"]  f == Flag(read_continuation)
    <2>2. /\ c \in Nat /\ w \in Nat /\ f \in 0..1 /\ c + w + f = 1
          /\ op = "call" => c >= 1
          /\ op = "write" => w >= 1
      BY <1>2, <1>4, <1>5, <2>1
    <2> HIDE DEF c, w, f
    <2>3. (op = "call" => c = 1 /\ w = 0) /\ (op = "write" => c = 0 /\ w = 1)
      BY <2>2
    <2> QED BY <1>4, <2>1, <2>3 DEF c, w
  <1>9. ~HasTag("write", TRUE)'
    <2>1. CASE op = "write"
      BY <1>0, <1>1, <2>1, RunTagQueue
    <2>2. CASE op = "call"
      <3>1. ops["write"] = 0
        BY <1>1, <1>2, <1>4, <1>5, <2>2, OpKinds
      <3>2. ~HasTag("write", TRUE)
        BY <1>1, <3>1 DEF HasTag, TagsOutstanding
      <3> QED BY <1>0, <1>1, <3>2, OpKinds, RunTagQueue
    <2> QED BY <2>1, <2>2
  <1>10. \A k \in OpKind : /\ With(o, "write")[k] = IF k = "write" THEN o[k] + 1 ELSE o[k]
                           /\ With(o, "writesdone")[k] = IF k = "writesdone" THEN o[k] + 1 ELSE o[k]
    BY <1>7, OpKinds, WithType
  <1>11. /\ \/ req_read' = req_read /\ ops'["write"] = 0
            \/ /\ req_read' = req_read + 1 /\ req_buf' = req_read + 1
               /\ ~read_continuation' /\ ops'["call"] = 0
         /\ sent_upstream_writes_done => ops' = o
    BY <1>6, <1>8, <1>10, OpKinds DEF ReadEffect
  <1>12. ops["call"] > 0 \/ HasTag("write", TRUE)
    <2>1. op = "call" => ops["call"] > 0
      BY <1>0, <1>1, <1>2
    <2>2. op = "write" => HasTag("write", TRUE)
      BY <1>3
    <2> QED BY <2>1, <2>2
  <1>13. MessageRead
    BY <1>3, <1>5, <1>9, <1>11, <1>12, Zenon DEF MessageRead
  <1>14. NoNewWrites(ops)
    BY <1>1, <1>8, <1>11, OpKinds DEF NoNewWrites
  <1> QED BY <1>13, <1>14

(* A step outside the tags that does not read from the client.               *)
LEMMA QuietStep ==
  ASSUME FlowInvariant, tags' = tags, UNCHANGED <<b_got, req_read, req_buf>>,
         started => started',
         \/ EndEffect(ops) \/ WriteEffect(ops)
         \/ StartUpstreamFinish(ops) /\ UNCHANGED read_continuation
         \/ ops' = ops /\ UNCHANGED read_continuation
  PROVE  MessageQuiet /\ NoNewWrites(ops)
  <1>1. ops \in [OpKind -> Nat]
    BY DEF FlowInvariant, TypeOK
  <1>2. /\ ops'["call"] = ops["call"] /\ ops'["write"] = ops["write"]
        /\ read_continuation' => read_continuation
        /\ NoNewWrites(ops)
    BY <1>1, EffectOnRequest
  <1>3. /\ HasTag("write", TRUE)' <=> HasTag("write", TRUE)
        /\ Completed("write")' <=> Completed("write")
    BY OpKinds, SameQueue
  <1> QED BY <1>2, <1>3, Zenon DEF MessageQuiet

LEMMA RequestTags ==
  ASSUME FlowInvariant, OnTag
  PROVE  (MessageQuiet \/ MessageRead) /\ NoNewWrites(ops)
  <1>0. TypeOK /\ wd_status \in Status
    BY DEF FlowInvariant, TypeOK
  <1>1. ASSUME NEW op \in OpKind, NEW ok \in BOOLEAN, RunTag(op, ok),
               NEW st \in Status, StartDownstreamFinish(Done(op), st),
               UNCHANGED <<req_buf, bodyVars>>
        PROVE  MessageQuiet /\ NoNewWrites(ops)
    <2>1. EndEffect(Done(op))
      BY <1>0, <1>1, DownstreamFinishEffect
    <2> QED BY <1>1, <2>1, QuietTag DEF bodyVars
  <1>2. ASSUME NEW op \in OpKind, NEW ok \in BOOLEAN, RunTag(op, ok),
               StartUpstreamFinish(Done(op)), UNCHANGED <<callVars, bodyVars>>,
               op # "write" => req_buf' = req_buf
        PROVE  MessageQuiet /\ NoNewWrites(ops)
    BY <1>2, QuietTag DEF bodyVars, callVars
  <1>3. CASE OnCallTag
    BY <1>1, <1>3, OpKinds, Statuses, ReadingTag DEF OnCallTag
  <1>4. CASE OnInitialMetadataTag
    <2>1. UNCHANGED <<req_buf, bodyVars, write_continuation>>
      BY <1>4 DEF OnInitialMetadataTag, asideVars
    <2>2. CASE /\ RunTag("initmeta", TRUE)
               /\ StartDownstreamWriteInitialMetadata(Done("initmeta"))
      <3>1. WriteEffect(Done("initmeta"))
        BY <1>0, <2>1, <2>2, InitialMetadataEffect
      <3> QED BY <2>1, <2>2, <3>1, OpKinds, QuietTag DEF bodyVars
    <2> QED BY <1>1, <1>4, <2>1, <2>2, OpKinds, Statuses DEF OnInitialMetadataTag
  <1>5. CASE OnReadTag
    <2>1. CASE /\ RunTag("read", TRUE)
               /\ StartDownstreamWriteMessage(Done("read"))
               /\ UNCHANGED <<req_buf, bodyVars>>
      <3>1. WriteEffect(Done("read"))
        BY <1>0, <2>1, DownstreamWriteEffect
      <3> QED BY <2>1, <3>1, OpKinds, QuietTag DEF bodyVars
    <2> QED BY <1>2, <1>5, <2>1, OpKinds DEF OnReadTag
  <1>6. CASE OnWriteTag
    BY <1>2, <1>6, OpKinds, ReadingTag DEF OnWriteTag
  <1>7. CASE OnWritesDoneTag
    <2>1. CASE /\ RunTag("writesdone", TRUE) /\ ops' = Done("writesdone")
               /\ UNCHANGED <<callVars, req_buf, bodyVars>>
      BY <2>1, OpKinds, QuietTag DEF bodyVars, callVars
    <2> QED BY <1>0, <1>1, <1>2, <1>7, <2>1, OpKinds DEF OnWritesDoneTag
  <1>8. CASE OnFinishTag
    BY <1>1, <1>8, OpKinds, Statuses DEF OnFinishTag
  <1> QED BY <1>3, <1>4, <1>5, <1>6, <1>7, <1>8 DEF OnTag

LEMMA RequestCompletions ==
  ASSUME FlowInvariant, CompleteOp
  PROVE  (MessageQuiet \/ MessageTaken) /\ NoNewWrites(ops)
  <1>0. TypeOK /\ ops["write"] \in Nat /\ ops["writesdone"] \in Nat
    BY OpKinds DEF FlowInvariant, TypeOK
  <1>1. ASSUME NEW op \in OpKind, NEW ok \in BOOLEAN, Complete(op, ok)
        PROVE  /\ UNCHANGED <<started, ops, read_continuation, req_read, req_buf>>
               /\ NoNewWrites(ops)
               /\ b_got' = b_got /\ (op # "write" \/ ~ok) => MessageQuiet
    <2>1. UNCHANGED <<started, ops, read_continuation, req_read, req_buf>>
      BY <1>1 DEF Complete, callVars, bodyVars
    <2>2. NoNewWrites(ops)
      BY <1>0, <2>1 DEF NoNewWrites
    <2>3. /\ Completed("write") => Completed("write")'
          /\ op # "write" \/ ~ok => (HasTag("write", TRUE)' => HasTag("write", TRUE))
      BY <1>0, <1>1, OpKinds, CompleteQueue
    <2> QED BY <2>1, <2>2, <2>3, Zenon DEF MessageQuiet
  <1>2. CASE CompleteWrite
    <2>1. CASE Complete("write", TRUE) /\ b_got' = Append(b_got, req_buf)
      <3>1. Completed("write")' /\ ~Completed("write") /\ ops["write"] > 0
        BY <1>0, <2>1, OpKinds, CompleteQueue DEF Complete
      <3> QED BY <1>1, <2>1, <3>1, OpKinds DEF MessageTaken
    <2> QED BY <1>1, <1>2, <2>1, OpKinds DEF CompleteWrite
  <1>3. CASE CompleteOp /\ ~CompleteWrite
    <2>1. PICK op \in OpKind \ {"write"}, ok \in BOOLEAN : Complete(op, ok)
      BY <1>3, OpKinds
         DEF CompleteOp, CompleteCall, CompleteInitialMetadata, CompleteRead,
             CompleteWritesDone, CompleteFinish
    <2>2. b_got' = b_got
      BY <1>3 DEF CompleteOp, CompleteCall, CompleteInitialMetadata, CompleteRead,
                  CompleteWritesDone, CompleteFinish
    <2> QED BY <1>1, <2>1, <2>2
  <1> QED BY <1>2, <1>3

(* Every step moves a message on in one of these ways or leaves it alone,    *)
(* and starts no write after the half-close.                                 *)
LEMMA RequestStep ==
  ASSUME FlowInvariant, [Next]_vars
  PROVE  (MessageQuiet \/ MessageRead \/ MessageTaken) /\ NoNewWrites(ops)
  <1>0. /\ TypeOK /\ ops \in [OpKind -> Nat] /\ ReadableMeansPending /\ BeforeStart
        /\ \A k \in OpKind : ops[k] \in Nat
    BY DEF FlowInvariant, TypeOK
  <1>1. CASE Start
    <2>1. /\ UNCHANGED <<tags, b_got, req_read, req_buf>> /\ ~started
      BY <1>1 DEF Start, bodyVars, backendVars
    <2>2. CASE StartDownstreamFinish(ops, "INTERNAL")
      <3>1. EndEffect(ops)
        BY <1>0, <2>2, Statuses, DownstreamFinishEffect
      <3> QED BY <2>1, <3>1, QuietStep
    <2>3. CASE ops' = With(ops, "call") /\ UNCHANGED callVars
      <3>1. /\ ops'["write"] = ops["write"] /\ read_continuation' = read_continuation
            /\ ops["write"] = 0 /\ ~sent_upstream_writes_done
        BY <1>0, <2>1, <2>3, OpKinds, WithType DEF BeforeStart, callVars
      <3>2. ~(ops'["write"] > 0)
        BY <3>1
      <3>3. HasTag("write", TRUE)' <=> HasTag("write", TRUE)
        BY <2>1, OpKinds, SameQueue
      <3> QED BY <2>1, <3>1, <3>2, <3>3, Zenon DEF MessageQuiet, NoNewWrites
    <2> QED BY <1>1, <2>2, <2>3 DEF Start
  <1>2. CASE OnDownstreamReadable
    <2>1. /\ RunPendingRead(ops) /\ read_handler = "readable"
          /\ UNCHANGED <<started, tags, b_got>>
      BY <1>2 DEF OnDownstreamReadable, backendVars
    <2>2. read_continuation /\ started
      BY <1>0, <2>1 DEF ReadableMeansPending, BeforeStart
    <2>3. /\ ops["call"] + ops["write"] + Flag(read_continuation) = 1
          /\ ops["call"] + ops["write"] = 0 /\ ops["writesdone"] = 0
          /\ sent_upstream_writes_done => slices = 0 /\ ~reading_body
      BY <2>2, RequestTurn
    <2>4. ops["call"] = 0 /\ ops["write"] = 0
      BY <1>0, <2>3, OpKinds
    <2>5. ReadEffect(ops)
      BY <1>0, <2>1, <2>3, RunPendingReadEffect
    <2>6. ~HasTag("write", TRUE)'
      <3>1. ~HasTag("write", TRUE)
        BY <2>4 DEF HasTag, FlowInvariant, TagsOutstanding
      <3> QED BY <2>1, <3>1, OpKinds, SameQueue
    <2>7. \A k \in OpKind :
            /\ With(ops, "write")[k] = IF k = "write" THEN ops[k] + 1 ELSE ops[k]
            /\ With(ops, "writesdone")[k] = IF k = "writesdone" THEN ops[k] + 1 ELSE ops[k]
      BY <1>0, OpKinds, WithType
    <2>8. /\ \/ req_read' = req_read /\ ops'["write"] = 0
             \/ /\ req_read' = req_read + 1 /\ req_buf' = req_read + 1
                /\ ~read_continuation' /\ ops'["call"] = 0
          /\ sent_upstream_writes_done => ops' = ops
      BY <2>4, <2>5, <2>7, OpKinds DEF ReadEffect
    <2>9. MessageRead
      BY <2>1, <2>2, <2>6, <2>8, Zenon DEF MessageRead
    <2>10. NoNewWrites(ops)
      BY <1>0, <2>8, OpKinds DEF NoNewWrites
    <2> QED BY <2>9, <2>10
  <1>3. CASE OnHttpBlockReading
    <2>1. UNCHANGED <<started, tags, b_got, req_read, req_buf, read_continuation>>
      BY <1>3 DEF OnHttpBlockReading, bodyVars
    <2>2. StartUpstreamFinish(ops) \/ ops' = ops
      BY <1>3 DEF OnHttpBlockReading
    <2> QED BY <2>1, <2>2, QuietStep
  <1>4. CASE OnDownstreamWriteable
    <2>1. UNCHANGED <<started, tags, b_got, req_read, req_buf>>
      BY <1>4 DEF OnDownstreamWriteable, bodyVars, backendVars
    <2>2. CASE StartDownstreamFinish(ops, "UNKNOWN")
      <3>1. EndEffect(ops)
        BY <1>0, <2>2, Statuses, DownstreamFinishEffect
      <3> QED BY <2>1, <3>1, QuietStep
    <2>3. CASE /\ ops' = IF sent_downstream_finish THEN ops ELSE With(ops, "read")
               /\ UNCHANGED read_continuation
      <3>1. /\ ops'["call"] = ops["call"] /\ ops'["write"] = ops["write"]
            /\ ops'["writesdone"] = ops["writesdone"]
        BY <1>0, <2>3, OpKinds, WithType
      <3>2. NoNewWrites(ops)
        BY <1>0, <3>1, OpKinds DEF NoNewWrites
      <3>3. /\ HasTag("write", TRUE)' <=> HasTag("write", TRUE)
            /\ Completed("write")' <=> Completed("write")
        BY <2>1, OpKinds, SameQueue
      <3> QED BY <2>1, <2>3, <3>1, <3>2, <3>3, Zenon DEF MessageQuiet
    <2> QED BY <1>4, <2>2, <2>3 DEF OnDownstreamWriteable
  <1>5. CASE FreeLingering
    <2>1. /\ UNCHANGED <<started, tags, b_got, req_read, req_buf>>
          /\ Cleanup(ops, read_continuation)
      BY <1>5 DEF FreeLingering, bodyVars, backendVars
    <2>2. EndEffect(ops)
      BY <1>0, <2>1 DEF Cleanup, StartUpstreamWritesDone, EndEffect, TypeOK
    <2> QED BY <2>1, <2>2, QuietStep
  <1>6. CASE DestroyFlow \/ Client \/ Backend \/ UNCHANGED vars
    <2>1. UNCHANGED <<started, tags, b_got, req_read, req_buf, ops, read_continuation>>
      BY <1>6 DEF DestroyFlow, Client, ClientSend, ClientHalfClose, ClientReset,
                  Backend, BackendSend, BackendClose, vars, flowVars, opVars, callVars,
                  bodyVars, backendVars
    <2> QED BY <2>1, QuietStep
  <1> QED BY <1>1, <1>2, <1>3, <1>4, <1>5, <1>6, RequestTags, RequestCompletions
      DEF Next, OnEvent

(* The request invariant holds of every proxied call: one buffer carries the *)
(* messages, and a message is in it until libgrpc has taken it.              *)
THEOREM RequestInvariantHolds == Spec => []RequestInvariant
  <1>1. Init => RequestInvariant
    <2> SUFFICES ASSUME Init PROVE RequestInvariant
      OBVIOUS
    <2>1. FlowInvariant
      BY InitEstablishes
    <2>2. b_got = <<>> /\ req_read = 0 /\ ops["write"] = 0
      BY OpKinds DEF Init
    <2>3. RequestInOrder /\ BufferKept
      BY <2>2 DEF RequestInOrder, BufferKept
    <2> QED BY <2>1, <2>3 DEF RequestInvariant
  <1>2. RequestInvariant /\ [Next]_vars => RequestInvariant'
    <2> SUFFICES ASSUME RequestInvariant, [Next]_vars PROVE RequestInvariant'
      OBVIOUS
    <2>1. FlowInvariant
      BY DEF RequestInvariant
    <2> QED BY <2>1, NextPreserves, RequestStep, BufferSteps
  <1> QED BY <1>1, <1>2, PTL DEF Spec

(* The backend gets the client's messages in order, none lost in between and *)
(* none twice, for any number of messages, transcoded or not.                *)
THEOREM MessagesInOrder == Spec => []RequestInOrder
  <1>1. RequestInvariant => RequestInOrder
    BY DEF RequestInvariant
  <1> QED BY <1>1, RequestInvariantHolds, PTL

(* After WritesDone, or a Write with last_message, the flow starts neither a *)
(* write nor a second half-close, whichever callback runs.                   *)
THEOREM HalfCloseIsFinal == Spec => NothingAfterHalfClose
  <1>1. FlowInvariant /\ [Next]_vars =>
          [sent_upstream_writes_done =>
             /\ ops'["write"] <= ops["write"]
             /\ ops'["writesdone"] <= ops["writesdone"]]_vars
    BY RequestStep DEF NoNewWrites
  <1> QED BY <1>1, FlowInvariantHolds, PTL DEF Spec, NothingAfterHalfClose

-----------------------------------------------------------------------------
(* The response direction of the pass-through flow: what a step does to the  *)
(* client.                                                                   *)

(* The client sees nothing of the step.                                      *)
ClientQuiet ==
  /\ UNCHANGED <<delivered, client_status>>
  /\ \/ sent_downstream_finish'
     \/ /\ UNCHANGED <<sent_downstream_finish, request>>
        /\ HasTag("read", TRUE)' <=> HasTag("read", TRUE)

(* The response in the buffer goes to the client.                            *)
ClientDeliver ==
  /\ ~sent_downstream_finish /\ HasTag("read", TRUE) /\ ~HasTag("read", TRUE)'
  /\ delivered' = Append(delivered, resp_buf)
  /\ UNCHANGED <<client_status, sent_downstream_finish, request>>

(* The client is told the end, OK only as the backend's status.              *)
ClientEnd(ok) ==
  /\ ~sent_downstream_finish /\ sent_downstream_finish'
  /\ client_status = "none" /\ client_status' \in Status
  /\ client_status' = "OK" => ok /\ status_from_upstream = "OK"
  /\ delivered' = delivered

LEMMA FinishToClient ==
  ASSUME ~Transcoding, TypeOK, NEW o, NEW st \in Status, StartDownstreamFinish(o, st)
  PROVE  ClientQuiet \/ ClientEnd(st = "OK")
  <1>0. /\ sent_downstream_finish \in BOOLEAN /\ status_from_upstream \in Status
        /\ "INTERNAL" \in Status /\ "INTERNAL" # "OK"
    BY Statuses DEF TypeOK
  <1>1. CASE sent_downstream_finish
    BY <1>0, <1>1 DEF StartDownstreamFinish, ClientQuiet, outVars
  <1>2. CASE ~sent_downstream_finish /\ request = "freed"
    BY <1>2 DEF StartDownstreamFinish, Finish, ClientQuiet, outVars
  <1>3. CASE ~sent_downstream_finish /\ request # "freed"
    <2> DEFINE t == IF st = "OK" THEN status_from_upstream ELSE st
    <2>1. t \in Status /\ (t = "OK" => st = "OK" /\ status_from_upstream = "OK")
      BY <1>0
    <2>2. sent_downstream_finish' = TRUE /\ Finish(o, t)
      BY <1>3 DEF StartDownstreamFinish
    <2> HIDE DEF t
    <2>3. /\ \/ Finalize(o, read_continuation, t, 1)
             \/ Finalize(o, read_continuation, "INTERNAL", 1)
          /\ delivered' = delivered
      BY <1>3, <2>2 DEF Finish
    <2>4. PICK s \in {t, "INTERNAL"} :
            client_status' = IF client_status = "none" THEN s ELSE client_status
      BY <2>3 DEF Finalize
    <2>5. CASE client_status = "none"
      BY <1>0, <1>3, <2>1, <2>2, <2>3, <2>4, <2>5 DEF ClientEnd
    <2>6. CASE client_status # "none"
      BY <2>2, <2>3, <2>4, <2>6 DEF ClientQuiet
    <2> QED BY <2>5, <2>6
  <1> QED BY <1>1, <1>2, <1>3

(* Reading from the client tells it nothing.                                 *)
LEMMA ReadLeavesClient ==
  ASSUME ~Transcoding, NEW o, RunPendingRead(o) \/ StartDownstreamReadMessage(o)
  PROVE  UNCHANGED <<delivered, client_status, request>>
  <1>1. ASSUME NEW n, NEW open, ReadBuffered(o, n, open)
        PROVE  UNCHANGED <<delivered, client_status, request>>
    BY <1>1 DEF ReadBuffered, StartUpstreamWriteMessage, ReadEnded, outVars
  <1>2. CASE RunPendingRead(o)
    <2>1. CASE ReadEnded(o, "READ_ERR")
      BY <2>1 DEF ReadEnded, outVars
    <2> QED BY <1>1, <1>2, <2>1 DEF RunPendingRead
  <1>3. CASE StartDownstreamReadMessage(o) /\ ~RunPendingRead(o)
    BY <1>3 DEF StartDownstreamReadMessage, Read, callVars, outVars
  <1> QED BY <1>2, <1>3

(* A tag whose callback the client does not see, or sees as the end.         *)
LEMMA TagForClient ==
  ASSUME FlowInvariant, NEW op \in OpKind, NEW ok \in BOOLEAN, RunTag(op, ok),
         UNCHANGED <<delivered, client_status, sent_downstream_finish, request>>,
         op # "read" \/ ~ok \/ sent_downstream_finish
  PROVE  ClientQuiet
  <1>1. TypeOK /\ TagsOutstanding
    BY DEF FlowInvariant
  <1>2. /\ HasTag("read", TRUE)' => HasTag("read", TRUE)
        /\ HasTag("read", TRUE) => op = "read" \/ HasTag("read", TRUE)'
        /\ op = "read" /\ HasTag("read", TRUE) => ok
    BY <1>1, OpKinds, RunTagQueue
  <1> QED BY <1>2, Zenon DEF ClientQuiet

LEMMA ClientTags ==
  ASSUME ~Transcoding, FlowInvariant, OnTag
  PROVE  \/ ClientQuiet \/ ClientDeliver \/ ClientEnd(FALSE)
         \/ OnFinishTag /\ ClientEnd(TRUE)
  <1>0. TypeOK /\ TagsOutstanding /\ wd_status \in Status
    BY DEF FlowInvariant, TypeOK
  <1>1. ASSUME NEW o, NEW st \in Status \ {"OK"}, StartDownstreamFinish(o, st)
        PROVE  ClientQuiet \/ ClientEnd(FALSE)
    <2>1. ClientQuiet \/ ClientEnd(st = "OK")
      BY <1>0, <1>1, FinishToClient
    <2> QED BY <2>1 DEF ClientEnd
  <1>2. CASE OnCallTag
    <2>1. CASE StartDownstreamFinish(Done("call"), "UNAVAILABLE")
      BY <1>1, <2>1, Statuses
    <2>2. CASE /\ RunTag("call", TRUE)
               /\ StartDownstreamReadMessage(With(Done("call"), "initmeta"))
               /\ UNCHANGED sent_downstream_finish
      BY <2>2, OpKinds, ReadLeavesClient, TagForClient
    <2> QED BY <1>2, <2>1, <2>2 DEF OnCallTag
  <1>3. CASE OnInitialMetadataTag
    <2>1. CASE StartDownstreamFinish(Done("initmeta"), "UNKNOWN")
      BY <1>1, <2>1, Statuses
    <2>2. CASE /\ RunTag("initmeta", TRUE) /\ ~StartDownstreamFinish(Done("initmeta"), "UNKNOWN")
               /\ StartDownstreamWriteInitialMetadata(Done("initmeta"))
      <3>1. UNCHANGED <<delivered, client_status, sent_downstream_finish, request>>
        BY <2>2 DEF StartDownstreamWriteInitialMetadata, callVars, outVars
      <3> QED BY <2>2, <3>1, OpKinds, TagForClient
    <2> QED BY <1>3, <2>1, <2>2 DEF OnInitialMetadataTag
  <1>4. CASE OnReadTag
    <2>1. CASE RunTag("read", FALSE) /\ UNCHANGED <<sent_downstream_finish, callVars, outVars>>
      BY <2>1, OpKinds, TagForClient DEF callVars, outVars
    <2>2. CASE RunTag("read", TRUE) /\ StartDownstreamWriteMessage(Done("read"))
      <3>1. CASE sent_downstream_finish
        <4>1. UNCHANGED <<delivered, client_status, sent_downstream_finish, request>>
          BY <2>2, <3>1 DEF StartDownstreamWriteMessage, callVars, outVars
        <4> QED BY <2>2, <3>1, <4>1, OpKinds, TagForClient
      <3>2. CASE ~sent_downstream_finish /\ StartDownstreamFinish(Done("read"), "UNKNOWN")
        BY <1>1, <3>2, Statuses
      <3>3. CASE ~sent_downstream_finish /\ ~StartDownstreamFinish(Done("read"), "UNKNOWN")
        <4>1. /\ delivered' = Append(delivered, resp_buf)
              /\ UNCHANGED <<client_status, sent_downstream_finish, request>>
          BY <2>2, <3>3 DEF StartDownstreamWriteMessage, Write
        <4>2. HasTag("read", TRUE) /\ ~HasTag("read", TRUE)'
          BY <1>0, <2>2, OpKinds, RunTagQueue
        <4> QED BY <3>3, <4>1, <4>2, Zenon DEF ClientDeliver
      <3> QED BY <3>1, <3>2, <3>3
    <2> QED BY <1>4, <2>1, <2>2 DEF OnReadTag
  <1>5. CASE OnWriteTag
    <2>1. CASE RunTag("write", FALSE) /\ UNCHANGED <<sent_downstream_finish, callVars, outVars>>
      BY <2>1, OpKinds, TagForClient DEF callVars, outVars
    <2>2. CASE /\ RunTag("write", TRUE) /\ StartDownstreamReadMessage(Done("write"))
               /\ UNCHANGED sent_downstream_finish
      BY <2>2, OpKinds, ReadLeavesClient, TagForClient
    <2> QED BY <1>5, <2>1, <2>2 DEF OnWriteTag
  <1>6. CASE OnWritesDoneTag
    <2>1. CASE /\ \E ok \in BOOLEAN : RunTag("writesdone", ok)
               /\ UNCHANGED <<sent_downstream_finish, callVars, outVars>>
      BY <2>1, OpKinds, TagForClient DEF callVars, outVars
    <2>2. CASE wd_status # "OK" /\ StartDownstreamFinish(Done("writesdone"), wd_status)
      BY <1>0, <1>1, <2>2
    <2> QED BY <1>6, <2>1, <2>2 DEF OnWritesDoneTag
  <1>7. CASE OnFinishTag
    <2>1. ClientQuiet \/ ClientEnd("OK" = "OK")
      BY <1>0, <1>7, Statuses, FinishToClient DEF OnFinishTag
    <2> QED BY <1>7, <2>1 DEF ClientEnd
  <1> QED BY <1>2, <1>3, <1>4, <1>5, <1>6, <1>7 DEF OnTag

(* A completed Finish stays last, and the backend's end as it was, when a    *)
(* tag is run or the queue is left alone.                                    *)
LEMMA FinishStaysLast ==
  ASSUME TypeOK, FinishIsLast,
         tags' = tags \/ (tags # <<>> /\ tags' = Tail(tags)),
         b_closed # "open" => UNCHANGED <<b_closed, b_sent>>,
         UNCHANGED <<status_from_upstream, b_read>>
  PROVE  FinishIsLast'
  <1>1. CASE tags' = tags
    BY <1>1 DEF FinishIsLast
  <1>2. CASE tags # <<>> /\ tags' = Tail(tags)
    <2>1. /\ tags \in Seq(Tag) /\ Len(tags') = Len(tags) - 1 /\ Len(tags) \in Nat
          /\ \A i \in 1..Len(tags') : i + 1 \in 1..Len(tags) /\ tags'[i] = tags[i + 1]
      BY <1>2 DEF TypeOK
    <2>2. SUFFICES ASSUME NEW j \in 1..Len(tags'), tags'[j].op = "finish"
                   PROVE  /\ b_closed' # "open" /\ status_from_upstream' = b_closed'
                          /\ b_closed' = "OK" => b_read' = b_sent'
                          /\ \A i \in 1..Len(tags') :
                               tags'[i] = [op |-> "read", ok |-> TRUE] => i < j
      BY DEF FinishIsLast
    <2>3. /\ b_closed # "open" /\ status_from_upstream = b_closed
          /\ b_closed = "OK" => b_read = b_sent
          /\ \A i \in 1..Len(tags) : tags[i] = [op |-> "read", ok |-> TRUE] => i < j + 1
      BY <2>1, <2>2 DEF FinishIsLast
    <2>4. ASSUME NEW i \in 1..Len(tags'), tags'[i] = [op |-> "read", ok |-> TRUE]
          PROVE  i < j
      <3>1. i + 1 < j + 1
        BY <2>1, <2>3, <2>4
      <3> QED BY <2>1, <3>1
    <2> QED BY <2>3, <2>4
  <1> QED BY <1>1, <1>2

LEMMA RelayCompletions ==
  ASSUME RelayInvariant, CompleteOp, FlowInvariant'
  PROVE  RelayInvariant' /\ UNCHANGED <<delivered, client_status, b_sent, b_closed>>
  <1>0. /\ TypeOK /\ FinishIsLast /\ ResponsesPassedOn /\ b_read <= b_sent
        /\ b_read \in Nat /\ b_sent \in Nat /\ delivered \in Seq(Nat)
        /\ b_closed \in {"open", "OK", "ERR", "CANCELLED"}
    BY DEF RelayInvariant, FlowInvariant, TypeOK
  <1>1. PICK op \in OpKind, ok \in BOOLEAN : Complete(op, ok)
    BY OpKinds DEF CompleteOp, CompleteCall, CompleteInitialMetadata, CompleteRead,
                   CompleteWrite, CompleteWritesDone, CompleteFinish
  <1> DEFINE t == [op |-> op, ok |-> ok]
  <1>2. /\ UNCHANGED <<delivered, client_status, b_sent, b_closed, request,
                       sent_downstream_finish>>
        /\ tags' = Append(tags, t)
    BY <1>1 DEF Complete, callVars, outVars
  <1>3. /\ t \in Tag /\ t.op = op /\ t.ok = ok /\ tags \in Seq(Tag)
        /\ t = [op |-> "read", ok |-> TRUE] <=> op = "read" /\ ok
    BY <1>0 DEF Tag, TypeOK
  <1>4. \A k \in OpKind, b \in BOOLEAN : Complete(k, b) => t = [op |-> k, ok |-> b]
    <2> SUFFICES ASSUME NEW k \in OpKind, NEW b \in BOOLEAN, Complete(k, b)
                 PROVE  t = [op |-> k, ok |-> b]
      OBVIOUS
    <2> DEFINE u == [op |-> k, ok |-> b]
    <2>1. tags' = Append(tags, u) /\ u \in Tag
      BY DEF Complete, Tag
    <2> HIDE DEF t, u
    <2>2. t = u
      <3>1. tags'[Len(tags) + 1] = t
        BY <1>2, <1>3
      <3>2. tags'[Len(tags) + 1] = u
        BY <1>3, <2>1
      <3> QED BY <3>1, <3>2
    <2> QED BY <2>2 DEF u
  <1>5. \A k \in OpKind, b \in BOOLEAN : Complete(k, b) => k = op /\ b = ok
    BY <1>3, <1>4
  <1>6. /\ \A k \in {"call", "initmeta", "write", "writesdone"}, b \in BOOLEAN :
             Complete(k, b) => op = k
        /\ Complete("finish", TRUE) => op = "finish"
        /\ \A b \in BOOLEAN : Complete("read", b) => op = "read" /\ ok = b
    BY <1>5, OpKinds
  <1>7. /\ op = "read" /\ ok =>
             /\ ~Failed /\ b_read < b_sent
             /\ resp_buf' = b_read + 1 /\ b_read' = b_read + 1
        /\ ~(op = "read" /\ ok) => UNCHANGED <<resp_buf, b_read>>
        /\ op = "finish" =>
             /\ Failed \/ (b_closed = "OK" /\ b_read = b_sent)
             /\ status_from_upstream' = b_closed
        /\ op # "finish" => UNCHANGED status_from_upstream
    BY <1>6 DEF CompleteOp, CompleteCall, CompleteInitialMetadata, CompleteRead,
                CompleteWrite, CompleteWritesDone, CompleteFinish
  <1>8. /\ Len(tags) \in Nat /\ Len(tags') = Len(tags) + 1
        /\ \A i \in 1..Len(tags) : tags'[i] = tags[i]
        /\ tags'[Len(tags) + 1] = t
    <2> HIDE DEF t
    <2> QED BY <1>2, <1>3
  <1> HIDE DEF t
  <1>9. ASSUME NEW j \in 1..Len(tags), tags[j].op = "finish"
        PROVE  ~(op = "read" /\ ok) /\ op # "finish"
    <2>1. b_closed # "open" /\ (b_closed = "OK" => b_read = b_sent)
      BY <1>0, <1>9 DEF FinishIsLast
    <2>2. Completed("finish")
      BY <1>3, <1>9 DEF Completed
    <2> QED BY <1>0, <1>1, <1>7, <2>1, <2>2 DEF Failed, Complete
  <1>10. FinishIsLast'
    <2> SUFFICES ASSUME NEW j \in 1..Len(tags'), tags'[j].op = "finish"
                 PROVE  /\ b_closed' # "open" /\ status_from_upstream' = b_closed'
                        /\ b_closed' = "OK" => b_read' = b_sent'
                        /\ \A i \in 1..Len(tags') :
                             tags'[i] = [op |-> "read", ok |-> TRUE] => i < j
      BY DEF FinishIsLast
    <2>1. CASE j \in 1..Len(tags)
      <3>1. /\ tags[j].op = "finish" /\ b_closed # "open"
            /\ status_from_upstream = b_closed
            /\ b_closed = "OK" => b_read = b_sent
            /\ \A i \in 1..Len(tags) : tags[i] = [op |-> "read", ok |-> TRUE] => i < j
        BY <1>0, <1>8, <2>1 DEF FinishIsLast
      <3>2. ~(op = "read" /\ ok) /\ op # "finish"
        BY <1>9, <2>1, <3>1
      <3>3. ASSUME NEW i \in 1..Len(tags'), tags'[i] = [op |-> "read", ok |-> TRUE]
            PROVE  i < j
        <4>1. i # Len(tags) + 1
          BY <1>3, <1>8, <3>2, <3>3
        <4>2. i \in 1..Len(tags)
          BY <1>8, <4>1
        <4> QED BY <1>8, <3>1, <3>3, <4>2
      <3> QED BY <1>2, <1>7, <3>1, <3>2, <3>3
    <2>2. CASE j = Len(tags) + 1
      <3>1. op = "finish"
        BY <1>3, <1>8, <2>2
      <3>2. ASSUME NEW i \in 1..Len(tags'), tags'[i] = [op |-> "read", ok |-> TRUE]
            PROVE  i < j
        <4>1. i # Len(tags) + 1
          BY <1>3, <1>8, <3>1, <3>2
        <4> QED BY <1>8, <2>2, <4>1
      <3> QED BY <1>0, <1>2, <1>7, <3>1, <3>2 DEF Failed
    <2> QED BY <1>8, <2>1, <2>2
  <1>11. /\ HasTag("read", TRUE)' <=> HasTag("read", TRUE) \/ (op = "read" /\ ok)
         /\ op = "read" => ~HasTag("read", TRUE)
    BY <1>0, <1>1, OpKinds, CompleteQueue
  <1>12. ResponsesPassedOn'
    <2>1. CASE op = "read" /\ ok
      <3>1. HasTag("read", TRUE)' /\ ~HasTag("read", TRUE)
        BY <1>11, <2>1, Zenon
      <3>2. ~sent_downstream_finish =>
              /\ request = "active" /\ client_status = "none" /\ b_read = Len(delivered)
        BY <1>0, <3>1 DEF ResponsesPassedOn
      <3> QED BY <1>2, <1>7, <2>1, <3>1, <3>2 DEF ResponsesPassedOn
    <2>2. CASE ~(op = "read" /\ ok)
      <3>1. HasTag("read", TRUE)' <=> HasTag("read", TRUE)
        BY <1>11, <2>2, Zenon
      <3> QED BY <1>0, <1>2, <1>7, <2>2, <3>1 DEF ResponsesPassedOn
    <2> QED BY <2>1, <2>2
  <1>13. b_read' <= b_sent'
    BY <1>0, <1>2, <1>7
  <1> QED BY <1>2, <1>10, <1>12, <1>13 DEF RelayInvariant

(* A step of the flow, towards the client.                                   *)
LEMMA RelayClientStep ==
  ASSUME RelayInvariant, FlowInvariant',
         UNCHANGED <<b_sent, b_read, b_closed, resp_buf, status_from_upstream>>,
         tags' = tags \/ (tags # <<>> /\ tags' = Tail(tags)),
         \/ ClientQuiet \/ ClientDeliver
         \/ \E ok \in BOOLEAN :
              ClientEnd(ok) /\ (ok => tags # <<>> /\ Head(tags).op = "finish")
  PROVE  RelayInvariant' /\ [Relay!RelayNext]_(Relay!relayVars)
  <1>0. /\ TypeOK /\ FinishIsLast /\ ResponsesPassedOn /\ b_read <= b_sent
        /\ b_read \in Nat /\ b_sent \in Nat /\ delivered \in Seq(Nat)
        /\ Len(delivered) \in Nat /\ tags \in Seq(Tag)
    BY DEF RelayInvariant, FlowInvariant, TypeOK
  <1>1. FinishIsLast'
    BY <1>0, FinishStaysLast
  <1>2. CASE ClientQuiet
    <2>1. ResponsesPassedOn'
      BY <1>0, <1>2 DEF ClientQuiet, ResponsesPassedOn
    <2>2. UNCHANGED <<b_sent, b_closed, delivered, client_status>>
      BY <1>2 DEF ClientQuiet
    <2> QED BY <1>0, <1>1, <2>1, <2>2 DEF RelayInvariant, Relay!relayVars
  <1>3. CASE ClientDeliver
    <2>1. /\ ~sent_downstream_finish /\ ~sent_downstream_finish' /\ ~HasTag("read", TRUE)'
          /\ delivered' = Append(delivered, resp_buf)
          /\ UNCHANGED <<client_status, request>>
      BY <1>3, Zenon DEF ClientDeliver
    <2>2. /\ request = "active" /\ client_status = "none"
          /\ resp_buf = Len(delivered) + 1 /\ b_read = Len(delivered) + 1
      BY <1>0, <1>3 DEF ClientDeliver, ResponsesPassedOn
    <2>3. Len(delivered') = Len(delivered) + 1
      BY <1>0, <2>1, <2>2
    <2>4. ResponsesPassedOn'
      BY <2>1, <2>2, <2>3 DEF ResponsesPassedOn
    <2>5. Relay!Deliver
      BY <1>0, <2>1, <2>2 DEF Relay!Deliver
    <2> QED BY <1>0, <1>1, <2>4, <2>5 DEF RelayInvariant, Relay!RelayNext
  <1>4. ASSUME NEW ok \in BOOLEAN, ClientEnd(ok),
               ok => tags # <<>> /\ Head(tags).op = "finish"
        PROVE  RelayInvariant' /\ [Relay!RelayNext]_(Relay!relayVars)
    <2>1. /\ ~sent_downstream_finish /\ sent_downstream_finish'
          /\ client_status = "none" /\ client_status' # "none"
          /\ client_status' = "OK" => ok /\ status_from_upstream = "OK"
          /\ delivered' = delivered
      BY <1>4 DEF ClientEnd, Status
    <2>2. ResponsesPassedOn'
      BY <2>1 DEF ResponsesPassedOn
    <2>3. ASSUME client_status' = "OK" PROVE b_closed = "OK" /\ Len(delivered) = b_sent
      <3>1. /\ 1 \in 1..Len(tags) /\ tags[1].op = "finish" /\ Len(tags) \in Nat
        BY <1>0, <1>4, <2>1, <2>3
      <3>2. /\ status_from_upstream = b_closed /\ (b_closed = "OK" => b_read = b_sent)
            /\ \A i \in 1..Len(tags) : tags[i] # [op |-> "read", ok |-> TRUE]
        BY <1>0, <3>1 DEF FinishIsLast
      <3>3. ~HasTag("read", TRUE)
        BY <3>2 DEF HasTag
      <3>4. b_read = Len(delivered)
        BY <1>0, <2>1, <3>3 DEF ResponsesPassedOn
      <3> QED BY <2>1, <2>3, <3>2, <3>4
    <2>4. Relay!End
      BY <2>1, <2>3 DEF Relay!End
    <2> QED BY <1>0, <1>1, <2>2, <2>4 DEF RelayInvariant, Relay!RelayNext
  <1> QED BY <1>2, <1>3, <1>4

LEMMA RelayStep ==
  ASSUME ~Transcoding, RelayInvariant, [Next]_vars
  PROVE  RelayInvariant' /\ [Relay!RelayNext]_(Relay!relayVars)
  <1>0. /\ FlowInvariant /\ FlowInvariant' /\ TypeOK /\ TagsOutstanding
        /\ FinishIsLast /\ ResponsesPassedOn /\ b_read <= b_sent
        /\ b_read \in Nat /\ b_sent \in Nat
    BY NextPreserves DEF RelayInvariant, FlowInvariant, TypeOK
  <1>1. ASSUME tags' = tags,
               UNCHANGED <<b_sent, b_read, b_closed, resp_buf, status_from_upstream>>,
               ClientQuiet \/ ClientEnd(FALSE)
        PROVE  RelayInvariant' /\ [Relay!RelayNext]_(Relay!relayVars)
    BY <1>0, <1>1, RelayClientStep
  <1>2. ASSUME tags' = tags,
               UNCHANGED <<delivered, client_status, sent_downstream_finish, request>>
        PROVE  ClientQuiet
    <2>1. HasTag("read", TRUE)' <=> HasTag("read", TRUE)
      BY <1>2, OpKinds, SameQueue
    <2> QED BY <1>2, <2>1, Zenon DEF ClientQuiet
  <1>3. ASSUME NEW o, NEW st \in Status \ {"OK"}, StartDownstreamFinish(o, st)
        PROVE  ClientQuiet \/ ClientEnd(FALSE)
    <2>1. ClientQuiet \/ ClientEnd(st = "OK")
      BY <1>0, <1>3, FinishToClient
    <2> QED BY <2>1 DEF ClientEnd
  <1>4. CASE Start
    <2>1. UNCHANGED <<tags, b_sent, b_read, b_closed, resp_buf, status_from_upstream>>
      BY <1>4 DEF Start, backendVars
    <2>2. CASE StartDownstreamFinish(ops, "INTERNAL")
      BY <1>1, <1>3, <2>1, <2>2, Statuses
    <2>3. CASE UNCHANGED <<sent_downstream_finish, callVars, outVars>>
      BY <1>1, <1>2, <2>1, <2>3 DEF callVars, outVars
    <2> QED BY <1>4, <2>2, <2>3 DEF Start
  <1>5. CASE OnTag
    <2>1. PICK op \in OpKind, ok \in BOOLEAN : RunTag(op, ok) /\ (OnFinishTag => op = "finish")
      <3>1. CASE OnFinishTag
        BY <3>1, OpKinds DEF OnFinishTag
      <3>2. CASE ~OnFinishTag
        BY <1>5, <3>2, OpKinds
           DEF OnTag, OnCallTag, OnInitialMetadataTag, OnReadTag, OnWriteTag,
               OnWritesDoneTag
      <3> QED BY <3>1, <3>2
    <2>2. /\ UNCHANGED <<b_sent, b_read, b_closed, resp_buf, status_from_upstream>>
          /\ tags # <<>> /\ tags' = Tail(tags) /\ Head(tags).op = op
      BY <2>1 DEF RunTag, backendVars
    <2>3. \/ ClientQuiet \/ ClientDeliver \/ ClientEnd(FALSE)
          \/ OnFinishTag /\ ClientEnd(TRUE)
      BY <1>0, <1>5, ClientTags
    <2> QED BY <1>0, <2>1, <2>2, <2>3, RelayClientStep
  <1>6. CASE OnDownstreamReadable
    <2>1. /\ UNCHANGED <<tags, b_sent, b_read, b_closed, resp_buf, status_from_upstream,
                         sent_downstream_finish>>
          /\ RunPendingRead(ops)
      BY <1>6 DEF OnDownstreamReadable, backendVars
    <2> QED BY <1>1, <1>2, <2>1, ReadLeavesClient
  <1>7. CASE OnDownstreamWriteable
    <2>1. UNCHANGED <<tags, b_sent, b_read, b_closed, resp_buf, status_from_upstream>>
      BY <1>7 DEF OnDownstreamWriteable, backendVars
    <2>2. CASE StartDownstreamFinish(ops, "UNKNOWN")
      BY <1>1, <1>3, <2>1, <2>2, Statuses
    <2>3. CASE UNCHANGED <<sent_downstream_finish, request, outVars>>
      BY <1>1, <1>2, <2>1, <2>3 DEF outVars
    <2> QED BY <1>7, <2>2, <2>3 DEF OnDownstreamWriteable
  <1>8. CASE FreeLingering
    <2>1. /\ UNCHANGED <<tags, b_sent, b_read, b_closed, resp_buf, status_from_upstream,
                         sent_downstream_finish, delivered, client_status>>
          /\ request = "lingering"
      BY <1>8 DEF FreeLingering, outVars, backendVars
    <2>2. sent_downstream_finish'
      BY <1>0, <2>1 DEF ResponsesPassedOn
    <2> QED BY <1>1, <2>1, <2>2 DEF ClientQuiet
  <1>9. CASE CompleteOp
    <2>1. RelayInvariant' /\ UNCHANGED <<delivered, client_status, b_sent, b_closed>>
      BY <1>0, <1>9, RelayCompletions
    <2> QED BY <2>1 DEF Relay!relayVars
  <1>10. CASE OnHttpBlockReading \/ DestroyFlow \/ Client \/ Backend \/ UNCHANGED vars
    <2>1. /\ UNCHANGED <<tags, b_read, resp_buf, status_from_upstream,
                         sent_downstream_finish, delivered, client_status, request>>
          /\ \/ UNCHANGED <<b_sent, b_closed>>
             \/ /\ b_closed = "open" /\ b_closed' \in {"OK", "ERR", "CANCELLED"}
                /\ b_sent' = b_sent
             \/ b_closed = "open" /\ BackendSend
      <3>1. CASE OnHttpBlockReading
        BY <3>1 DEF OnHttpBlockReading, outVars
      <3>2. CASE DestroyFlow
        BY <3>2 DEF DestroyFlow, flowVars, opVars, callVars, outVars
      <3>3. CASE Client
        BY <3>3 DEF Client, ClientSend, ClientHalfClose, ClientReset, flowVars, opVars,
                    callVars, outVars, backendVars
      <3>4. CASE BackendSend
        BY <3>4 DEF BackendSend, flowVars, opVars, callVars, outVars
      <3>5. CASE BackendClose
        BY <3>5 DEF BackendClose, flowVars, opVars, callVars, outVars
      <3>6. CASE UNCHANGED vars
        BY <3>6 DEF vars, flowVars, opVars, callVars, outVars, backendVars
      <3> QED BY <1>10, <3>1, <3>2, <3>3, <3>4, <3>5, <3>6 DEF Backend
    <2>2. CASE UNCHANGED <<b_sent, b_closed>>
      BY <1>1, <1>2, <2>1, <2>2
    <2>3. ClientQuiet
      BY <1>2, <2>1
    <2>4. ResponsesPassedOn'
      BY <1>0, <2>1, <2>3 DEF ClientQuiet, ResponsesPassedOn
    <2>5. b_closed = "open" => FinishIsLast'
      BY <1>0, <2>1, FinishStaysLast
    <2>6. CASE /\ b_closed = "open" /\ b_closed' \in {"OK", "ERR", "CANCELLED"}
               /\ b_sent' = b_sent
      <3>1. Relay!Close
        BY <2>1, <2>6 DEF Relay!Close
      <3> QED BY <1>0, <2>1, <2>4, <2>5, <2>6, <3>1 DEF RelayInvariant, Relay!RelayNext
    <2>7. CASE b_closed = "open" /\ BackendSend
      <3>1. b_sent < MaxResp /\ b_sent' = b_sent + 1 /\ b_closed' = b_closed
        BY <2>7 DEF BackendSend
      <3>2. Relay!Send
        BY <2>1, <2>7, <3>1 DEF Relay!Send
      <3>3. b_read' <= b_sent'
        BY <1>0, <2>1, <3>1
      <3> QED BY <1>0, <2>4, <2>5, <2>7, <3>2, <3>3 DEF RelayInvariant, Relay!RelayNext
    <2> QED BY <2>1, <2>2, <2>6, <2>7
  <1> QED BY <1>4, <1>5, <1>6, <1>7, <1>8, <1>9, <1>10 DEF Next, OnEvent

(* The pass-through flow implements RpcRelay, for any number of messages:    *)
(* the client sees a prefix of the backend's responses, one final status and *)
(* nothing after it, and OK only if the backend said OK and every response   *)
(* has been passed on.                                                       *)
THEOREM PassThroughRelays == ~Transcoding => (Spec => RelaysFaithfully)
  <1>0. SUFFICES ASSUME ~Transcoding PROVE Spec => RelaysFaithfully
    OBVIOUS
  <1>1. Init => RelayInvariant /\ Relay!RelayInit
    <2> SUFFICES ASSUME Init PROVE RelayInvariant /\ Relay!RelayInit
      OBVIOUS
    <2>1. FlowInvariant
      BY InitEstablishes
    <2>2. /\ tags = <<>> /\ delivered = <<>> /\ b_sent = 0 /\ b_read = 0
          /\ b_closed = "open" /\ request = "active" /\ client_status = "none"
      BY <1>0 DEF Init
    <2>3. ~HasTag("read", TRUE) /\ FinishIsLast /\ Len(delivered) = 0
      BY <2>2 DEF HasTag, FinishIsLast
    <2> QED BY <2>1, <2>2, <2>3 DEF RelayInvariant, ResponsesPassedOn, Relay!RelayInit
  <1>2. RelayInvariant /\ [Next]_vars =>
          RelayInvariant' /\ [Relay!RelayNext]_(Relay!relayVars)
    BY <1>0, RelayStep
  <1> QED BY <1>1, <1>2, PTL DEF Spec, RelaysFaithfully, Relay!RelaySpec
=============================================================================

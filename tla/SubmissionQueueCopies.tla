------------------------ MODULE SubmissionQueueCopies ------------------------
(***************************************************************************)
(* How many copies of a submission there are, and what that makes of its   *)
(* outcome: one copy at a time, a published success that stays, no stored  *)
(* job that comes back.                                                    *)
(*                                                                         *)
(* The argument counts.  A step moves, drops or (when a reply is lost)     *)
(* doubles entries, so Copies(j) grows only with env["reply_lost"]; the    *)
(* entries of a stored job are exactly those the batch thread still has to *)
(* report, and of a job reported as stored there is none.                  *)
(***************************************************************************)
EXTENDS SubmissionQueueProofs, FiniteSetTheorems

-----------------------------------------------------------------------------
(* How often a job occurs in a sequence of entries. *)

At(j, s) == {i \in DOMAIN s : s[i].job = j}

LEMMA AtFinite ==
  ASSUME NEW s \in Seq(Entry), NEW j
  PROVE  /\ IsFiniteSet(At(j, s))
         /\ Occurrences(j, s) = Cardinality(At(j, s))
         /\ Occurrences(j, s) \in Nat
<1>1. IsFiniteSet(DOMAIN s)
  BY FS_Interval
<1>2. IsFiniteSet(At(j, s))
  BY <1>1, FS_Subset DEF At
<1>3. Occurrences(j, s) = Cardinality(At(j, s))
  BY DEF Occurrences, At
<1> QED  BY <1>2, <1>3, FS_CardinalityType

LEMMA OccursEmpty == \A j : Occurrences(j, <<>>) = 0
<1> SUFFICES ASSUME NEW j PROVE Occurrences(j, <<>>) = 0
  OBVIOUS
<1>1. At(j, <<>>) = {}
  BY DEF At
<1> QED  BY <1>1, FS_EmptySet DEF Occurrences, At

LEMMA OccursIn ==
  ASSUME NEW s \in Seq(Entry), NEW j
  PROVE  j \in JobsIn(s) <=> Occurrences(j, s) >= 1
<1>1. j \in JobsIn(s) <=> At(j, s) # {}
  BY DEF JobsIn, At
<1>2. At(j, s) = {} <=> Occurrences(j, s) = 0
  BY AtFinite, FS_EmptySet
<1> QED  BY <1>1, <1>2, AtFinite

LEMMA OccursAppend ==
  ASSUME NEW s \in Seq(Entry), NEW e \in Entry, NEW j
  PROVE  /\ Occurrences(j, Append(s, e)) \in Nat
         /\ Occurrences(j, Append(s, e))
              = Occurrences(j, s) + (IF e.job = j THEN 1 ELSE 0)
<1>1. /\ Len(s) \in Nat /\ DOMAIN s = 1..Len(s)
      /\ DOMAIN Append(s, e) = 1..(Len(s) + 1)
      /\ Append(s, e)[Len(s) + 1] = e
      /\ \A i \in 1..Len(s) : Append(s, e)[i] = s[i]
  OBVIOUS
<1>2. (Len(s) + 1) \notin At(j, s)
  BY <1>1 DEF At
<1>3. At(j, Append(s, e))
        = IF e.job = j THEN At(j, s) \cup {Len(s) + 1} ELSE At(j, s)
  BY <1>1 DEF At
<1>4. Append(s, e) \in Seq(Entry)
  OBVIOUS
<1>5. Cardinality(At(j, s) \cup {Len(s) + 1}) = Cardinality(At(j, s)) + 1
  BY <1>2, AtFinite, FS_AddElement
<1>6. Occurrences(j, Append(s, e)) = Cardinality(At(j, Append(s, e)))
  BY <1>4, AtFinite
<1>7. Occurrences(j, s) = Cardinality(At(j, s)) /\ Occurrences(j, s) \in Nat
  BY AtFinite
<1> QED  BY <1>3, <1>5, <1>6, <1>7

\* The places of a job, all moved by the same distance.
LEMMA Moved ==
  ASSUME NEW S \in SUBSET Nat, IsFiniteSet(S), NEW n \in Nat
  PROVE  LET T == {i + n : i \in S}
         IN  IsFiniteSet(T) /\ Cardinality(T) = Cardinality(S)
<1> DEFINE T == {i + n : i \in S}
           f == [i \in S |-> i + n]
<1>1. f \in Bijection(S, T)
  <2>1. f \in [S -> T] /\ \A i \in S : f[i] = i + n
    OBVIOUS
  <2>2. \A i, k \in S : f[i] = f[k] => i = k
    BY <2>1
  <2>3. \A t \in T : \E i \in S : f[i] = t
    BY <2>1
  <2> HIDE DEF f, T
  <2>4. f \in Injection(S, T)
    BY <2>1, <2>2 DEF Injection, IsInjective
  <2>5. f \in Surjection(S, T)
    BY <2>1, <2>3 DEF Surjection
  <2> QED  BY <2>4, <2>5 DEF Bijection
<1>2. ExistsBijection(S, T)
  BY <1>1 DEF ExistsBijection
<1> QED  BY <1>2, FS_Bijection

LEMMA OccursTail ==
  ASSUME NEW s \in Seq(Entry), s # <<>>, NEW j
  PROVE  /\ Occurrences(j, Tail(s)) \in Nat
         /\ Occurrences(j, s)
              = Occurrences(j, Tail(s)) + (IF Head(s).job = j THEN 1 ELSE 0)
<1> DEFINE T == {i + 1 : i \in At(j, Tail(s))}
<1>1. /\ Len(s) \in Nat \ {0} /\ DOMAIN s = 1..Len(s) /\ Head(s) = s[1]
      /\ Tail(s) \in Seq(Entry) /\ DOMAIN Tail(s) = 1..(Len(s) - 1)
      /\ \A i \in 1..(Len(s) - 1) : Tail(s)[i] = s[i + 1]
  OBVIOUS
<1>2. At(j, Tail(s)) \in SUBSET Nat
  BY <1>1 DEF At
<1>3. IsFiniteSet(T) /\ Cardinality(T) = Occurrences(j, Tail(s))
  BY <1>1, <1>2, AtFinite, Moved, 1 \in Nat
<1>4. 1 \notin T
  BY <1>1 DEF At
<1>5. T = At(j, s) \ {1}
  <2>1. ASSUME NEW i \in At(j, s) \ {1}  PROVE i \in T
    <3>1. i - 1 \in At(j, Tail(s))
      BY <1>1, <2>1 DEF At
    <3>2. i = (i - 1) + 1
      BY <1>1, <2>1 DEF At
    <3> QED  BY <3>1, <3>2
  <2>2. T \subseteq At(j, s) \ {1}
    BY <1>1, <1>2 DEF At
  <2> QED  BY <2>1, <2>2
<1>6. 1 \in At(j, s) <=> Head(s).job = j
  BY <1>1 DEF At
<1>7. At(j, s) = IF Head(s).job = j THEN T \cup {1} ELSE T
  BY <1>5, <1>6
<1>8. Cardinality(T \cup {1}) = Cardinality(T) + 1
  BY <1>3, <1>4, FS_AddElement
<1>9. Occurrences(j, s) = Cardinality(At(j, s)) /\ Occurrences(j, Tail(s)) \in Nat
  BY <1>1, AtFinite
<1> HIDE DEF T
<1> QED  BY <1>3, <1>7, <1>8, <1>9

LEMMA OccursConcat ==
  ASSUME NEW s \in Seq(Entry), NEW t \in Seq(Entry), NEW j
  PROVE  Occurrences(j, s \o t) = Occurrences(j, s) + Occurrences(j, t)
<1> DEFINE T == {i + Len(s) : i \in At(j, t)}
<1>1. /\ Len(s) \in Nat /\ Len(t) \in Nat /\ s \o t \in Seq(Entry)
      /\ DOMAIN s = 1..Len(s) /\ DOMAIN t = 1..Len(t)
      /\ DOMAIN (s \o t) = 1..(Len(s) + Len(t))
  OBVIOUS
<1>2. /\ \A i \in 1..Len(s) : (s \o t)[i] = s[i]
      /\ \A i \in 1..Len(t) : (s \o t)[i + Len(s)] = t[i]
  BY <1>1
<1>3. At(j, t) \in SUBSET Nat /\ At(j, s) \subseteq 1..Len(s)
  BY <1>1 DEF At
<1>4. IsFiniteSet(T) /\ Cardinality(T) = Occurrences(j, t)
  BY <1>1, <1>3, AtFinite, Moved
<1>5. At(j, s) \cap T = {}
  BY <1>1, <1>3 DEF At
<1>6. At(j, s \o t) = At(j, s) \cup T
  <2>1. ASSUME NEW i \in At(j, s \o t)  PROVE i \in At(j, s) \cup T
    <3>1. CASE i <= Len(s)
      BY <1>1, <1>2, <2>1, <3>1 DEF At
    <3>2. CASE i > Len(s)
      <4> DEFINE k == i - Len(s)
      <4>1. k \in 1..Len(t) /\ i = k + Len(s)
        BY <1>1, <2>1, <3>2 DEF At
      <4>2. t[k].job = j
        BY <1>2, <2>1, <4>1 DEF At
      <4>3. k \in At(j, t)
        BY <1>1, <4>1, <4>2 DEF At
      <4> HIDE DEF k
      <4> QED  BY <4>1, <4>3
    <3> QED  BY <1>1, <2>1, <3>1, <3>2 DEF At
  <2>2. At(j, s) \subseteq At(j, s \o t)
    BY <1>1, <1>2 DEF At
  <2>3. T \subseteq At(j, s \o t)
    BY <1>1, <1>2 DEF At
  <2> QED  BY <2>1, <2>2, <2>3
<1>7. Cardinality(At(j, s) \cup T) = Cardinality(At(j, s)) + Cardinality(T)
  <2>1. Cardinality(At(j, s) \cap T) = 0
    BY <1>5, FS_EmptySet
  <2>2. Cardinality(At(j, s) \cup T)
          = Cardinality(At(j, s)) + Cardinality(T) - Cardinality(At(j, s) \cap T)
    BY <1>4, AtFinite, FS_Union
  <2>3. Cardinality(At(j, s)) \in Nat /\ Cardinality(T) \in Nat
    BY <1>4, AtFinite, FS_CardinalityType
  <2> HIDE DEF T
  <2> QED  BY <2>1, <2>2, <2>3
<1>8. /\ Occurrences(j, s \o t) = Cardinality(At(j, s \o t))
      /\ Occurrences(j, s) = Cardinality(At(j, s))
  BY <1>1, AtFinite
<1> HIDE DEF T
<1> QED  BY <1>4, <1>6, <1>7, <1>8

-----------------------------------------------------------------------------
(* How many copies of a job there are, and what a step does to them. *)

Hands(j) == {w \in Workers : hand[w].job = j}
Aside(j) == IF j \in dead \cup spool THEN 1 ELSE 0
One(e, j) == IF e.job = j THEN 1 ELSE 0

LEMMA CopyParts ==
  ASSUME TypeOK, NEW j \in Jobs
  PROVE  /\ Occurrences(j, queue) \in Nat /\ Occurrences(j, batchQ) \in Nat
         /\ Occurrences(j, batch) \in Nat /\ Occurrences(j, persisted) \in Nat
         /\ Occurrences(j, failed) \in Nat /\ Occurrences(j, rest) \in Nat
         /\ IsFiniteSet(Hands(j)) /\ Cardinality(Hands(j)) \in Nat
         /\ Aside(j) \in {0, 1}
         /\ env["reply_lost"] \in Nat
         /\ Copies(j) = Occurrences(j, queue) + Occurrences(j, batchQ)
              + Occurrences(j, batch) + Occurrences(j, persisted)
              + Occurrences(j, failed) + Occurrences(j, rest)
              + Cardinality(Hands(j)) + Aside(j)
<1>1. IsFiniteSet(Hands(j))
  BY QueueAssumption, FS_Subset DEF Hands
<1>2. Cardinality(Hands(j)) \in Nat
  BY <1>1, FS_CardinalityType
<1>3. env["reply_lost"] \in Nat
  BY EventNames DEF TypeOK
<1>4. Copies(j) = Occurrences(j, queue) + Occurrences(j, batchQ)
        + Occurrences(j, batch) + Occurrences(j, persisted)
        + Occurrences(j, failed) + Occurrences(j, rest)
        + Cardinality(Hands(j)) + Aside(j)
  BY DEF Copies, Hands, Aside
<1>5. Aside(j) \in {0, 1}
  BY DEF Aside
<1> QED  BY <1>1, <1>2, <1>3, <1>4, <1>5, AtFinite DEF TypeOK

LEMMA CopyPartsNext ==
  ASSUME TypeOK', NEW j \in Jobs
  PROVE  /\ Occurrences(j, queue') \in Nat /\ Occurrences(j, batchQ') \in Nat
         /\ Occurrences(j, batch') \in Nat /\ Occurrences(j, persisted') \in Nat
         /\ Occurrences(j, failed') \in Nat /\ Occurrences(j, rest') \in Nat
         /\ Cardinality(Hands(j)') \in Nat /\ Aside(j)' \in {0, 1}
         /\ Copies(j)' = Occurrences(j, queue') + Occurrences(j, batchQ')
              + Occurrences(j, batch') + Occurrences(j, persisted')
              + Occurrences(j, failed') + Occurrences(j, rest')
              + Cardinality(Hands(j)') + Aside(j)'
<1>1. IsFiniteSet(Hands(j)')
  BY QueueAssumption, FS_Subset DEF Hands
<1>2. Copies(j)' = Occurrences(j, queue') + Occurrences(j, batchQ')
        + Occurrences(j, batch') + Occurrences(j, persisted')
        + Occurrences(j, failed') + Occurrences(j, rest')
        + Cardinality(Hands(j)') + Aside(j)'
  BY DEF Copies, Hands, Aside
<1>3. Aside(j)' \in {0, 1}
  BY DEF Aside
<1> QED  BY <1>1, <1>2, <1>3, AtFinite, FS_CardinalityType DEF TypeOK

LEMMA NoCopy ==
  ASSUME TypeOK, NEW j \in Jobs, Copies(j) = 0
  PROVE  /\ Occurrences(j, queue) = 0 /\ Occurrences(j, batchQ) = 0
         /\ Occurrences(j, batch) = 0 /\ Occurrences(j, persisted) = 0
         /\ Occurrences(j, failed) = 0 /\ Occurrences(j, rest) = 0
         /\ Cardinality(Hands(j)) = 0 /\ Aside(j) = 0
<1> DEFINE a == Occurrences(j, queue)      b == Occurrences(j, batchQ)
           c == Occurrences(j, batch)      d == Occurrences(j, persisted)
           e == Occurrences(j, failed)     f == Occurrences(j, rest)
           g == Cardinality(Hands(j))      h == Aside(j)
<1>1. /\ a \in Nat /\ b \in Nat /\ c \in Nat /\ d \in Nat
      /\ e \in Nat /\ f \in Nat /\ g \in Nat /\ h \in Nat
  BY CopyParts
<1>2. a + b + c + d + e + f + g + h = 0
  BY CopyParts
<1> HIDE DEF a, b, c, d, e, f, g, h
<1>3. /\ a = 0 /\ b = 0 /\ c = 0 /\ d = 0
      /\ e = 0 /\ f = 0 /\ g = 0 /\ h = 0
  BY <1>1, <1>2
<1> QED  BY <1>3 DEF a, b, c, d, e, f, g, h

\* The copies of a job, told apart from those in persisted and put aside.
LEMMA CopyBounds ==
  ASSUME TypeOK, NEW j \in Jobs
  PROVE  /\ Copies(j) \in Nat /\ Occurrences(j, persisted) \in Nat
         /\ Occurrences(j, persisted) + Aside(j) <= Copies(j)
         /\ Aside(j) \in {0, 1}
<1> DEFINE a == Occurrences(j, queue)      b == Occurrences(j, batchQ)
           c == Occurrences(j, batch)      d == Occurrences(j, persisted)
           e == Occurrences(j, failed)     f == Occurrences(j, rest)
           g == Cardinality(Hands(j))      h == Aside(j)
<1>1. /\ a \in Nat /\ b \in Nat /\ c \in Nat /\ d \in Nat
      /\ e \in Nat /\ f \in Nat /\ g \in Nat /\ h \in {0, 1}
  BY CopyParts
<1>2. Copies(j) = a + b + c + d + e + f + g + h
  BY CopyParts
<1> HIDE DEF a, b, c, d, e, f, g, h
<1>3. Copies(j) \in Nat /\ d + h <= Copies(j)
  BY <1>1, <1>2
<1> QED  BY <1>1, <1>3 DEF d, h

LEMMA CopyBoundsNext ==
  ASSUME TypeOK', NEW j \in Jobs
  PROVE  /\ Copies(j)' \in Nat /\ Occurrences(j, persisted') \in Nat
         /\ Occurrences(j, persisted') + Aside(j)' <= Copies(j)'
         /\ Aside(j)' \in {0, 1}
<1> DEFINE a == Occurrences(j, queue')      b == Occurrences(j, batchQ')
           c == Occurrences(j, batch')      d == Occurrences(j, persisted')
           e == Occurrences(j, failed')     f == Occurrences(j, rest')
           g == Cardinality(Hands(j)')      h == Aside(j)'
<1>1. /\ a \in Nat /\ b \in Nat /\ c \in Nat /\ d \in Nat
      /\ e \in Nat /\ f \in Nat /\ g \in Nat /\ h \in {0, 1}
  BY CopyPartsNext
<1>2. Copies(j)' = a + b + c + d + e + f + g + h
  BY CopyPartsNext
<1> DEFINE x == Copies(j)'
<1>x. x = a + b + c + d + e + f + g + h
  BY <1>2
<1> HIDE DEF a, b, c, d, e, f, g, h, x
<1>3. x \in Nat /\ d + h <= x
  BY <1>1, <1>x
<1> QED  BY <1>1, <1>3 DEF d, h, x

\* A job whose only copies are in persisted.
LEMMA OnlyPersisted ==
  ASSUME TypeOK, NEW j \in Jobs, Copies(j) = Occurrences(j, persisted)
  PROVE  /\ Occurrences(j, queue) = 0 /\ Occurrences(j, batchQ) = 0
         /\ Occurrences(j, batch) = 0 /\ Occurrences(j, failed) = 0
         /\ Occurrences(j, rest) = 0
         /\ Cardinality(Hands(j)) = 0 /\ Aside(j) = 0
<1> DEFINE a == Occurrences(j, queue)      b == Occurrences(j, batchQ)
           c == Occurrences(j, batch)      d == Occurrences(j, persisted)
           e == Occurrences(j, failed)     f == Occurrences(j, rest)
           g == Cardinality(Hands(j))      h == Aside(j)
<1>1. /\ a \in Nat /\ b \in Nat /\ c \in Nat /\ d \in Nat
      /\ e \in Nat /\ f \in Nat /\ g \in Nat /\ h \in Nat
  BY CopyParts
<1>2. a + b + c + d + e + f + g + h = d
  BY CopyParts
<1> HIDE DEF a, b, c, d, e, f, g, h
<1>3. a = 0 /\ b = 0 /\ c = 0 /\ e = 0 /\ f = 0 /\ g = 0 /\ h = 0
  BY <1>1, <1>2
<1> QED  BY <1>3 DEF a, b, c, e, f, g, h

LEMMA HandTakes ==
  ASSUME TypeOK, NEW w \in Workers, NEW e \in Entry, NEW j \in Jobs,
         hand[w] = NoEntry, hand' = [hand EXCEPT ![w] = e]
  PROVE  Cardinality(Hands(j)') = Cardinality(Hands(j)) + One(e, j)
<1>1. IsFiniteSet(Hands(j)) /\ Cardinality(Hands(j)) \in Nat
  BY CopyParts
<1>2. w \notin Hands(j)
  BY QueueAssumption DEF Hands, NoEntry, NoJob
<1>3. Hands(j)' = IF e.job = j THEN Hands(j) \cup {w} ELSE Hands(j)
  BY <1>2 DEF Hands, TypeOK
<1>4. Cardinality(Hands(j) \cup {w}) = Cardinality(Hands(j)) + 1
  BY <1>1, <1>2, FS_AddElement
<1> QED  BY <1>1, <1>3, <1>4 DEF One

LEMMA HandPuts ==
  ASSUME TypeOK, NEW w \in Workers, NEW j \in Jobs,
         hand[w] \in Entry, hand' = [hand EXCEPT ![w] = NoEntry]
  PROVE  Cardinality(Hands(j)) = Cardinality(Hands(j)') + One(hand[w], j)
<1>1. w \notin Hands(j)' /\ IsFiniteSet(Hands(j)')
  BY QueueAssumption, FS_Subset DEF Hands, NoEntry, NoJob, TypeOK
<1>2. Hands(j) = IF hand[w].job = j THEN Hands(j)' \cup {w} ELSE Hands(j)'
  BY QueueAssumption DEF Hands, TypeOK, NoEntry, NoJob
<1>3. Cardinality(Hands(j)' \cup {w}) = Cardinality(Hands(j)') + 1
  BY <1>1, FS_AddElement
<1>4. Cardinality(Hands(j)') \in Nat
  BY <1>1, FS_CardinalityType
<1> QED  BY <1>2, <1>3, <1>4 DEF One

LEMMA ReinstateCopies ==
  ASSUME TypeOK, NEW t, NEW e \in Entry, Reinstate(t, e), NEW j \in Jobs
  PROVE  /\ Occurrences(j, queue') + Aside(j)' + env["reply_lost"]
              <= Occurrences(j, queue) + Aside(j) + One(e, j) + env'["reply_lost"]
         /\ One(e, j) = 0 => Occurrences(j, queue') + Aside(j)'
                               <= Occurrences(j, queue) + Aside(j)
<1> DEFINE q == Occurrences(j, queue)
<1>1. q \in Nat /\ Aside(j) \in {0, 1} /\ One(e, j) \in {0, 1}
      /\ env["reply_lost"] \in Nat
  BY CopyParts DEF One
<1>2. MayRetry(e) => Occurrences(j, Requeued(e)) = q + One(e, j)
  <2> SUFFICES ASSUME MayRetry(e) PROVE Occurrences(j, Requeued(e)) = q + One(e, j)
    OBVIOUS
  <2> DEFINE f == [e EXCEPT !.retries = @ + 1]
  <2>1. f \in Entry /\ f.job = e.job
    BY EntryFacts DEF Entry
  <2> HIDE DEF f
  <2>2. Occurrences(j, Append(queue, f)) = q + (IF f.job = j THEN 1 ELSE 0)
    BY <2>1, OccursAppend DEF TypeOK
  <2> QED  BY <2>1, <2>2 DEF Requeued, One, f
<1>3. ASSUME NEW r, NEW o, DeadLettered(e.job, r, o)
      PROVE  Aside(j)' <= Aside(j) + One(e, j) /\ Aside(j)' \in {0, 1}
  BY <1>3 DEF DeadLettered, Aside, One
<1> HIDE DEF q
<1>4. CASE MayRetry(e) /\ queue' = Requeued(e) /\ UNCHANGED <<dead, spool, env>>
  BY <1>1, <1>2, <1>4 DEF Aside, q
<1>5. CASE DeadLettered(e.job, Reaches(t), Reaches(t)) /\ UNCHANGED <<queue, env>>
  BY <1>1, <1>3, <1>5 DEF q
<1>6. CASE /\ Occur("write_refused") /\ UNCHANGED queue
           /\ \E onRedis, told \in BOOLEAN : DeadLettered(e.job, onRedis, told)
  <2>1. env'["reply_lost"] = env["reply_lost"]
    BY <1>6, EventNames DEF Occur, TypeOK
  <2> QED  BY <1>1, <1>3, <1>6, <2>1 DEF q
<1>7. CASE /\ MayRetry(e) /\ Occur("reply_lost") /\ queue' = Requeued(e)
           /\ DeadLettered(e.job, FALSE, FALSE)
  <2>1. env'["reply_lost"] = env["reply_lost"] + 1
    BY <1>7, EventNames DEF Occur, TypeOK
  <2>2. Aside(j)' <= Aside(j) + 1
    BY <1>1, <1>7, <1>3 DEF Aside
  <2>3. Aside(j)' \in {0, 1}
    BY <1>7, <1>3
  <2>4. Aside(j)' <= Aside(j) + One(e, j)
    BY <1>7, <1>3
  <2>5. Occurrences(j, queue') = q + One(e, j)
    BY <1>2, <1>7
  <2> QED  BY <1>1, <2>1, <2>2, <2>3, <2>4, <2>5 DEF q
<1> QED  BY <1>4, <1>5, <1>6, <1>7 DEF Reinstate

\* A step that moves no entry.
LEMMA CopiesFrame ==
  ASSUME TypeOK, NEW j \in Jobs, env'["reply_lost"] >= env["reply_lost"],
         env'["reply_lost"] \in Nat,
         UNCHANGED <<queue, batchQ, batch, persisted, failed, rest, hand, dead,
                     spool>>
  PROVE  /\ Copies(j)' + env["reply_lost"] <= Copies(j) + env'["reply_lost"]
         /\ Copies(j) = 0 => Copies(j)' = 0
<1>1. Copies(j)' = Copies(j)
  BY DEF Copies
<1>2. Copies(j) \in Nat /\ env["reply_lost"] \in Nat
  BY CopyParts
<1> QED  BY <1>1, <1>2

\* The entries that are left when some are dropped.
LEMMA HandsEmpty ==
  ASSUME NEW j \in Jobs, \A w \in Workers : hand'[w] = NoEntry
  PROVE  Cardinality(Hands(j)') = 0
<1>1. Hands(j)' = {}
  BY QueueAssumption DEF Hands, NoEntry, NoJob
<1> QED  BY <1>1, FS_EmptySet

LEMMA CopiesNext ==
  ASSUME TypeOK, Stages, [PipelineNext]_vars, NEW j \in Jobs, ~ Enqueue(j)
  PROVE  /\ Copies(j)' + env["reply_lost"] <= Copies(j) + env'["reply_lost"]
         /\ Copies(j) = 0 => Copies(j)' = 0
<1> DEFINE Goal == /\ Copies(j)' + env["reply_lost"] <= Copies(j) + env'["reply_lost"]
                   /\ Copies(j) = 0 => Copies(j)' = 0
<1> USE DEF redisVars, dbVars, workerVars, batchVars, mainVars, history
<1>e. /\ env'["reply_lost"] >= env["reply_lost"]
      /\ env'["reply_lost"] \in Nat /\ env["reply_lost"] \in Nat
  BY EnvGrows, EventNames DEF TypeOK
<1>t. TypeOK'
  BY TypeNext DEF Stages
<1>p. Copies(j)' = Occurrences(j, queue') + Occurrences(j, batchQ')
        + Occurrences(j, batch') + Occurrences(j, persisted')
        + Occurrences(j, failed') + Occurrences(j, rest')
        + Cardinality(Hands(j)') + Aside(j)'
  BY <1>t, CopyPartsNext
<1>q. /\ Occurrences(j, queue') \in Nat /\ Occurrences(j, batchQ') \in Nat
      /\ Occurrences(j, batch') \in Nat /\ Occurrences(j, persisted') \in Nat
      /\ Occurrences(j, failed') \in Nat /\ Occurrences(j, rest') \in Nat
      /\ Cardinality(Hands(j)') \in Nat /\ Aside(j)' \in {0, 1}
  BY <1>t, CopyPartsNext
<1>c. /\ Occurrences(j, queue) \in Nat /\ Occurrences(j, batchQ) \in Nat
      /\ Occurrences(j, batch) \in Nat /\ Occurrences(j, persisted) \in Nat
      /\ Occurrences(j, failed) \in Nat /\ Occurrences(j, rest) \in Nat
      /\ Cardinality(Hands(j)) \in Nat /\ Aside(j) \in {0, 1}
      /\ Copies(j) = Occurrences(j, queue) + Occurrences(j, batchQ)
           + Occurrences(j, batch) + Occurrences(j, persisted)
           + Occurrences(j, failed) + Occurrences(j, rest)
           + Cardinality(Hands(j)) + Aside(j)
  BY CopyParts
<1>0. CASE UNCHANGED vars
  BY <1>0, <1>e, CopiesFrame DEF vars
<1>1. ASSUME NEW i \in Jobs, Enqueue(i) PROVE Goal
  <2> DEFINE e == [job |-> i, retries |-> 0]
  <2>1. e \in Entry /\ One(e, j) = 0 /\ queue \in Seq(Entry)
        /\ Append(queue, e) \in Seq(Entry)
    BY <1>1, EntryFacts, SeqFacts DEF One, TypeOK
  <2>2. queue' = Append(queue, e) \/ queue' = Append(Append(queue, e), e)
    BY <1>1 DEF Enqueue
  <2>3. UNCHANGED <<batchQ, batch, persisted, failed, rest, hand, dead, spool>>
    BY <1>1 DEF Enqueue
  <2> HIDE DEF e
  <2>4. Occurrences(j, Append(queue, e)) = Occurrences(j, queue)
    BY <2>1, OccursAppend, CopyParts DEF One
  <2>5. Occurrences(j, Append(Append(queue, e), e)) = Occurrences(j, queue)
    <3> DEFINE q == Append(queue, e)
    <3>1. q \in Seq(Entry) /\ Occurrences(j, q) = Occurrences(j, queue)
      BY <2>1, <2>4
    <3> HIDE DEF q
    <3>2. Occurrences(j, Append(q, e)) = Occurrences(j, q) + (IF e.job = j THEN 1 ELSE 0)
      BY <2>1, <3>1, OccursAppend
    <3>3. Occurrences(j, Append(q, e)) = Occurrences(j, queue)
      BY <1>c, <2>1, <3>1, <3>2 DEF One
    <3> QED  BY <3>3 DEF q
  <2>a. Occurrences(j, queue') = Occurrences(j, queue)
    BY <2>2, <2>4, <2>5
  <2>u. /\ Occurrences(j, batchQ') = Occurrences(j, batchQ)
        /\ Occurrences(j, batch') = Occurrences(j, batch)
        /\ Occurrences(j, persisted') = Occurrences(j, persisted)
        /\ Occurrences(j, failed') = Occurrences(j, failed)
        /\ Occurrences(j, rest') = Occurrences(j, rest)
        /\ Hands(j)' = Hands(j) /\ Aside(j)' = Aside(j)
    BY <2>3 DEF Hands, Aside
  <2>6. Copies(j)' = Copies(j)
    BY <1>p, <1>q, <1>c, <2>a, <2>u
  <2> QED  BY <1>e, <1>c, <2>6
<1>2. ASSUME NEW w \in Workers, WorkerPop(w) PROVE Goal
  <2>1. queue # <<>> /\ queue' = Tail(queue) /\ hand' = [hand EXCEPT ![w] = Head(queue)]
        /\ UNCHANGED <<batchQ, batch, persisted, failed, rest, dead, spool>>
    BY <1>2 DEF WorkerPop, Popped
  <2>2. hand[w] = NoEntry /\ Head(queue) \in Entry
    BY <1>2, <2>1, SeqFacts DEF WorkerPop, TypeOK, Stages, ScoringHolds
  <2>3. Cardinality(Hands(j)') = Cardinality(Hands(j)) + One(Head(queue), j)
    BY <2>1, <2>2, HandTakes
  <2>4. /\ Occurrences(j, queue') \in Nat
        /\ Occurrences(j, queue) = Occurrences(j, queue') + One(Head(queue), j)
    BY <2>1, OccursTail DEF TypeOK, One
  <2>5. One(Head(queue), j) \in {0, 1} /\ Aside(j)' = Aside(j)
    BY <2>1 DEF One, Aside
  <2>u. /\ Occurrences(j, batchQ') = Occurrences(j, batchQ)
        /\ Occurrences(j, batch') = Occurrences(j, batch)
        /\ Occurrences(j, persisted') = Occurrences(j, persisted)
        /\ Occurrences(j, failed') = Occurrences(j, failed)
        /\ Occurrences(j, rest') = Occurrences(j, rest)
    BY <2>1
  <2>6. Copies(j)' = Copies(j)
    BY <1>p, <1>q, <1>c, <2>u, <2>3, <2>4, <2>5
  <2> QED  BY <1>e, <1>c, <2>6
<1>3. ASSUME NEW w \in Workers, WorkerPopNothing(w) PROVE Goal
  BY <1>3, <1>e, CopiesFrame DEF WorkerPopNothing
<1>4. ASSUME NEW w \in Workers, WorkerConnLost(w) PROVE Goal
  <2>1. CASE queue' = queue
    BY <1>4, <1>e, <2>1, CopiesFrame DEF WorkerConnLost
  <2>2. CASE queue # <<>> /\ queue' = Tail(queue)
    <3>1. UNCHANGED <<batchQ, batch, persisted, failed, rest, dead, spool, hand>>
      BY <1>4 DEF WorkerConnLost
    <3>2. Occurrences(j, queue') \in Nat /\ Occurrences(j, queue') <= Occurrences(j, queue)
      <4>1. Occurrences(j, queue) = Occurrences(j, Tail(queue)) + One(Head(queue), j)
        BY <2>2, OccursTail DEF TypeOK, One
      <4>2. queue' = Tail(queue) /\ One(Head(queue), j) \in {0, 1}
        BY <2>2 DEF One
      <4> QED  BY <1>c, <1>q, <4>1, <4>2
    <3>3. Aside(j)' = Aside(j) /\ Hands(j)' = Hands(j)
      BY <3>1 DEF Aside, Hands
    <3>u. /\ Occurrences(j, batchQ') = Occurrences(j, batchQ)
          /\ Occurrences(j, batch') = Occurrences(j, batch)
          /\ Occurrences(j, persisted') = Occurrences(j, persisted)
          /\ Occurrences(j, failed') = Occurrences(j, failed)
          /\ Occurrences(j, rest') = Occurrences(j, rest)
      BY <3>1
    <3> QED  BY <1>p, <1>q, <1>c, <1>e, <3>u, <3>2, <3>3
  <2> QED  BY <1>4, <2>1, <2>2 DEF WorkerConnLost
<1>5. ASSUME NEW w \in Workers, WorkerPush(w) PROVE Goal
  <2>1. hand[w] \in Entry
    BY <1>5 DEF WorkerPush, TypeOK, Stages, ScoringHolds
  <2>2. hand' = [hand EXCEPT ![w] = NoEntry] /\ batchQ' = Append(batchQ, hand[w])
        /\ UNCHANGED <<queue, batch, persisted, failed, rest, dead, spool>>
    BY <1>5 DEF WorkerPush
  <2>3. Cardinality(Hands(j)) = Cardinality(Hands(j)') + One(hand[w], j)
    BY <2>1, <2>2, HandPuts
  <2>4. Occurrences(j, batchQ') = Occurrences(j, batchQ) + One(hand[w], j)
    BY <2>1, <2>2, OccursAppend DEF TypeOK, One
  <2>5. One(hand[w], j) \in {0, 1} /\ Aside(j)' = Aside(j)
    BY <2>2 DEF One, Aside
  <2>6. Cardinality(Hands(j)') \in Nat
    BY <1>t, QueueAssumption, FS_Subset, FS_CardinalityType DEF Hands
  <2>u. /\ Occurrences(j, queue') = Occurrences(j, queue)
        /\ Occurrences(j, batch') = Occurrences(j, batch)
        /\ Occurrences(j, persisted') = Occurrences(j, persisted)
        /\ Occurrences(j, failed') = Occurrences(j, failed)
        /\ Occurrences(j, rest') = Occurrences(j, rest)
    BY <2>2
  <2>7. Copies(j)' = Copies(j)
    BY <1>p, <1>q, <1>c, <2>u, <2>3, <2>4, <2>5, <2>6
  <2> QED  BY <1>e, <1>c, <2>7
<1>6. CASE BatchTake
  <2>1. batch = <<>> /\ persisted = <<>> /\ failed = <<>>
    BY <1>6 DEF BatchTake, Stages, BatchStages
  <2>2. /\ batchQ' = <<>>
        /\ \/ batch' = batchQ /\ failed' = failed
           \/ batch' = batch /\ failed' = failed
           \/ batch' = batch /\ failed' = batchQ
        /\ UNCHANGED <<queue, hand, persisted, rest, dead, spool>>
    BY <1>6 DEF BatchTake
  <2>3. Aside(j)' = Aside(j) /\ Hands(j)' = Hands(j)
    BY <2>2 DEF Aside, Hands
  <2>u. /\ Occurrences(j, queue') = Occurrences(j, queue)
        /\ Occurrences(j, persisted') = Occurrences(j, persisted)
        /\ Occurrences(j, rest') = Occurrences(j, rest)
        /\ Hands(j)' = Hands(j) /\ Aside(j)' = Aside(j)
    BY <2>2 DEF Hands, Aside
  <2>v. /\ Occurrences(j, batch) = 0 /\ Occurrences(j, failed) = 0
        /\ Occurrences(j, batchQ') = 0
        /\ Occurrences(j, batch') + Occurrences(j, failed') <= Occurrences(j, batchQ)
    BY <1>c, <1>q, <2>1, <2>2, OccursEmpty
  <2>4. Copies(j)' <= Copies(j)
    BY <1>p, <1>q, <1>c, <2>u, <2>v
  <2>5. Copies(j)' \in Nat
    BY <1>p, <1>q, <1>c, <2>u, <2>v
  <2> QED  BY <1>e, <1>c, <2>4, <2>5
<1>7. CASE BatchExit
  BY <1>7, <1>e, CopiesFrame DEF BatchExit
<1>8. CASE BatchWrite
  <2>1. batch # <<>> /\ batch' = Tail(batch) /\ persisted' = Append(persisted, Head(batch))
        /\ UNCHANGED <<queue, batchQ, failed, rest, hand, dead, spool>>
    BY <1>8 DEF BatchWrite
  <2>2. Head(batch) \in Entry
    BY <2>1, SeqFacts DEF TypeOK
  <2>3. Occurrences(j, persisted') = Occurrences(j, persisted) + One(Head(batch), j)
    BY <2>1, <2>2, OccursAppend DEF TypeOK, One
  <2>4. /\ Occurrences(j, batch') \in Nat
        /\ Occurrences(j, batch) = Occurrences(j, batch') + One(Head(batch), j)
    BY <2>1, OccursTail DEF TypeOK, One
  <2>5. One(Head(batch), j) \in {0, 1} /\ Aside(j)' = Aside(j) /\ Hands(j)' = Hands(j)
    BY <2>1 DEF One, Aside, Hands
  <2>u. /\ Occurrences(j, queue') = Occurrences(j, queue)
        /\ Occurrences(j, batchQ') = Occurrences(j, batchQ)
        /\ Occurrences(j, failed') = Occurrences(j, failed)
        /\ Occurrences(j, rest') = Occurrences(j, rest)
    BY <2>1
  <2>6. Copies(j)' = Copies(j)
    BY <1>p, <1>q, <1>c, <2>u, <2>3, <2>4, <2>5
  <2> QED  BY <1>e, <1>c, <2>6
<1>9. CASE BatchWriteFails
  <2>1. batch # <<>> /\ batch' = Tail(batch) /\ failed' = Append(failed, Head(batch))
        /\ UNCHANGED <<queue, batchQ, persisted, rest, hand, dead, spool>>
    BY <1>9 DEF BatchWriteFails
  <2>2. Head(batch) \in Entry
    BY <2>1, SeqFacts DEF TypeOK
  <2>3. Occurrences(j, failed') = Occurrences(j, failed) + One(Head(batch), j)
    BY <2>1, <2>2, OccursAppend DEF TypeOK, One
  <2>4. /\ Occurrences(j, batch') \in Nat
        /\ Occurrences(j, batch) = Occurrences(j, batch') + One(Head(batch), j)
    BY <2>1, OccursTail DEF TypeOK, One
  <2>5. One(Head(batch), j) \in {0, 1} /\ Aside(j)' = Aside(j) /\ Hands(j)' = Hands(j)
    BY <2>1 DEF One, Aside, Hands
  <2>u. /\ Occurrences(j, queue') = Occurrences(j, queue)
        /\ Occurrences(j, batchQ') = Occurrences(j, batchQ)
        /\ Occurrences(j, persisted') = Occurrences(j, persisted)
        /\ Occurrences(j, rest') = Occurrences(j, rest)
    BY <2>1
  <2>6. Copies(j)' = Copies(j)
    BY <1>p, <1>q, <1>c, <2>u, <2>3, <2>4, <2>5
  <2> QED  BY <1>e, <1>c, <2>6
<1>10. CASE BatchCommit
  BY <1>10, <1>e, CopiesFrame DEF BatchCommit
<1>11. CASE BatchCommitFails
  <2>1. failed' = failed \o persisted /\ persisted' = <<>>
        /\ UNCHANGED <<queue, batchQ, batch, rest, hand, dead, spool>>
    BY <1>11 DEF BatchCommitFails, CommitFailed
  <2>2. Occurrences(j, failed') = Occurrences(j, failed) + Occurrences(j, persisted)
    BY <2>1, OccursConcat DEF TypeOK
  <2>3. Aside(j)' = Aside(j) /\ Hands(j)' = Hands(j)
    BY <2>1 DEF Aside, Hands
  <2>u. /\ Occurrences(j, queue') = Occurrences(j, queue)
        /\ Occurrences(j, batchQ') = Occurrences(j, batchQ)
        /\ Occurrences(j, batch') = Occurrences(j, batch)
        /\ Occurrences(j, rest') = Occurrences(j, rest)
        /\ Hands(j)' = Hands(j) /\ Aside(j)' = Aside(j)
    BY <2>1 DEF Hands, Aside
  <2>v. Occurrences(j, persisted') = 0
    BY <2>1, OccursEmpty
  <2>4. Copies(j)' = Copies(j)
    BY <1>p, <1>q, <1>c, <2>2, <2>u, <2>v
  <2> QED  BY <1>e, <1>c, <2>4
<1>12. CASE BatchRevoke
  BY <1>12, <1>e, CopiesFrame DEF BatchRevoke
<1>13. CASE BatchReinstate
  <2>1. Head(failed) \in Entry /\ failed # <<>> /\ failed' = Tail(failed)
        /\ UNCHANGED <<batchQ, batch, persisted, rest, hand>>
    BY <1>13, BatchReinstateEffect DEF BatchReinstate
  <2>2. /\ Occurrences(j, queue') + Aside(j)' + env["reply_lost"]
          <= Occurrences(j, queue) + Aside(j) + One(Head(failed), j) + env'["reply_lost"]
        /\ One(Head(failed), j) = 0 => Occurrences(j, queue') + Aside(j)'
                                      <= Occurrences(j, queue) + Aside(j)
    BY <1>13, BatchReinstateEffect, ReinstateCopies
  <2>3. /\ Occurrences(j, failed') \in Nat
        /\ Occurrences(j, failed) = Occurrences(j, failed') + One(Head(failed), j)
    BY <2>1, OccursTail DEF TypeOK, One
  <2>u. /\ Occurrences(j, batchQ') = Occurrences(j, batchQ)
        /\ Occurrences(j, batch') = Occurrences(j, batch)
        /\ Occurrences(j, persisted') = Occurrences(j, persisted)
        /\ Occurrences(j, rest') = Occurrences(j, rest)
    BY <2>1
  <2>4. One(Head(failed), j) \in {0, 1}
        /\ Hands(j)' = Hands(j)
    BY <2>1 DEF One, Hands
  <2>5. Copies(j)' + env["reply_lost"] <= Copies(j) + env'["reply_lost"]
    BY <1>p, <1>q, <1>c, <1>e, <2>u, <2>2, <2>3, <2>4
  <2>6. ASSUME Copies(j) = 0 PROVE Copies(j)' = 0
    <3>1. /\ Occurrences(j, queue) = 0 /\ Occurrences(j, batchQ) = 0
          /\ Occurrences(j, batch) = 0 /\ Occurrences(j, persisted) = 0
          /\ Occurrences(j, failed) = 0 /\ Occurrences(j, rest) = 0
          /\ Cardinality(Hands(j)) = 0 /\ Aside(j) = 0
      BY <2>6, NoCopy
    <3>2. One(Head(failed), j) = 0 /\ Occurrences(j, failed') = 0
      BY <2>3, <2>4, <3>1
    <3>3. Occurrences(j, queue') = 0 /\ Aside(j)' = 0
      BY <1>q, <2>2, <3>1, <3>2
    <3> QED  BY <1>p, <2>u, <2>4, <3>1, <3>2, <3>3
  <2> QED  BY <2>5, <2>6
<1>14. CASE BatchReport
  <2>1. persisted # <<>> /\ persisted' = Tail(persisted)
        /\ UNCHANGED <<queue, batchQ, batch, failed, rest, hand, dead, spool>>
    BY <1>14 DEF BatchReport
  <2>2. Occurrences(j, persisted') \in Nat
        /\ Occurrences(j, persisted') <= Occurrences(j, persisted)
    <3>1. /\ Occurrences(j, persisted') \in Nat
          /\ Occurrences(j, persisted) = Occurrences(j, persisted') + One(Head(persisted), j)
      BY <2>1, OccursTail DEF TypeOK, One
    <3>2. One(Head(persisted), j) \in {0, 1}
      BY DEF One
    <3> QED  BY <1>c, <3>1, <3>2
  <2>3. Aside(j)' = Aside(j) /\ Hands(j)' = Hands(j)
    BY <2>1 DEF Aside, Hands
  <2>u. /\ Occurrences(j, queue') = Occurrences(j, queue)
        /\ Occurrences(j, batchQ') = Occurrences(j, batchQ)
        /\ Occurrences(j, batch') = Occurrences(j, batch)
        /\ Occurrences(j, failed') = Occurrences(j, failed)
        /\ Occurrences(j, rest') = Occurrences(j, rest)
        /\ Hands(j)' = Hands(j) /\ Aside(j)' = Aside(j)
    BY <2>1 DEF Hands, Aside
  <2> QED  BY <1>p, <1>q, <1>c, <1>e, <2>u, <2>2, <2>3
<1>15. CASE BatchDone
  BY <1>15, <1>e, CopiesFrame DEF BatchDone
<1>16. CASE Stop
  BY <1>16, <1>e, CopiesFrame DEF Stop
<1>17. CASE StopDrain
  <2>1. rest' = batchQ /\ batchQ' = <<>>
        /\ UNCHANGED <<queue, batch, persisted, failed, hand, dead, spool>>
    BY <1>17 DEF StopDrain
  <2>2. Aside(j)' = Aside(j) /\ Hands(j)' = Hands(j)
    BY <2>1 DEF Aside, Hands
  <2>u. /\ Occurrences(j, queue') = Occurrences(j, queue)
        /\ Occurrences(j, batch') = Occurrences(j, batch)
        /\ Occurrences(j, persisted') = Occurrences(j, persisted)
        /\ Occurrences(j, failed') = Occurrences(j, failed)
        /\ Hands(j)' = Hands(j) /\ Aside(j)' = Aside(j)
    BY <2>1 DEF Hands, Aside
  <2>v. /\ Occurrences(j, rest') = Occurrences(j, batchQ)
        /\ Occurrences(j, batchQ') = 0
    BY <2>1, OccursEmpty
  <2>3. Copies(j)' <= Copies(j) /\ Copies(j)' \in Nat
    BY <1>p, <1>q, <1>c, <2>u, <2>v
  <2> QED  BY <1>c, <1>e, <2>3
<1>18. CASE StopReinstate
  <2>1. Head(rest) \in Entry /\ rest # <<>> /\ rest' = Tail(rest)
        /\ UNCHANGED <<batchQ, batch, persisted, failed, hand>>
    BY <1>18, StopReinstateEffect DEF StopReinstate
  <2>2. /\ Occurrences(j, queue') + Aside(j)' + env["reply_lost"]
          <= Occurrences(j, queue) + Aside(j) + One(Head(rest), j) + env'["reply_lost"]
        /\ One(Head(rest), j) = 0 => Occurrences(j, queue') + Aside(j)'
                                      <= Occurrences(j, queue) + Aside(j)
    BY <1>18, StopReinstateEffect, ReinstateCopies
  <2>3. /\ Occurrences(j, rest') \in Nat
        /\ Occurrences(j, rest) = Occurrences(j, rest') + One(Head(rest), j)
    BY <2>1, OccursTail DEF TypeOK, One
  <2>u. /\ Occurrences(j, batchQ') = Occurrences(j, batchQ)
        /\ Occurrences(j, batch') = Occurrences(j, batch)
        /\ Occurrences(j, persisted') = Occurrences(j, persisted)
        /\ Occurrences(j, failed') = Occurrences(j, failed)
    BY <2>1
  <2>4. One(Head(rest), j) \in {0, 1}
        /\ Hands(j)' = Hands(j)
    BY <2>1 DEF One, Hands
  <2>5. Copies(j)' + env["reply_lost"] <= Copies(j) + env'["reply_lost"]
    BY <1>p, <1>q, <1>c, <1>e, <2>u, <2>2, <2>3, <2>4
  <2>6. ASSUME Copies(j) = 0 PROVE Copies(j)' = 0
    <3>1. /\ Occurrences(j, queue) = 0 /\ Occurrences(j, batchQ) = 0
          /\ Occurrences(j, batch) = 0 /\ Occurrences(j, persisted) = 0
          /\ Occurrences(j, failed) = 0 /\ Occurrences(j, rest) = 0
          /\ Cardinality(Hands(j)) = 0 /\ Aside(j) = 0
      BY <2>6, NoCopy
    <3>2. One(Head(rest), j) = 0 /\ Occurrences(j, rest') = 0
      BY <2>3, <2>4, <3>1
    <3>3. Occurrences(j, queue') = 0 /\ Aside(j)' = 0
      BY <1>q, <2>2, <3>1, <3>2
    <3> QED  BY <1>p, <2>u, <2>4, <3>1, <3>2, <3>3
  <2> QED  BY <2>5, <2>6
<1>19. CASE StopDone
  BY <1>19, <1>e, CopiesFrame DEF StopDone
<1>20. CASE Crash
  <2>1. /\ batchQ' = <<>> /\ batch' = <<>> /\ persisted' = <<>>
        /\ failed' = <<>> /\ rest' = <<>>
        /\ UNCHANGED <<queue, dead, spool>>
        /\ \A w \in Workers : hand'[w] = NoEntry
    BY <1>20 DEF Crash
  <2>2. Aside(j)' = Aside(j) /\ Cardinality(Hands(j)') = 0
    BY <2>1, HandsEmpty DEF Aside
  <2>u. /\ Occurrences(j, queue') = Occurrences(j, queue)
        /\ Occurrences(j, batchQ') = 0 /\ Occurrences(j, batch') = 0
        /\ Occurrences(j, persisted') = 0 /\ Occurrences(j, failed') = 0
        /\ Occurrences(j, rest') = 0
    BY <2>1, OccursEmpty
  <2> QED  BY <1>p, <1>q, <1>c, <1>e, <2>u, <2>2
<1>21. CASE Restart
  BY <1>21, <1>e, CopiesFrame DEF Restart
<1>22. CASE RedisDown
  BY <1>22, <1>e, CopiesFrame DEF RedisDown
<1>23. CASE RedisBack
  BY <1>23, <1>e, CopiesFrame DEF RedisBack
<1>24. ASSUME NEW i \in Jobs, ResultExpires(i) PROVE Goal
  BY <1>24, <1>e, CopiesFrame DEF ResultExpires
<1>25. ASSUME NEW d \in Devices, Approve(d) PROVE Goal
  BY <1>25, <1>e, CopiesFrame DEF Approve
<1> QED
  BY <1>0, <1>1, <1>2, <1>3, <1>4, <1>5, <1>6, <1>7, <1>8, <1>9, <1>10, <1>11,
     <1>12, <1>13, <1>14, <1>15, <1>16, <1>17, <1>18, <1>19, <1>20, <1>21,
     <1>22, <1>23, <1>24, <1>25 DEF PipelineNext, WorkerStep, BatchStep,
     StopStep, Surroundings

-----------------------------------------------------------------------------
(* Nothing is duplicated. *)

\* What was never taken in is nowhere, and each repeated LPUSH adds one copy.
CopyInv ==
  \A j \in Jobs : Copies(j) <= IF j \in Taken THEN 1 + env["reply_lost"] ELSE 0

LEMMA CopyInit == Init => TypeOK /\ CopyInv
<1> SUFFICES ASSUME Init PROVE CopyInv
  BY TypeInit
<1>1. ASSUME NEW j \in Jobs PROVE Copies(j) = 0
  <2>1. \A w \in Workers : hand[w] = NoEntry
    BY DEF Init
  <2>2. Hands(j) = {}
    BY <2>1, QueueAssumption DEF Hands, NoEntry, NoJob
  <2>3. Cardinality(Hands(j)) = 0
    BY <2>2, FS_EmptySet
  <2>4. /\ queue = <<>> /\ batchQ = <<>> /\ batch = <<>> /\ persisted = <<>>
        /\ failed = <<>> /\ rest = <<>> /\ dead = {} /\ spool = {}
    BY DEF Init
  <2>5. Aside(j) = 0
    BY <2>4 DEF Aside
  <2>6. /\ Occurrences(j, queue) = 0 /\ Occurrences(j, batchQ) = 0
        /\ Occurrences(j, batch) = 0 /\ Occurrences(j, persisted) = 0
        /\ Occurrences(j, failed) = 0 /\ Occurrences(j, rest) = 0
    BY <2>4, OccursEmpty
  <2>7. Copies(j) = Occurrences(j, queue) + Occurrences(j, batchQ)
          + Occurrences(j, batch) + Occurrences(j, persisted)
          + Occurrences(j, failed) + Occurrences(j, rest)
          + Cardinality(Hands(j)) + Aside(j)
    BY DEF Copies, Hands, Aside
  <2> QED  BY <2>3, <2>5, <2>6, <2>7
<1>2. env["reply_lost"] = 0
  BY EventNames DEF Init
<1> QED  BY <1>1, <1>2 DEF CopyInv

LEMMA TakenGrows ==
  ASSUME [PipelineNext]_vars
  PROVE  Taken \subseteq Taken'
<1> DEFINE G == Taken \subseteq Taken'
<1> USE DEF redisVars, dbVars, workerVars, batchVars, mainVars, history, Taken
<1>0. CASE UNCHANGED vars
  BY <1>0 DEF vars
<1>1. ASSUME NEW i \in Jobs, Enqueue(i) PROVE G
  BY <1>1 DEF Enqueue
<1>2. ASSUME NEW w \in Workers, WorkerPop(w) PROVE G
  BY <1>2 DEF WorkerPop
<1>3. ASSUME NEW w \in Workers, WorkerPopNothing(w) PROVE G
  BY <1>3 DEF WorkerPopNothing
<1>4. ASSUME NEW w \in Workers, WorkerConnLost(w) PROVE G
  BY <1>4 DEF WorkerConnLost
<1>5. ASSUME NEW w \in Workers, WorkerPush(w) PROVE G
  BY <1>5 DEF WorkerPush
<1>6. CASE BatchTake
  BY <1>6 DEF BatchTake
<1>7. CASE BatchExit
  BY <1>7 DEF BatchExit
<1>8. CASE BatchWrite
  BY <1>8 DEF BatchWrite
<1>9. CASE BatchWriteFails
  BY <1>9 DEF BatchWriteFails
<1>10. CASE BatchCommit
  BY <1>10 DEF BatchCommit, Committed, NothingCommitted
<1>11. CASE BatchCommitFails
  BY <1>11 DEF BatchCommitFails, Committed, NothingCommitted
<1>12. CASE BatchRevoke
  BY <1>12 DEF BatchRevoke
<1>13. CASE BatchReinstate
  BY <1>13 DEF BatchReinstate
<1>14. CASE BatchReport
  BY <1>14 DEF BatchReport
<1>15. CASE BatchDone
  BY <1>15 DEF BatchDone
<1>16. CASE Stop
  BY <1>16 DEF Stop
<1>17. CASE StopDrain
  BY <1>17 DEF StopDrain
<1>18. CASE StopReinstate
  BY <1>18 DEF StopReinstate
<1>19. CASE StopDone
  BY <1>19 DEF StopDone
<1>20. CASE Crash
  BY <1>20 DEF Crash
<1>21. CASE Restart
  BY <1>21 DEF Restart
<1>22. CASE RedisDown
  BY <1>22 DEF RedisDown
<1>23. CASE RedisBack
  BY <1>23 DEF RedisBack
<1>24. ASSUME NEW i \in Jobs, ResultExpires(i) PROVE G
  BY <1>24 DEF ResultExpires
<1>25. ASSUME NEW d \in Devices, Approve(d) PROVE G
  BY <1>25 DEF Approve
<1> QED
  BY <1>0, <1>1, <1>2, <1>3, <1>4, <1>5, <1>6, <1>7, <1>8, <1>9, <1>10, <1>11,
     <1>12, <1>13, <1>14, <1>15, <1>16, <1>17, <1>18, <1>19, <1>20, <1>21,
     <1>22, <1>23, <1>24, <1>25 DEF PipelineNext, WorkerStep, BatchStep,
     StopStep, Surroundings

LEMMA CopyNext == TypeOK /\ Stages /\ CopyInv /\ [PipelineNext]_vars => CopyInv'
<1> SUFFICES ASSUME TypeOK, Stages, CopyInv, [PipelineNext]_vars, NEW j \in Jobs
             PROVE  Copies(j)' <= IF j \in Taken' THEN 1 + env'["reply_lost"] ELSE 0
  BY DEF CopyInv
<1>e. /\ env["reply_lost"] \in Nat /\ env'["reply_lost"] \in Nat
      /\ env["reply_lost"] <= env'["reply_lost"]
  BY EnvGrows, EventNames DEF TypeOK
<1>t. TypeOK'
  BY TypeNext DEF Stages
<1>c. Copies(j) \in Nat /\ Copies(j)' \in Nat
  BY <1>t, CopyBounds, CopyBoundsNext
<1>1. CASE ~ Enqueue(j)
  <2>1. /\ Copies(j)' + env["reply_lost"] <= Copies(j) + env'["reply_lost"]
        /\ Copies(j) = 0 => Copies(j)' = 0
    BY <1>1, CopiesNext
  <2>2. j \in Taken => j \in Taken'
    BY TakenGrows
  <2> QED  BY <1>c, <1>e, <2>1, <2>2 DEF CopyInv
<1>2. CASE Enqueue(j)
  <2> DEFINE e == [job |-> j, retries |-> 0]
  <2>1. Copies(j) = 0 /\ j \in Taken'
    BY <1>2, <1>c DEF Enqueue, Taken, CopyInv
  <2>2. /\ e \in Entry /\ e.job = j /\ queue \in Seq(Entry)
        /\ Append(queue, e) \in Seq(Entry)
    BY EntryFacts, SeqFacts DEF TypeOK
  <2>3. UNCHANGED <<batchQ, batch, persisted, failed, rest, hand, dead, spool>>
    BY <1>2 DEF Enqueue, workerVars, batchVars, mainVars
  <2>4. \/ queue' = Append(queue, e)
        \/ queue' = Append(Append(queue, e), e) /\ Occur("reply_lost")
    BY <1>2 DEF Enqueue
  <2> HIDE DEF e
  <2>5. Occurrences(j, Append(queue, e)) = 1
    BY <2>1, <2>2, OccursAppend, NoCopy
  <2>6. Occurrences(j, Append(Append(queue, e), e)) = 2
    <3> DEFINE q == Append(queue, e)
    <3>1. q \in Seq(Entry) /\ Occurrences(j, q) = 1
      BY <2>2, <2>5
    <3> HIDE DEF q
    <3>2. Occurrences(j, Append(q, e)) = Occurrences(j, q) + (IF e.job = j THEN 1 ELSE 0)
      BY <2>2, <3>1, OccursAppend
    <3>3. Occurrences(j, Append(q, e)) = 2
      BY <2>2, <3>1, <3>2
    <3> QED  BY <3>3 DEF q
  <2>7. Copies(j)' = Occurrences(j, queue')
    <3>1. /\ Occurrences(j, batchQ') = 0 /\ Occurrences(j, batch') = 0
          /\ Occurrences(j, persisted') = 0 /\ Occurrences(j, failed') = 0
          /\ Occurrences(j, rest') = 0
          /\ Cardinality(Hands(j)') = 0 /\ Aside(j)' = 0
      BY <2>1, <2>3, NoCopy DEF Hands, Aside
    <3>2. Copies(j)' = Occurrences(j, queue') + Occurrences(j, batchQ')
            + Occurrences(j, batch') + Occurrences(j, persisted')
            + Occurrences(j, failed') + Occurrences(j, rest')
            + Cardinality(Hands(j)') + Aside(j)'
      BY DEF Copies, Hands, Aside
    <3>3. Occurrences(j, queue') \in Nat
      <4>1. CASE queue' = Append(queue, e)
        BY <2>5, <4>1
      <4>2. CASE queue' = Append(Append(queue, e), e)
        BY <2>6, <4>2
      <4> QED  BY <2>4, <4>1, <4>2
    <3> DEFINE x == Occurrences(j, queue')
    <3>4. Copies(j)' = x + 0 + 0 + 0 + 0 + 0 + 0 + 0
      BY <3>1, <3>2
    <3>5. x \in Nat
      BY <3>3
    <3> HIDE DEF x
    <3>6. Copies(j)' = x
      BY <3>4, <3>5
    <3> QED  BY <3>6 DEF x
  <2>8. Occur("reply_lost") => env'["reply_lost"] > 0
    BY OccurFacts, EventNames DEF TypeOK
  <2>9. env'["reply_lost"] >= 0 /\ 1 <= 1 + env'["reply_lost"]
    BY <1>e
  <2>10. CASE queue' = Append(queue, e)
    BY <2>1, <2>5, <2>7, <2>9, <2>10
  <2>11. CASE queue' = Append(Append(queue, e), e) /\ Occur("reply_lost")
    BY <1>e, <2>1, <2>6, <2>7, <2>8, <2>11
  <2> QED  BY <2>4, <2>10, <2>11
<1> QED  BY <1>1, <1>2

-----------------------------------------------------------------------------
(* The steps that touch what is stored or about to be reported. *)

Reporting == bpc \in {"revoke", "settle"}

LEMMA Footprint ==
  ASSUME TypeOK, Stages, [PipelineNext]_vars
  PROVE  \/ /\ UNCHANGED <<row, saved, persisted>>
            /\ Reporting /\ persisted # <<>> => Reporting'
         \/ BatchWrite \/ BatchCommit \/ BatchCommitFails \/ BatchReport
         \/ Crash
<1> DEFINE G == /\ UNCHANGED <<row, saved, persisted>>
                /\ Reporting /\ persisted # <<>> => Reporting'
<1> USE DEF redisVars, dbVars, workerVars, batchVars, mainVars, history, Reporting
<1>0. ASSUME UNCHANGED vars PROVE G
  BY <1>0 DEF vars
<1>1. ASSUME NEW i \in Jobs, Enqueue(i) PROVE G
  BY <1>1 DEF Enqueue
<1>2. ASSUME NEW w \in Workers, WorkerPop(w) PROVE G
  BY <1>2 DEF WorkerPop
<1>3. ASSUME NEW w \in Workers, WorkerPopNothing(w) PROVE G
  BY <1>3 DEF WorkerPopNothing
<1>4. ASSUME NEW w \in Workers, WorkerConnLost(w) PROVE G
  BY <1>4 DEF WorkerConnLost
<1>5. ASSUME NEW w \in Workers, WorkerPush(w) PROVE G
  BY <1>5 DEF WorkerPush
<1>6. ASSUME BatchTake PROVE G
  BY <1>6 DEF BatchTake, Stages, BatchStages
<1>7. ASSUME BatchExit PROVE G
  BY <1>7 DEF BatchExit
<1>9. ASSUME BatchWriteFails PROVE G
  BY <1>9 DEF BatchWriteFails
<1>12. ASSUME BatchRevoke PROVE G
  BY <1>12 DEF BatchRevoke
<1>13. ASSUME BatchReinstate PROVE G
  BY <1>13 DEF BatchReinstate
<1>15. ASSUME BatchDone PROVE G
  BY <1>15 DEF BatchDone
<1>16. ASSUME Stop PROVE G
  BY <1>16 DEF Stop
<1>17. ASSUME StopDrain PROVE G
  BY <1>17 DEF StopDrain
<1>18. ASSUME StopReinstate PROVE G
  BY <1>18 DEF StopReinstate
<1>19. ASSUME StopDone PROVE G
  BY <1>19 DEF StopDone
<1>21. ASSUME Restart PROVE G
  BY <1>21 DEF Restart, Stages, BatchStages, StopStages, Joined
<1>22. ASSUME RedisDown PROVE G
  BY <1>22 DEF RedisDown
<1>23. ASSUME RedisBack PROVE G
  BY <1>23 DEF RedisBack
<1>24. ASSUME NEW i \in Jobs, ResultExpires(i) PROVE G
  BY <1>24 DEF ResultExpires
<1>25. ASSUME NEW d \in Devices, Approve(d) PROVE G
  BY <1>25 DEF Approve
<1> QED
  BY <1>0, <1>1, <1>2, <1>3, <1>4, <1>5, <1>6, <1>7, <1>9,
     <1>12, <1>13, <1>15, <1>16, <1>17, <1>18, <1>19, <1>21,
     <1>22, <1>23, <1>24, <1>25 DEF PipelineNext, WorkerStep, BatchStep,
     StopStep, Surroundings

-----------------------------------------------------------------------------
(* What is stored stays settled, and what was reported as stored is gone. *)

Surprises == env["commit_unknown"] + env["reply_lost"]

\* Entries of a stored job are left only where the batch thread reports them.
SettledInv ==
  Surprises = 0 =>
    \A j \in saved : /\ j \in Taken /\ Copies(j) = Occurrences(j, persisted)
                     /\ j \in JobsIn(persisted) => Reporting

\* No entry is left of a job whose success was published.
OkInv ==
  env["reply_lost"] = 0 =>
    \A j \in Jobs : result[j] = "ok" => j \in Taken /\ Copies(j) = 0

LEMMA NoSurprise ==
  ASSUME TypeOK, [PipelineNext]_vars
  PROVE  /\ Surprises' = 0 => /\ Surprises = 0
                              /\ env["reply_lost"] = 0 /\ env'["reply_lost"] = 0
                              /\ ~ Occur("commit_unknown")
         /\ Surprises = 0 => env["reply_lost"] = 0
         /\ env'["reply_lost"] = 0 => env["reply_lost"] = 0
<1>1. /\ env["commit_unknown"] \in Nat /\ env["reply_lost"] \in Nat
      /\ env'["commit_unknown"] \in Nat /\ env'["reply_lost"] \in Nat
      /\ env["commit_unknown"] <= env'["commit_unknown"]
      /\ env["reply_lost"] <= env'["reply_lost"]
  BY EnvGrows, EventNames DEF TypeOK
<1>2. Occur("commit_unknown") => env'["commit_unknown"] > 0
  BY OccurFacts, EventNames DEF TypeOK
<1> QED  BY <1>1, <1>2 DEF Surprises

LEMMA OkNext ==
  ASSUME TypeOK, Stages, CopyInv, OkInv, [PipelineNext]_vars
  PROVE  OkInv'
<1> SUFFICES ASSUME env'["reply_lost"] = 0, NEW j \in Jobs, result'[j] = "ok"
             PROVE  j \in Taken' /\ Copies(j)' = 0
  BY DEF OkInv
<1>1. env["reply_lost"] = 0 /\ TypeOK'
  BY NoSurprise, TypeNext DEF Stages
<1>2. CASE result[j] = "ok"
  <2>1. j \in Taken /\ Copies(j) = 0
    BY <1>1, <1>2 DEF OkInv
  <2>2. ~ Enqueue(j)
    BY <2>1 DEF Enqueue, Taken
  <2> QED  BY <2>1, <2>2, CopiesNext, TakenGrows
<1>3. CASE result[j] # "ok"
  <2>1. BatchReport
    BY <1>3, OnlyReports
  <2>2. j = Head(persisted).job /\ persisted # <<>> /\ persisted' = Tail(persisted)
        /\ UNCHANGED <<queue, batchQ, batch, failed, rest, hand, dead, spool,
                       submitted, refused>>
    BY <1>3, <2>1, ReportEffect DEF BatchReport, workerVars, mainVars, history
  <2>3. /\ Occurrences(j, persisted') \in Nat
        /\ Occurrences(j, persisted) = Occurrences(j, persisted') + 1
    BY <2>2, OccursTail DEF TypeOK
  <2>4. Copies(j) <= 1 /\ j \in Taken
    BY <1>1, <2>3, CopyBounds DEF CopyInv
  <2>5. Occurrences(j, persisted') = 0 /\ Copies(j) = Occurrences(j, persisted)
    BY <2>3, <2>4, CopyBounds
  <2>6. /\ Occurrences(j, queue') = 0 /\ Occurrences(j, batchQ') = 0
        /\ Occurrences(j, batch') = 0 /\ Occurrences(j, failed') = 0
        /\ Occurrences(j, rest') = 0
        /\ Cardinality(Hands(j)') = 0 /\ Aside(j)' = 0
    BY <2>2, <2>5, OnlyPersisted DEF Hands, Aside
  <2>7. Copies(j)' = 0
    BY <1>1, <2>5, <2>6, CopyPartsNext
  <2> QED  BY <2>2, <2>4, <2>7 DEF Taken
<1> QED  BY <1>2, <1>3

LEMMA SettledNext ==
  ASSUME TypeOK, Stages, CopyInv, SettledInv, [PipelineNext]_vars
  PROVE  SettledInv'
<1> DEFINE P(j) == /\ j \in Taken' /\ Copies(j)' = Occurrences(j, persisted')
                   /\ j \in JobsIn(persisted') => Reporting'
<1> USE DEF redisVars, dbVars, workerVars, batchVars, mainVars, history
<1> SUFFICES ASSUME Surprises' = 0, NEW j \in saved'  PROVE P(j)
  BY DEF SettledInv
<1>t. TypeOK' /\ j \in Jobs
  BY TypeNext DEF Stages, TypeOK
<1>e. /\ Surprises = 0 /\ env["reply_lost"] = 0 /\ env'["reply_lost"] = 0
      /\ ~ Occur("commit_unknown")
  BY NoSurprise
<1>b. /\ Copies(j) \in Nat /\ Occurrences(j, persisted) \in Nat
      /\ Copies(j)' \in Nat /\ Occurrences(j, persisted') \in Nat
      /\ Occurrences(j, persisted) <= Copies(j)
      /\ Occurrences(j, persisted') <= Copies(j)'
  BY <1>t, CopyBounds, CopyBoundsNext
<1>i. /\ j \in JobsIn(persisted) <=> Occurrences(j, persisted) >= 1
      /\ j \in JobsIn(persisted') <=> Occurrences(j, persisted') >= 1
  BY <1>t, OccursIn DEF TypeOK
<1>k. ASSUME Copies(j)' = 0, j \in Taken  PROVE P(j)
  BY <1>k, <1>b, <1>i, TakenGrows
<1>s. ASSUME j \in saved
      PROVE  /\ j \in Taken /\ Copies(j) = Occurrences(j, persisted)
             /\ j \in JobsIn(persisted) => Reporting
             /\ Copies(j)' <= Copies(j) /\ (Copies(j) = 0 => Copies(j)' = 0)
  <2>1. /\ j \in Taken /\ Copies(j) = Occurrences(j, persisted)
        /\ j \in JobsIn(persisted) => Reporting
    BY <1>s, <1>e DEF SettledInv
  <2>2. ~ Enqueue(j)
    BY <2>1 DEF Enqueue, Taken
  <2> QED  BY <1>t, <1>e, <1>b, <2>1, <2>2, CopiesNext
\* While the transaction is open a stored job has no entry at all.
<1>x. ASSUME j \in saved, bpc = "tx"  PROVE P(j)
  <2>1. Copies(j) = 0
    BY <1>x, <1>s, <1>i, <1>b DEF Reporting
  <2> QED  BY <1>x, <1>s, <1>k, <2>1
<1>1. CASE /\ UNCHANGED <<row, saved, persisted>>
           /\ Reporting /\ persisted # <<>> => Reporting'
  <2>1. j \in saved /\ Occurrences(j, persisted') = Occurrences(j, persisted)
    BY <1>1
  <2>2. Copies(j)' = Occurrences(j, persisted') /\ j \in Taken'
    BY <1>b, <1>s, <2>1, TakenGrows
  <2>3. j \in JobsIn(persisted') => Reporting'
    BY <1>1, <1>s, <2>1, JobsInEmpty
  <2> QED  BY <2>2, <2>3
<1>2. CASE BatchWrite
  <2>1. j \in saved /\ bpc = "tx"
    BY <1>2 DEF BatchWrite
  <2> QED  BY <1>x, <2>1
<1>3. CASE BatchCommit
  <2>1. /\ bpc = "tx" /\ persisted' = persisted /\ bpc' = "revoke"
        /\ saved' \subseteq saved \cup JobsIn(persisted)
    BY <1>3 DEF BatchCommit, NothingCommitted, Committed
  <2>2. CASE j \in saved
    BY <1>x, <2>1, <2>2
  <2>3. CASE j \notin saved
    <3>1. Occurrences(j, persisted) >= 1
      BY <1>i, <2>1, <2>3
    <3>2. Copies(j) <= 1 /\ j \in Taken
      BY <1>b, <1>e, <1>t, <3>1 DEF CopyInv
    <3>3. ~ Enqueue(j)
      BY <3>2 DEF Enqueue, Taken
    <3>4. Copies(j)' <= Copies(j)
      BY <1>t, <1>e, <1>b, <3>3, CopiesNext
    <3>5. Occurrences(j, persisted') = Occurrences(j, persisted)
      BY <2>1
    <3>6. Copies(j)' = Occurrences(j, persisted')
      BY <1>b, <3>1, <3>2, <3>4, <3>5
    <3> QED  BY <2>1, <3>2, <3>6, TakenGrows DEF Reporting
  <2> QED  BY <2>2, <2>3
<1>4. CASE BatchCommitFails
  <2>1. j \in saved /\ bpc = "tx"
    BY <1>4, <1>e DEF BatchCommitFails, NothingCommitted
  <2> QED  BY <1>x, <2>1
<1>5. CASE BatchReport
  <2>1. /\ j \in saved /\ bpc = "settle" /\ bpc' = "settle"
        /\ UNCHANGED <<queue, batchQ, batch, failed, rest, hand, dead, spool>>
    BY <1>5 DEF BatchReport
  <2>2. /\ Occurrences(j, queue') = 0 /\ Occurrences(j, batchQ') = 0
        /\ Occurrences(j, batch') = 0 /\ Occurrences(j, failed') = 0
        /\ Occurrences(j, rest') = 0
        /\ Cardinality(Hands(j)') = 0 /\ Aside(j)' = 0
    BY <1>s, <1>t, <2>1, OnlyPersisted DEF Hands, Aside
  <2>3. Copies(j)' = Occurrences(j, persisted')
    BY <1>b, <1>t, <2>2, CopyPartsNext
  <2> QED  BY <1>s, <2>1, <2>3, TakenGrows DEF Reporting
<1>6. CASE Crash
  <2>1. /\ j \in saved /\ batchQ' = <<>> /\ batch' = <<>> /\ persisted' = <<>>
        /\ failed' = <<>> /\ rest' = <<>>
        /\ UNCHANGED <<queue, dead, spool>>
        /\ \A w \in Workers : hand'[w] = NoEntry
    BY <1>6 DEF Crash
  <2>2. Occurrences(j, queue') = 0 /\ Aside(j)' = 0
    BY <1>s, <1>t, <2>1, OnlyPersisted DEF Aside
  <2>3. /\ Occurrences(j, batchQ') = 0 /\ Occurrences(j, batch') = 0
        /\ Occurrences(j, failed') = 0 /\ Occurrences(j, rest') = 0
        /\ Occurrences(j, persisted') = 0 /\ Cardinality(Hands(j)') = 0
    BY <1>t, <2>1, OccursEmpty, HandsEmpty
  <2>4. Copies(j)' = 0
    BY <1>t, <2>2, <2>3, CopyPartsNext
  <2> QED  BY <1>k, <1>s, <2>1, <2>4
<1> QED  BY <1>1, <1>2, <1>3, <1>4, <1>5, <1>6, Footprint

-----------------------------------------------------------------------------
(* The theorems about copies and outcomes. *)

CopyIInv == CopyInv /\ SettledInv /\ OkInv

LEMMA CopyIInit == Init => CopyIInv
<1> SUFFICES ASSUME Init PROVE SettledInv /\ OkInv
  BY CopyInit DEF CopyIInv
<1> QED  BY DEF Init, SettledInv, OkInv

LEMMA CopyINext == TypeOK /\ Stages /\ CopyIInv /\ [PipelineNext]_vars => CopyIInv'
  BY CopyNext, SettledNext, OkNext DEF CopyIInv

\* The invariant behind the theorems below: how many copies there are, and that
\* none is left of what is settled.
THEOREM CopiesCorrect == Spec => []CopyIInv
<1>1. TypeOK /\ Stages /\ CopyIInv /\ [Next]_vars => CopyIInv'
  BY CopyINext, NextIsPipeline
<1> QED  BY TypeCorrect, StagesCorrect, CopyIInit, <1>1, PTL DEF Spec

LEMMA FailedHasCopy ==
  ASSUME TypeOK, FailureLeavesTrail, NEW j \in Jobs, result[j] = "failed"
  PROVE  Copies(j) >= 1 + Occurrences(j, persisted)
<1>1. Aside(j) = 1
  BY DEF FailureLeavesTrail, Aside
<1> QED  BY <1>1, CopyBounds

\* An entry is in one place at a time but for the LPUSHes whose reply was lost,
\* and a submission that was reported as failed is not stored: the retries of a
\* batch that fails half-way (checked_requeue, push_failed) make no second copy
\* and no second outcome.
THEOREM OneCopyCorrect == Spec => []OneCopyOneOutcome
<1>1. TypeOK /\ FailureLeavesTrail /\ CopyIInv => OneCopyOneOutcome
  <2> SUFFICES ASSUME TypeOK, FailureLeavesTrail, CopyIInv
               PROVE  OneCopyOneOutcome
    OBVIOUS
  <2>1. SingleCopy
    <3> SUFFICES ASSUME NEW j \in Jobs PROVE Copies(j) <= 1 + env["reply_lost"]
      BY DEF SingleCopy
    <3>1. env["reply_lost"] \in Nat /\ Copies(j) \in Nat
      BY CopyParts, CopyBounds
    <3> QED  BY <3>1 DEF CopyIInv, CopyInv
  <2>2. FailureIsTruthful
    <3> SUFFICES ASSUME Surprises = 0, NEW j \in Jobs, result[j] = "failed",
                        j \in saved
                 PROVE  FALSE
      BY DEF FailureIsTruthful, Surprises
    <3>1. Copies(j) = Occurrences(j, persisted)
      BY DEF CopyIInv, SettledInv
    <3> QED  BY <3>1, FailedHasCopy, CopyBounds
  <2> QED  BY <2>1, <2>2 DEF OneCopyOneOutcome
<1> QED  BY TypeCorrect, TrailCorrect, CopiesCorrect, <1>1, PTL

LEMMA OkStaysOk ==
  ASSUME TypeOK, Stages, FailureLeavesTrail, CopyIInv, [PipelineNext]_vars,
         env["reply_lost"] = 0, NEW j \in Jobs, result[j] = "ok"
  PROVE  result'[j] # "failed"
<1> SUFFICES ASSUME result'[j] = "failed" PROVE FALSE
  OBVIOUS
<1>1. j \in Taken /\ Copies(j) = 0
  BY DEF CopyIInv, OkInv
<1>2. ~ Enqueue(j)
  BY <1>1 DEF Enqueue, Taken
<1>3. Copies(j)' = 0
  BY <1>1, <1>2, CopiesNext
<1>4. FailureLeavesTrail' /\ TypeOK'
  BY TrailNext, TypeNext DEF Stages
<1>5. Aside(j)' = 1
  BY <1>4 DEF FailureLeavesTrail, Aside
<1> QED  BY <1>3, <1>4, <1>5, CopyBoundsNext

\* A success that run_batch has published is never followed by a failure: by then
\* nothing of the job is left that a retry could put aside.
THEOREM SuccessFinal == Spec => SuccessIsFinal
<1>1. TypeOK /\ Stages /\ FailureLeavesTrail /\ CopyIInv /\ [Next]_vars
      => [env["reply_lost"] = 0 =>
            \A j \in Jobs : result[j] = "ok" => result'[j] # "failed"]_vars
  BY OkStaysOk, NextIsPipeline
<1> QED  BY TypeCorrect, StagesCorrect, TrailCorrect, CopiesCorrect, <1>1, PTL
         DEF Spec, SuccessIsFinal

\* A row changes only by a COMMIT of an entry the transaction holds.
LEMMA RowOrigin ==
  ASSUME TypeOK, Stages, RowInv, [PipelineNext]_vars,
         NEW d \in Devices, row'[d] # row[d]
  PROVE  /\ bpc = "tx" /\ row'[d].job \in JobsIn(persisted)
         /\ row'[d].kind = "scored" /\ DevOf[row'[d].job] = d
<1>1. BatchCommit \/ BatchCommitFails
  BY Footprint DEF BatchWrite, BatchReport, Crash, dbVars
<1>2. bpc = "tx" /\ Committed
  BY <1>1 DEF BatchCommit, BatchCommitFails, NothingCommitted, dbVars
<1>3. row'[d] = [kind |-> "scored", job |-> written[d]] /\ written[d] # NoJob
  BY <1>2 DEF Committed
<1> QED  BY <1>2, <1>3 DEF RowInv, TxInv

LEMMA NoneBack ==
  ASSUME TypeOK, Stages, RowInv, CopyIInv, [PipelineNext]_vars, Surprises = 0,
         NEW d \in Devices, row'[d].job # row[d].job
  PROVE  row'[d].job \notin saved \cup dead \cup spool
<1> DEFINE j == row'[d].job
<1>1. bpc = "tx" /\ j \in JobsIn(persisted)
  BY RowOrigin
<1>2. j \in Jobs /\ Occurrences(j, persisted) >= 1
  BY <1>1, JobsInType, OccursIn DEF TypeOK
<1> HIDE DEF j
<1>3. j \notin saved
  BY <1>1 DEF CopyIInv, SettledInv, Reporting
<1>4. Copies(j) <= 1
  BY <1>2, NoSurprise, CopyBounds DEF CopyIInv, CopyInv
<1>5. Aside(j) = 0
  BY <1>2, <1>4, CopyBounds
<1> QED  BY <1>3, <1>5 DEF Aside, j

\* What a COMMIT puts into a row was neither stored nor put aside before: no
\* settled submission comes back over a later one.
THEOREM NoneComesBack == Spec => NoResurrection
<1>1. TypeOK /\ Stages /\ RowInv /\ CopyIInv /\ [Next]_vars
      => [env["commit_unknown"] + env["reply_lost"] = 0 =>
            \A d \in Devices : row'[d].job # row[d].job
                             => row'[d].job \notin saved \cup dead \cup spool]_vars
  BY NoneBack, NextIsPipeline DEF Surprises
<1>2. Spec => []RowInv
  <2>1. Init => RowInv
    BY DEF Init, RowInv, TxInv, RowMatchesCommits, NothingWritten
  <2>2. TypeOK /\ Stages /\ RowInv /\ [Next]_vars => RowInv'
    BY RowNext, NextIsPipeline
  <2> QED  BY TypeCorrect, StagesCorrect, <2>1, <2>2, PTL DEF Spec
<1> QED  BY TypeCorrect, StagesCorrect, CopiesCorrect, <1>1, <1>2, PTL
         DEF Spec, NoResurrection
=============================================================================

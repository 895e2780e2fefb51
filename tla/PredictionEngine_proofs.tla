------------------------- MODULE PredictionEngine_proofs -------------------------
(***************************************************************************)
(* Proofs about PredictionEngine, for any connections, widths, limits,     *)
(* chunk lengths and failures.                                             *)
(***************************************************************************)
EXTENDS PredictionEngine, FiniteSetTheorems, SequenceTheorems, TLAPS

-----------------------------------------------------------------------------
(* The inductive invariants behind these properties.                       *)

Asked    == [row : Rows, gen : Nat, step : Nat]
Requests == [conn : Conns, rows : SUBSET Asked, wait : BOOLEAN]

\* What the properties do not tell apart is typed too.
ConnData ==
  /\ at \in [Conns -> {"idle", "resetting", "running", "asked", "finishing"}]
  /\ rows \in [Conns -> SUBSET Rows] /\ starts \in Nat
  /\ asked \in [Conns -> SUBSET Asked]

OutcomeData ==
  /\ DOMAIN outcome = Conns /\ DOMAIN got = Conns
  /\ \A c \in Conns : outcome[c].done \in BOOLEAN

RowData ==
  /\ gen \in [Rows -> Nat] /\ steps \in [Rows -> Nat]
  /\ failed \in [Rows -> BOOLEAN] /\ chunked \in [Rows -> BOOLEAN]

BufferData == buffers \in [Rows -> Seq(Asked)]

QueueData ==
  /\ limit \in Limits /\ wake \in BOOLEAN
  /\ dp \in {"sleep", "gather", "checkpoint", "model", "down"}
  /\ queue \in Seq(Requests) /\ batch \in Seq(Requests) /\ rest \in Seq(Requests)

JobData == jobs \in Seq(Conns \cup {Dispatcher}) /\ ran \subseteq Conns \cup {Dispatcher}

DataOK == ConnData /\ OutcomeData /\ RowData /\ BufferData /\ QueueData /\ JobData

\* Every row has one episode at most, and a connection no more than its slots.
RowsApart ==
  /\ \A c, d \in Conns : c # d => rows[c] \cap rows[d] = {}
  /\ \A c \in Conns : /\ rows[c] = {} <=> at[c] = "idle"
                      /\ Cardinality(rows[c]) <= WidthOf(c)

\* A handler or the dispatcher waits for one call at a time, and only then.
JobsOnce ==
  /\ \A i, j \in DOMAIN jobs : jobs[i] = jobs[j] => i = j
  /\ Range(jobs) \cap ran = {}
  /\ \A c \in Conns : at[c] \in {"resetting", "finishing"} <=> c \in Range(jobs) \cup ran
  /\ dp = "model" <=> Dispatcher \in Range(jobs) \cup ran

\* Where the dispatcher stands fits the requests it has taken.
DispatcherFits ==
  /\ dp \in {"checkpoint", "model"} <=> batch # <<>>
  /\ rest # <<>> => batch # <<>>

\* The requests that are not done, oldest first.
Unfinished == batch \o rest \o queue

Live(q) == \E x \in q.rows : Current(x)

\* A request with a row that still runs is the one its handler waits for, and comes
\* once; it has a row once, whose number is used again under a later incarnation.
RequestFits(q) ==
  /\ q.rows # {} /\ \A x, y \in q.rows : x.row = y.row => x = y
  /\ \A x \in q.rows : x.gen <= gen[x.row]
  /\ Live(q) => at[q.conn] = "asked" /\ q.rows = asked[q.conn] /\ ~outcome[q.conn].done

RequestsFit(s) ==
  /\ \A k \in DOMAIN s : RequestFits(s[k])
  /\ \A k, l \in DOMAIN s : Live(s[k]) /\ Live(s[l]) /\ s[k].conn = s[l].conn => k = l

\* What a handler asks is one observation of each row that had not failed; a row
\* fails with its incarnation.
AskFits(c) ==
  /\ asked[c] # {} <=> at[c] = "asked"
  /\ outcome[c].done => at[c] = "asked"
  /\ \A x \in asked[c] :
       /\ x.row \in rows[c] /\ x.gen <= gen[x.row]
       /\ Current(x) <=> ~failed[x.row]
       /\ Current(x) => x.step + 1 = steps[x.row]
       /\ \A y \in asked[c] : x.row = y.row => x = y
  /\ at[c] = "asked" => \A r \in rows[c] : ~failed[r] => \E x \in asked[c] : x.row = r

AskedFits == \A c \in Conns : AskFits(c)

\* Rows are chunked as their episodes are, and buffer for those alone.
RowFits(c, r) ==
  /\ at[c] = "resetting" => buffers[r] = <<>> /\ ~failed[r]
  /\ c \notin Chunking => buffers[r] = <<>>
  /\ at[c] \in {"running", "asked"} => (chunked[r] <=> c \in Chunking)
  /\ at[c] \in {"running", "asked"} /\ ~failed[r] =>
       \A i \in DOMAIN buffers[r] : buffers[r][i].gen = gen[r]

ChunksFit ==
  /\ \A r \in Rows : r \notin TakenRows => buffers[r] = <<>> /\ ~failed[r]
  /\ \A c \in Conns : \A r \in rows[c] : RowFits(c, r)

\* What the dispatcher keeps over the model call is about its batch: every position
\* whose episode still runs is served or with the model.
CallFits ==
  dp = "model" =>
    /\ call.todo \subseteq Positions(batch) /\ DOMAIN call.served \subseteq Positions(batch)
    /\ call.todo \cap DOMAIN call.served = {}
    /\ \A p \in Positions(batch) : Current(p[2]) =>
         /\ p \in call.todo \cup DOMAIN call.served
         /\ p \in call.todo => buffers[p[2].row] = <<>> /\ (p \in call.chunks <=> chunked[p[2].row])

EngineInv ==
  /\ DataOK /\ RowsApart /\ JobsOnce /\ DispatcherFits
  /\ RequestsFit(Unfinished) /\ AskedFits /\ ChunksFit /\ CallFits

-----------------------------------------------------------------------------
(* The requests: taken from the queue, none is lost or comes twice.        *)

LEMMA NotEmpty ==
  ASSUME NEW s, Len(s) # 0
  PROVE  s # <<>>
BY EmptySeq, Zenon

\* The requests that are not done, piece by piece.
LEMMA UnfinishedParts ==
  ASSUME NEW S, batch \in Seq(S), rest \in Seq(S), queue \in Seq(S)
  PROVE  /\ Unfinished = batch \o (rest \o queue)
         /\ Unfinished \in Seq(S) /\ rest \o queue \in Seq(S)
         /\ batch = <<>> /\ rest = <<>> => Unfinished = queue
<1>1. /\ batch \o rest \in Seq(S) /\ rest \o queue \in Seq(S)
      /\ (batch \o rest) \o queue \in Seq(S)
  BY ConcatProperties
<1>2. (batch \o rest) \o queue = batch \o (rest \o queue)
  BY ConcatAssociative
<1>3. batch = <<>> /\ rest = <<>> => (batch \o rest) \o queue = queue
  <2>1. <<>> \in Seq(S) /\ <<>> \o queue = queue /\ <<>> \o <<>> = <<>>
    BY ConcatEmptySeq, EmptySeq
  <2>2. QED
    BY <2>1
<1>4. QED
  BY <1>1, <1>2, <1>3 DEF Unfinished

\* The dispatcher takes the first requests: together with what it leaves they are
\* the queue it had.
LEMMA TakeSplits ==
  ASSUME NEW S, NEW q \in Seq(S), Take(q)
  PROVE  /\ batch' \in Seq(S) /\ rest' \in Seq(S) /\ queue' \in Seq(S)
         /\ batch' # <<>> /\ dp' = "checkpoint"
         /\ Unfinished' = q
<1>1. PICK n \in 1 .. Len(q) :
        /\ queue' = SubSeq(q, n + 1, Len(q))
        /\ \/ batch' = SubSeq(q, 1, n) /\ rest' = <<>>
           \/ Mixed /\ n > 1 /\ batch' = SubSeq(q, 1, 1) /\ rest' = SubSeq(q, 2, n)
        /\ dp' = "checkpoint"
  BY DEF Take
<1>2. /\ Len(q) \in Nat /\ n \in Nat /\ 1 <= n /\ n <= Len(q)
      /\ \A i \in 1 .. Len(q) : q[i] \in S
  BY ElementOfSeq, LenProperties
<1>3. queue' \in Seq(S)
  BY <1>1, <1>2, SubSeqProperties
<1>4. SubSeq(q, 1, n) \in Seq(S) /\ SubSeq(q, 1, n) \o queue' = q
  <2>1. SubSeq(q, 1, n) \o SubSeq(q, n + 1, Len(q)) = SubSeq(q, 1, Len(q))
    BY <1>2, ConcatAdjacentSubSeq
  <2>2. SubSeq(q, 1, Len(q)) = q
    BY SubSeqFull
  <2>3. SubSeq(q, 1, n) \in Seq(S)
    BY <1>2, SubSeqProperties
  <2>4. QED
    BY <1>1, <2>1, <2>2, <2>3
<1>5. CASE batch' = SubSeq(q, 1, n) /\ rest' = <<>>
  <2>1. batch' \in Seq(S) /\ rest' \in Seq(S) /\ batch' \o rest' = batch'
    BY <1>4, <1>5, ConcatEmptySeq, EmptySeq
  <2>2. Len(batch') = n
    BY <1>2, <1>5, SubSeqProperties
  <2>3. batch' # <<>>
    BY <1>2, <2>2, NotEmpty
  <2>4. QED
    BY <1>1, <1>3, <1>4, <1>5, <2>1, <2>3 DEF Unfinished
<1>6. CASE n > 1 /\ batch' = SubSeq(q, 1, 1) /\ rest' = SubSeq(q, 2, n)
  <2>1. batch' \in Seq(S) /\ rest' \in Seq(S) /\ Len(batch') = 1
    BY <1>2, <1>6, SubSeqProperties
  <2>2. batch' # <<>>
    <3>1. Len(batch') # 0
      BY <2>1
    <3>2. QED
      BY <3>1, NotEmpty
  <2>3. batch' \o rest' = SubSeq(q, 1, n)
    BY <1>2, <1>6, ConcatAdjacentSubSeq
  <2>4. QED
    BY <1>1, <1>3, <1>4, <2>1, <2>2, <2>3 DEF Unfinished
<1>7. QED
  BY <1>1, <1>5, <1>6

\* From its test of the queue to its next await the dispatcher keeps every request.
LEMMA DispatchSplits ==
  ASSUME NEW S, queue \in Seq(S), Dispatch(queue)
  PROVE  /\ batch' \in Seq(S) /\ rest' \in Seq(S) /\ queue' \in Seq(S)
         /\ Unfinished' = queue
         /\ dp' \in {"sleep", "gather", "checkpoint"}
         /\ dp' = "checkpoint" <=> batch' # <<>>
         /\ rest' # <<>> => batch' # <<>>
         /\ dp' = "gather" => AllWait(queue')
<1>1. CASE queue # <<>> /\ ~WouldWait(queue) /\ Take(queue)
  BY <1>1, TakeSplits
<1>2. CASE /\ UNCHANGED queue /\ batch' = <<>> /\ rest' = <<>>
           /\ \/ queue = <<>> /\ dp' = "sleep"
              \/ WouldWait(queue) /\ dp' = "gather"
  <2>1. <<>> \in Seq(S) /\ <<>> \o queue = queue /\ <<>> \o <<>> = <<>>
    BY ConcatEmptySeq, EmptySeq
  <2>2. Unfinished' = queue
    BY <1>2, <2>1 DEF Unfinished
  <2>3. dp' = "gather" => AllWait(queue')
    BY <1>2 DEF WouldWait, AllWait
  <2>4. QED
    BY <1>2, <2>1, <2>2, <2>3
<1>3. QED
  BY <1>1, <1>2 DEF Dispatch

\* After a run the requests of the batch are gone, and no others.
LEMMA AfterRunSplits ==
  ASSUME NEW S, batch \in Seq(S), rest \in Seq(S), queue \in Seq(S), AfterRun
  PROVE  /\ batch' \in Seq(S) /\ rest' \in Seq(S) /\ queue' \in Seq(S)
         /\ Unfinished' = rest \o queue
         /\ dp' \in {"sleep", "gather", "checkpoint"}
         /\ dp' = "checkpoint" <=> batch' # <<>>
         /\ rest' # <<>> => batch' # <<>>
         /\ dp' = "gather" => AllWait(queue')
<1>1. CASE rest # <<>>
  <2>1. /\ batch' = SubSeq(rest, 1, 1) /\ rest' = Tail(rest) /\ dp' = "checkpoint" /\ queue' = queue
    BY <1>1 DEF AfterRun
  <2>2. Len(rest) \in Nat /\ 1 <= Len(rest) /\ \A i \in 1 .. Len(rest) : rest[i] \in S
    BY <1>1, ElementOfSeq, LenProperties, EmptySeq
  <2>3. rest' = SubSeq(rest, 2, Len(rest))
    BY <1>1, <2>1, TailIsSubSeq
  <2>4. batch' \o rest' = SubSeq(rest, 1, Len(rest))
    BY <2>1, <2>2, <2>3, ConcatAdjacentSubSeq
  <2>5. batch' \o rest' = rest
    BY <2>4, SubSeqFull
  <2>6. batch' \in Seq(S) /\ Len(batch') = 1 /\ rest' \in Seq(S)
    BY <2>1, <2>2, <2>3, SubSeqProperties
  <2>7. batch' # <<>>
    <3>1. Len(batch') # 0
      BY <2>6
    <3>2. QED
      BY <3>1, NotEmpty
  <2>8. QED
    BY <2>1, <2>5, <2>6, <2>7 DEF Unfinished
<1>2. CASE rest = <<>>
  <2>1. Dispatch(queue)
    BY <1>2 DEF AfterRun
  <2>2. rest \o queue = queue
    BY <1>2, ConcatEmptySeq
  <2>3. QED
    BY <2>1, <2>2, DispatchSplits
<1>3. QED
  BY <1>1, <1>2

-----------------------------------------------------------------------------
(* Rows: there is always one for a connection that starts, and it takes no *)
(* more than its slots.                                                    *)

RowsOver(D)  == UNION {rows[d] : d \in D}
SlotsOver(D) == Cardinality(D \ VectorConns) + Width * Cardinality(D \cap VectorConns)

\* A set of numbers has a least one.
LEMMA LeastOfSet ==
  ASSUME NEW S \in SUBSET Int, IsFiniteSet(S), S # {}
  PROVE  \E r \in S : {q \in S : q < r} = {}
<1> DEFINE below == [r \in S |-> {q \in S : q < r}]
           T     == {below[r] : r \in S}
<1>1. T # {} /\ T \subseteq SUBSET S
  OBVIOUS
<1>2. IsWellFoundedOn(StrictSubsetOrdering(S), SUBSET S)
  BY FS_StrictSubsetOrderingWellFounded, FS_FiniteSubsetsOfFinite
<1>3. PICK x \in T : \A y \in T : ~(<<y, x>> \in StrictSubsetOrdering(S))
  BY <1>1, <1>2, WFMin
<1>4. PICK r \in S : x = below[r]
  BY <1>3
<1>5. ASSUME NEW q \in S, q < r PROVE FALSE
  <2>1. below[q] \in T /\ below[q] \subseteq below[r]
    <3>1. below[q] \in T
      BY <1>5
    <3>2. \A z \in S : z < q => z < r
      BY <1>5
    <3>3. below[q] = {z \in S : z < q} /\ below[r] = {z \in S : z < r}
      BY <1>5
    <3>4. QED
      BY <3>1, <3>2, <3>3
  <2>2. q \in below[r] /\ q \notin below[q]
    BY <1>5
  <2>3. below[q] \in SUBSET S /\ below[r] \in SUBSET S
    OBVIOUS
  <2>4. <<below[q], below[r]>> \in StrictSubsetOrdering(S)
    BY <2>1, <2>2, <2>3 DEF StrictSubsetOrdering
  <2>5. QED
    BY <1>3, <1>4, <2>1, <2>4
<1>6. QED
  BY <1>5

\* One connection more has its own slots more.
LEMMA SlotsAdd ==
  ASSUME NEW D \in SUBSET Conns, NEW d \in D
  PROVE  /\ SlotsOver(D) \in Nat /\ SlotsOver(D \ {d}) \in Nat /\ WidthOf(d) \in Nat \ {0}
         /\ SlotsOver(D) = SlotsOver(D \ {d}) + WidthOf(d)
<1>1. IsFiniteSet(D) /\ IsFiniteSet(D \ VectorConns) /\ IsFiniteSet(D \cap VectorConns)
  BY FS_Subset, EngineAssumption
<1> DEFINE A == D \ VectorConns
           B == D \cap VectorConns
<1>2. Cardinality(A) \in Nat /\ Cardinality(B) \in Nat /\ Width \in Nat \ {0}
  BY <1>1, FS_CardinalityType, EngineAssumption
<1>3. CASE d \in VectorConns
  <2>1. (D \ {d}) \ VectorConns = A /\ (D \ {d}) \cap VectorConns = B \ {d} /\ d \in B
    BY <1>3
  <2>2. Cardinality(B \ {d}) = Cardinality(B) - 1 /\ Cardinality(B \ {d}) \in Nat
    BY <1>1, <2>1, FS_RemoveElement, FS_CardinalityType
  <2>3. Width * Cardinality(B) = Width * Cardinality(B \ {d}) + Width
    BY <1>2, <2>2
  <2> HIDE DEF A, B
  <2>4. QED
    <3> USE DEF A, B
    <3>1. SlotsOver(D) = Cardinality(A) + Width * Cardinality(B)
      BY DEF SlotsOver
    <3>2. SlotsOver(D \ {d}) = Cardinality(A) + Width * Cardinality(B \ {d})
      BY <2>1 DEF SlotsOver
    <3>3. WidthOf(d) = Width
      BY <1>3 DEF WidthOf
    <3> HIDE DEF A, B
    <3>4. QED
      BY <1>2, <2>2, <2>3, <3>1, <3>2, <3>3
<1>4. CASE d \notin VectorConns
  <2>1. (D \ {d}) \ VectorConns = A \ {d} /\ (D \ {d}) \cap VectorConns = B /\ d \in A
    BY <1>4
  <2>2. Cardinality(A \ {d}) = Cardinality(A) - 1 /\ Cardinality(A \ {d}) \in Nat
    BY <1>1, <2>1, FS_RemoveElement, FS_CardinalityType
  <2>3. SlotsOver(D) = Cardinality(A) + Width * Cardinality(B)
    BY DEF SlotsOver
  <2>4. SlotsOver(D \ {d}) = Cardinality(A \ {d}) + Width * Cardinality(B)
    BY <2>1 DEF SlotsOver
  <2>5. WidthOf(d) = 1
    BY <1>4 DEF WidthOf
  <2> HIDE DEF A, B
  <2>6. QED
    BY <1>2, <2>2, <2>3, <2>4, <2>5
<1>5. QED
  BY <1>3, <1>4

\* Connections hold no more rows than they have slots.
LEMMA RowsWithinSlots ==
  ASSUME rows \in [Conns -> SUBSET Rows], \A c \in Conns : Cardinality(rows[c]) <= WidthOf(c)
  PROVE  \A D \in SUBSET Conns : IsFiniteSet(RowsOver(D)) /\ Cardinality(RowsOver(D)) <= SlotsOver(D)
<1> DEFINE Bad == {D \in SUBSET Conns :
                     ~(IsFiniteSet(RowsOver(D)) /\ Cardinality(RowsOver(D)) <= SlotsOver(D))}
<1>1. SUFFICES ASSUME Bad # {} PROVE FALSE
  OBVIOUS
<1>2. IsWellFoundedOn(StrictSubsetOrdering(Conns), SUBSET Conns)
  BY FS_StrictSubsetOrderingWellFounded, FS_FiniteSubsetsOfFinite, EngineAssumption
<1>3. PICK D \in Bad : \A E \in Bad : ~(<<E, D>> \in StrictSubsetOrdering(Conns))
  BY <1>1, <1>2, WFMin
<1>4. CASE D = {}
  <2>1. RowsOver(D) = {} /\ D \ VectorConns = {} /\ D \cap VectorConns = {}
    BY <1>4 DEF RowsOver
  <2>2. SlotsOver(D) = 0
    <3>1. Cardinality({}) = 0 /\ Width \in Nat
      BY FS_EmptySet, EngineAssumption
    <3>2. SlotsOver(D) = Cardinality({}) + Width * Cardinality({})
      BY <2>1 DEF SlotsOver
    <3>3. QED
      BY <3>1, <3>2
  <2>3. QED
    BY <1>3, <2>1, <2>2, FS_EmptySet
<1>5. CASE D # {}
  <2>1. PICK d \in D : TRUE
    BY <1>5
  <2>2. D \in SUBSET Conns /\ D \ {d} \in SUBSET Conns /\ d \in Conns
    BY <1>3
  <2>3. <<D \ {d}, D>> \in StrictSubsetOrdering(Conns)
    BY <2>1, <2>2 DEF StrictSubsetOrdering
  <2>4. IsFiniteSet(RowsOver(D \ {d})) /\ Cardinality(RowsOver(D \ {d})) <= SlotsOver(D \ {d})
    BY <1>3, <2>2, <2>3
  <2>5. RowsOver(D) = RowsOver(D \ {d}) \cup rows[d]
    BY <2>1 DEF RowsOver
  <2>6. IsFiniteSet(Rows)
    <3>1. IsFiniteSet(Conns) /\ IsFiniteSet(VectorConns) /\ IsFiniteSet(Conns \ VectorConns)
      BY FS_Subset, EngineAssumption
    <3>2. Cardinality(VectorConns) \in Nat /\ Cardinality(Conns \ VectorConns) \in Nat /\ Width \in Nat
      BY <3>1, FS_CardinalityType, EngineAssumption
    <3>3. Cardinality(Conns \ VectorConns) + Width * Cardinality(VectorConns) - 1 \in Int
      BY <3>2
    <3>4. QED
      BY <3>3, FS_Interval DEF Rows
  <2>7. IsFiniteSet(rows[d]) /\ Cardinality(rows[d]) \in Nat
    BY <2>2, <2>6, FS_Subset, FS_CardinalityType
  <2>8. /\ IsFiniteSet(RowsOver(D))
        /\ Cardinality(RowsOver(D)) =
             Cardinality(RowsOver(D \ {d})) + Cardinality(rows[d]) - Cardinality(RowsOver(D \ {d}) \cap rows[d])
    BY <2>4, <2>5, <2>7, FS_Union
  <2>9. Cardinality(RowsOver(D \ {d}) \cap rows[d]) \in Nat /\ Cardinality(RowsOver(D \ {d})) \in Nat
    BY <2>4, <2>7, FS_Intersection, FS_CardinalityType
  <2>10. Cardinality(rows[d]) <= WidthOf(d)
    BY <2>2
  <2>11. /\ SlotsOver(D) \in Nat /\ SlotsOver(D \ {d}) \in Nat /\ WidthOf(d) \in Nat
         /\ SlotsOver(D) = SlotsOver(D \ {d}) + WidthOf(d)
    BY <2>1, <2>2, SlotsAdd
  <2>12. Cardinality(RowsOver(D)) <= SlotsOver(D)
    BY <2>4, <2>7, <2>8, <2>9, <2>10, <2>11
  <2>13. QED
    BY <1>3, <2>8, <2>12
<1>6. QED
  BY <1>4, <1>5


\* What _alloc hands out: rows nobody has, one at least and no more than the slots.
LEMMA NewRowsFit ==
  ASSUME rows \in [Conns -> SUBSET Rows], \A c \in Conns : Cardinality(rows[c]) <= WidthOf(c),
         NEW c \in Conns, rows[c] = {}
  PROVE  /\ NewRows(c) \subseteq Rows \ TakenRows /\ NewRows(c) # {}
         /\ Cardinality(NewRows(c)) <= WidthOf(c)
<1> DEFINE free    == Rows \ TakenRows
           rank(r) == Cardinality({q \in free : q < r})
<1>1. NewRows(c) = {r \in free : rank(r) < WidthOf(c)}
  BY DEF NewRows
<1>2. /\ Rows = 0 .. SlotsOver(Conns) - 1
      /\ SlotsOver(Conns) \in Nat /\ SlotsOver(Conns \ {c}) \in Nat /\ WidthOf(c) \in Nat \ {0}
      /\ SlotsOver(Conns) = SlotsOver(Conns \ {c}) + WidthOf(c)
  <2>1. Conns \cap VectorConns = VectorConns
    BY EngineAssumption
  <2>2. Rows = 0 .. SlotsOver(Conns) - 1
    <3>1. SlotsOver(Conns) = Cardinality(Conns \ VectorConns) + Width * Cardinality(VectorConns)
      BY <2>1 DEF SlotsOver
    <3>2. IsFiniteSet(VectorConns) /\ IsFiniteSet(Conns \ VectorConns)
      BY FS_Subset, EngineAssumption
    <3>3. /\ Cardinality(VectorConns) \in Nat /\ Cardinality(Conns \ VectorConns) \in Nat
          /\ Width \in Nat
      BY <3>2, FS_CardinalityType, EngineAssumption
    <3> DEFINE a == Cardinality(Conns \ VectorConns)
               b == Cardinality(VectorConns)
    <3>4. Rows = 0 .. a + Width * b - 1 /\ SlotsOver(Conns) = a + Width * b
      BY <3>1 DEF Rows
    <3>5. a \in Nat /\ b \in Nat /\ Width * b \in Nat
      BY <3>3
    <3> HIDE DEF a, b
    <3>6. (a + Width * b - 1) = (a + Width * b) - 1
      BY <3>5
    <3>7. QED
      BY <3>4, <3>6
  <2>3. QED
    BY <2>2, SlotsAdd
<1>3. IsFiniteSet(Rows) /\ Cardinality(Rows) = SlotsOver(Conns) /\ Rows \subseteq Int
  <2> DEFINE n == SlotsOver(Conns) - 1
  <2>1. n \in Int /\ n + 1 = SlotsOver(Conns) /\ (0 > n => SlotsOver(Conns) = 0)
    BY <1>2
  <2>2. Rows = 0 .. n
    BY <1>2
  <2> HIDE DEF n
  <2>3. IsFiniteSet(0 .. n) /\ Cardinality(0 .. n) = IF 0 > n THEN 0 ELSE n - 0 + 1
    BY <2>1, FS_Interval
  <2>4. Cardinality(0 .. n) = SlotsOver(Conns)
    BY <1>2, <2>1, <2>3
  <2>5. QED
    BY <2>1, <2>2, <2>3, <2>4
<1>4. free # {}
  <2>1. TakenRows = RowsOver(Conns \ {c})
    BY DEF TakenRows, RowsOver
  <2>2. IsFiniteSet(TakenRows) /\ Cardinality(TakenRows) <= SlotsOver(Conns \ {c})
    BY <2>1, RowsWithinSlots
  <2>3. Cardinality(TakenRows) \in Nat
    BY <2>2, FS_CardinalityType
  <2>4. TakenRows # Rows
    BY <1>2, <1>3, <2>2, <2>3
  <2>5. TakenRows \subseteq Rows
    BY DEF TakenRows
  <2>6. QED
    BY <2>4, <2>5
<1>5. IsFiniteSet(free) /\ free \in SUBSET Int
  BY <1>3, FS_Subset
<1>6. \A r \in free : /\ {q \in free : q < r} \subseteq free
                      /\ IsFiniteSet({q \in free : q < r})
                      /\ rank(r) \in Nat
  BY <1>5, FS_Subset, FS_CardinalityType
<1>7. NewRows(c) # {}
  <2>1. PICK r \in free : {q \in free : q < r} = {}
    BY <1>4, <1>5, LeastOfSet
  <2>2. rank(r) = 0
    BY <2>1, FS_EmptySet
  <2>3. QED
    <3>1. rank(r) < WidthOf(c)
      BY <1>2, <2>2
    <3> HIDE DEF rank, free
    <3>2. QED
      BY <1>1, <2>1, <3>1
<1>8. Cardinality(NewRows(c)) <= WidthOf(c)
  <2> DEFINE f == [r \in NewRows(c) |-> rank(r)]
             T == 0 .. WidthOf(c) - 1
  <2>1. \A r \in NewRows(c) : r \in free /\ r \in Int /\ rank(r) \in T
    <3> HIDE DEF rank, free
    <3>1. SUFFICES ASSUME NEW r \in NewRows(c) PROVE r \in free /\ r \in Int /\ rank(r) \in T
      OBVIOUS
    <3>2. r \in free /\ rank(r) < WidthOf(c) /\ r \in Int
      BY <1>1, <1>5
    <3>3. rank(r) \in Nat
      BY <1>6, <3>2
    <3>4. QED
      BY <1>2, <3>2, <3>3
  <2>2. \A r, q \in free : q < r => rank(q) < rank(r)
    <3>1. SUFFICES ASSUME NEW r \in free, NEW q \in free, q < r PROVE rank(q) < rank(r)
      OBVIOUS
    <3>2. q \in Int /\ r \in Int /\ \A z \in free : z \in Int
      BY <1>5
    <3>3. {z \in free : z < q} \subseteq {z \in free : z < r} \ {q}
      <4> HIDE DEF free
      <4>1. \A z \in free : z < q => z < r /\ z # q
        BY <3>1, <3>2
      <4>2. QED
        BY <4>1
    <3>4. q \in {z \in free : z < r}
      BY <3>1
    <3> DEFINE A == {z \in free : z < q}
               B == {z \in free : z < r}
    <3>5. IsFiniteSet(B) /\ Cardinality(A) \in Nat /\ Cardinality(B) \in Nat
      BY <1>6
    <3>6. A \subseteq B \ {q} /\ q \in B
      BY <3>3, <3>4
    <3> HIDE DEF A, B
    <3>7. IsFiniteSet(B \ {q}) /\ Cardinality(B \ {q}) = Cardinality(B) - 1
      BY <3>5, <3>6, FS_RemoveElement
    <3>8. Cardinality(A) <= Cardinality(B \ {q})
      BY <3>6, <3>7, FS_Subset
    <3>9. Cardinality(A) < Cardinality(B)
      BY <3>5, <3>7, <3>8
    <3>10. QED
      BY <3>9 DEF A, B
  <2>3. f \in Injection(NewRows(c), T)
    <3> HIDE DEF rank
    <3>1. f \in [NewRows(c) -> T]
      BY <2>1
    <3>2. ASSUME NEW r \in NewRows(c), NEW q \in NewRows(c), r # q PROVE f[r] # f[q]
      <4>1. r \in free /\ q \in free /\ r \in Int /\ q \in Int /\ rank(r) \in T /\ rank(q) \in T
        BY <2>1
      <4>2. rank(r) \in Int /\ rank(q) \in Int
        BY <4>1
      <4>3. rank(q) < rank(r) \/ rank(r) < rank(q)
        BY <2>2, <3>2, <4>1
      <4>4. f[r] = rank(r) /\ f[q] = rank(q)
        OBVIOUS
      <4>5. QED
        BY <4>2, <4>3, <4>4
    <3>3. QED
      BY <3>1, <3>2 DEF Injection, IsInjective
  <2>4. IsFiniteSet(T) /\ Cardinality(T) = WidthOf(c)
    <3> DEFINE n == WidthOf(c) - 1
    <3>1. n \in Int /\ ~(0 > n) /\ n - 0 + 1 = WidthOf(c)
      BY <1>2
    <3> HIDE DEF n
    <3>2. IsFiniteSet(0 .. n) /\ Cardinality(0 .. n) = n - 0 + 1
      BY <3>1, FS_Interval
    <3>3. QED
      BY <3>1, <3>2 DEF n
  <2> HIDE DEF f, T
  <2>5. QED
    BY <2>3, <2>4, FS_Injection
<1>9. QED
  BY <1>1, <1>7, <1>8


-----------------------------------------------------------------------------
(* Types.                                                                  *)

\* What a handler asks is one observation of each row that has not failed.
LEMMA AsksFit ==
  ASSUME ConnData, RowData, NEW c \in Conns
  PROVE  /\ Asks(c) \in SUBSET Asked
         /\ \A x \in Asks(c) : /\ x.row \in rows[c] /\ ~failed[x.row]
                               /\ x.gen = gen[x.row] /\ x.step = steps[x.row]
                               /\ \A y \in Asks(c) : x.row = y.row => x = y
         /\ \A r \in rows[c] : ~failed[r] => \E x \in Asks(c) : x.row = r
<1>1. rows[c] \subseteq Rows /\ \A r \in Rows : gen[r] \in Nat /\ steps[r] \in Nat
  BY DEF ConnData, RowData
<1> DEFINE obs(r) == [row |-> r, gen |-> gen[r], step |-> steps[r]]
<1>2. Asks(c) = {obs(r) : r \in {q \in rows[c] : ~failed[q]}}
  BY DEF Asks
<1>3. \A r \in rows[c] : obs(r) \in Asked
  BY <1>1 DEF Asked
<1>4. \A r : obs(r).row = r /\ obs(r).gen = gen[r] /\ obs(r).step = steps[r]
  OBVIOUS
<1> HIDE DEF obs
<1>5. \A x \in Asks(c) : \E r \in rows[c] : ~failed[r] /\ x = obs(r)
  BY <1>2
<1>6. QED
  BY <1>2, <1>3, <1>4, <1>5

LEMMA ConnDataNext ==
  ASSUME ConnData, RowData, Next
  PROVE  ConnData'
<1>1. ASSUME NEW c \in Conns, Start(c) PROVE ConnData'
  <2>1. NewRows(c) \subseteq Rows
    BY DEF NewRows
  <2>2. QED
    BY <1>1, <2>1 DEF ConnData, Start
<1>2. ASSUME NEW c \in Conns, Observe(c) PROVE ConnData'
  <2>1. Asks(c) \in SUBSET Asked
    BY AsksFit
  <2>2. UNCHANGED <<rows, starts>> /\ \/ UNCHANGED <<at, asked>>
                                      \/ /\ asked' = [asked EXCEPT ![c] = Asks(c)]
                                         /\ at' = [at EXCEPT ![c] = "asked"]
    BY <1>2 DEF Observe
  <2>3. QED
    BY <2>1, <2>2 DEF ConnData
<1>3. ASSUME NEW c \in Conns, End(c) PROVE ConnData'
  BY <1>3 DEF ConnData, End
<1>4. ASSUME NEW c \in Conns, ResetReturned(c) \/ FinishReturned(c) PROVE ConnData'
  BY <1>4 DEF ConnData, ResetReturned, FinishReturned, Release
<1>5. ASSUME NEW c \in Conns, Reply(c) PROVE ConnData'
  BY <1>5 DEF ConnData, Reply
<1>6. CASE UNCHANGED <<at, rows, starts, asked>>
  BY <1>6 DEF ConnData
<1>7. QED
  BY <1>1, <1>2, <1>3, <1>4, <1>5, <1>6
     DEF Next, Handler, Engine, FailEpisode, Woken, Infer, InferReturned, InferRaised, Deadline, Stop,
         SetLimit, RunJob, connVars

LEMMA RowDataNext ==
  ASSUME ConnData, RowData, Next
  PROVE  RowData'
<1>a. ASSUME NEW c \in Conns, Start(c) PROVE RowData'
  BY <1>a DEF RowData, Start
<1>b. ASSUME NEW c \in Conns, Observe(c) PROVE RowData'
  <2>1. /\ steps' = [r \in Rows |-> IF r \in rows[c] THEN steps[r] + 1 ELSE steps[r]]
        /\ UNCHANGED <<gen, failed, chunked>>
    BY <1>b DEF Observe
  <2>2. QED
    BY <2>1 DEF RowData
<1>c. ASSUME NEW c \in Conns, End(c) PROVE RowData'
  BY <1>c DEF RowData, End
<1>1. ASSUME NEW c \in Conns, Start(c) \/ Observe(c) \/ End(c) PROVE RowData'
  BY <1>1, <1>a, <1>b, <1>c
<1>2. ASSUME NEW c \in Conns, ResetReturned(c) \/ FinishReturned(c) PROVE RowData'
  <2>1. failed' \in [Rows -> BOOLEAN]
    <3>1. failed' = failed \/ failed' = [r \in Rows |-> failed[r] /\ r \notin rows[c]]
      BY <1>2 DEF ResetReturned, FinishReturned, Release
    <3>2. QED
      BY <3>1 DEF RowData
  <2>2. chunked' \in [Rows -> BOOLEAN]
    <3>1. chunked' = chunked \/ chunked' = [r \in Rows |-> IF r \in rows[c] THEN c \in Chunking ELSE chunked[r]]
      BY <1>2 DEF ResetReturned, FinishReturned
    <3>2. \A r \in Rows : (IF r \in rows[c] THEN c \in Chunking ELSE chunked[r]) \in BOOLEAN
      <4>1. (c \in Chunking) \in BOOLEAN
        OBVIOUS
      <4>2. \A r \in Rows : chunked[r] \in BOOLEAN
        BY DEF RowData
      <4>3. QED
        BY <4>1, <4>2, Zenon
    <3>3. chunked \in [Rows -> BOOLEAN]
      BY DEF RowData
    <3>4. QED
      BY <3>1, <3>2, <3>3, Zenon
  <2>3. UNCHANGED <<gen, steps>>
    BY <1>2 DEF ResetReturned, FinishReturned
  <2>4. QED
    BY <2>1, <2>2, <2>3 DEF RowData
<1>3. ASSUME NEW r \in Rows, FailEpisode(r) PROVE RowData'
  BY <1>3 DEF RowData, FailEpisode
<1>4. CASE UNCHANGED <<gen, steps, failed, chunked>>
  BY <1>4 DEF RowData
<1>5. QED
  BY <1>1, <1>2, <1>3, <1>4
     DEF Next, Handler, Engine, Reply, Woken, Infer, InferReturned, InferRaised, Deadline, Stop,
         SetLimit, RunJob, rowVars

\* The incarnation of a row only grows.
LEMMA GenGrows ==
  ASSUME RowData, Next
  PROVE  \A r \in Rows : gen[r] <= gen'[r]
<1>1. \A r \in Rows : gen[r] \in Nat
  BY DEF RowData
<1>2. ASSUME NEW c \in Conns, Start(c) \/ End(c) PROVE \A r \in Rows : gen[r] <= gen'[r]
  BY <1>1, <1>2 DEF Start, End
<1>3. ASSUME NEW q \in Rows, FailEpisode(q) PROVE \A r \in Rows : gen[r] <= gen'[r]
  BY <1>1, <1>3 DEF FailEpisode, RowData
<1>4. CASE UNCHANGED gen
  BY <1>1, <1>4
<1>5. QED
  BY <1>2, <1>3, <1>4
     DEF Next, Handler, Engine, Observe, ResetReturned, FinishReturned, Reply, Woken, Infer, InferReturned,
         InferRaised, Deadline, Stop, SetLimit, RunJob, rowVars


-----------------------------------------------------------------------------
(* The dispatcher's steps as the other parts of the state see them.        *)

Answered(c, q) == \E k \in DOMAIN q : q[k].conn = c /\ q[k].rows = asked[c]

\* done is set for the requests of q that are still waited for.
Completes(q) ==
  /\ DOMAIN outcome' = Conns
  /\ \A c \in Conns : IF Answered(c, q) THEN outcome'[c].done = TRUE ELSE outcome'[c] = outcome[c]

LEMMA CompleteCompletes ==
  ASSUME NEW q, NEW results, Complete(q, results), \A k \in DOMAIN q : results[k].done = TRUE
  PROVE  Completes(q)
<1>1. DOMAIN outcome' = Conns
  BY DEF Complete
<1>2. ASSUME NEW c \in Conns, Answered(c, q) PROVE outcome'[c].done = TRUE
  <2> DEFINE k == CHOOSE k \in DOMAIN q : q[k].conn = c /\ q[k].rows = asked[c]
  <2>1. k \in DOMAIN q
    BY <1>2 DEF Answered
  <2>2. outcome'[c] = results[k]
    BY <1>2 DEF Complete, Answered
  <2> HIDE DEF k
  <2>3. QED
    BY <2>1, <2>2
<1>3. ASSUME NEW c \in Conns, ~Answered(c, q) PROVE outcome'[c] = outcome[c]
  BY <1>3 DEF Complete, Answered
<1>4. QED
  BY <1>1, <1>2, <1>3 DEF Completes

\* The dispatcher hands a batch to the model thread, or a run is over.
RunOver == AfterRun /\ Completes(batch)

LEMMA InferSteps ==
  ASSUME Infer
  PROVE  /\ dp = "checkpoint"
         /\ UNCHANGED <<at, rows, starts, asked, got, gen, steps, failed, chunked, limit, wake, ran>>
         /\ \/ /\ dp' = "model" /\ jobs' = Append(jobs, Dispatcher)
               /\ UNCHANGED <<outcome, queue, batch, rest>>
            \/ RunOver /\ UNCHANGED jobs
<1> DEFINE live   == StillRunning(Positions(batch))
           chunks == {p \in live : chunked[p[2].row]}
           served == {p \in chunks : buffers[p[2].row] # <<>>}
           given  == [p \in served |-> Head(buffers[p[2].row])]
           todo   == live \ served
           shares == [k \in DOMAIN batch |-> Share(k, Stacked(given, served), served)]
<1>1. /\ dp = "checkpoint"
      /\ UNCHANGED <<at, rows, starts, asked, got, gen, steps, failed, chunked, limit, wake, ran>>
      /\ IF todo # {}
           THEN /\ dp' = "model" /\ jobs' = Append(jobs, Dispatcher)
                /\ UNCHANGED <<outcome, queue, batch, rest>>
           ELSE Complete(batch, shares) /\ AfterRun /\ UNCHANGED jobs
  BY DEF Infer
<1>2. \A k \in DOMAIN batch : shares[k].done = TRUE
  BY DEF Share
<1> HIDE DEF shares
<1>3. Complete(batch, shares) => Completes(batch)
  BY <1>2, CompleteCompletes
<1>4. QED
  BY <1>1, <1>3 DEF RunOver

LEMMA InferOverSteps ==
  ASSUME InferReturned \/ InferRaised
  PROVE  /\ dp = "model" /\ Dispatcher \in ran /\ ran' = ran \ {Dispatcher}
         /\ UNCHANGED <<at, rows, starts, asked, got, gen, steps, failed, chunked, limit, wake, jobs>>
         /\ RunOver
<1>1. CASE InferReturned
  <2>1. PICK bad \in SUBSET call.todo : \E lens \in [(call.todo \cap call.chunks) \ bad -> ChunkLens] :
          LET served == DOMAIN call.served
              ok     == served \cup {p \in call.todo \ bad : p \in DOMAIN lens => lens[p] > 0}
              action == [p \in ok |-> IF p \in served THEN call.served[p] ELSE p[2]]
          IN Complete(batch, [k \in DOMAIN batch |-> Share(k, Stacked(action, ok), ok)])
    BY <1>1 DEF InferReturned
  <2>2. PICK lens \in [(call.todo \cap call.chunks) \ bad -> ChunkLens] :
          LET served == DOMAIN call.served
              ok     == served \cup {p \in call.todo \ bad : p \in DOMAIN lens => lens[p] > 0}
              action == [p \in ok |-> IF p \in served THEN call.served[p] ELSE p[2]]
          IN Complete(batch, [k \in DOMAIN batch |-> Share(k, Stacked(action, ok), ok)])
    BY <2>1
  <2> DEFINE served == DOMAIN call.served
             ok     == served \cup {p \in call.todo \ bad : p \in DOMAIN lens => lens[p] > 0}
             action == [p \in ok |-> IF p \in served THEN call.served[p] ELSE p[2]]
             shares == [k \in DOMAIN batch |-> Share(k, Stacked(action, ok), ok)]
  <2>3. Complete(batch, shares)
    BY <2>2
  <2>4. \A k \in DOMAIN batch : shares[k].done = TRUE
    BY DEF Share
  <2> HIDE DEF shares
  <2>5. Completes(batch)
    BY <2>3, <2>4, CompleteCompletes
  <2>6. QED
    BY <1>1, <2>5 DEF InferReturned, RunOver
<1>2. CASE InferRaised
  <2> DEFINE shares == [k \in DOMAIN batch |-> Stopped(batch[k])]
  <2>1. Complete(batch, shares)
    BY <1>2 DEF InferRaised
  <2>2. \A k \in DOMAIN batch : shares[k].done = TRUE
    BY DEF Stopped
  <2> HIDE DEF shares
  <2>3. Completes(batch)
    BY <2>1, <2>2, CompleteCompletes
  <2>4. QED
    BY <1>2, <2>3 DEF InferRaised, RunOver, rowVars
<1>3. QED
  BY <1>1, <1>2

LEMMA StopSteps ==
  ASSUME Stop
  PROVE  /\ dp \in {"sleep", "gather", "checkpoint"} /\ dp' = "down"
         /\ queue' = <<>> /\ batch' = <<>> /\ rest' = <<>>
         /\ UNCHANGED <<at, rows, starts, asked, got, rowVars, limit, wake, call, jobVars>>
         /\ Completes(Unfinished)
<1> DEFINE shares == [k \in DOMAIN Unfinished |-> Stopped(Unfinished[k])]
<1>1. Complete(Unfinished, shares)
  BY DEF Stop, Unfinished
<1>2. \A k \in DOMAIN Unfinished : shares[k].done = TRUE
  BY DEF Stopped
<1> HIDE DEF shares
<1>3. Completes(Unfinished)
  BY <1>1, <1>2, CompleteCompletes
<1>4. QED
  BY <1>3 DEF Stop

LEMMA OutcomeDataNext ==
  ASSUME OutcomeData, Next
  PROVE  OutcomeData'
<1>1. ASSUME NEW q, Completes(q), UNCHANGED got PROVE OutcomeData'
  BY <1>1 DEF Completes, OutcomeData
<1>2. CASE UNCHANGED <<outcome, got>>
  BY <1>2 DEF OutcomeData
<1>3. ASSUME NEW c \in Conns, Observe(c) PROVE OutcomeData'
  <2>1. UNCHANGED outcome /\ DOMAIN got' = DOMAIN got
    BY <1>3 DEF Observe
  <2>2. QED
    BY <2>1 DEF OutcomeData
<1>4. ASSUME NEW c \in Conns, Reply(c) \/ End(c) PROVE OutcomeData'
  <2>1. outcome' = [outcome EXCEPT ![c] = NotDone] /\ DOMAIN got' = DOMAIN got
    BY <1>4 DEF Reply, End
  <2>2. NotDone.done = FALSE
    BY DEF NotDone
  <2>3. QED
    BY <2>1, <2>2 DEF OutcomeData
<1>5. CASE Infer
  <2>1. UNCHANGED got /\ (UNCHANGED outcome \/ Completes(batch))
    BY <1>5, InferSteps DEF RunOver
  <2>2. QED
    BY <1>1, <1>2, <2>1
<1>6. CASE InferReturned \/ InferRaised
  <2>1. UNCHANGED got /\ Completes(batch)
    BY <1>6, InferOverSteps DEF RunOver
  <2>2. QED
    BY <1>1, <2>1
<1>7. CASE Stop
  BY <1>1, <1>7, StopSteps
<1>8. QED
  BY <1>2, <1>3, <1>4, <1>5, <1>6, <1>7
     DEF Next, Handler, Engine, Start, ResetReturned, FinishReturned, FailEpisode, Woken, Deadline, SetLimit,
         RunJob, connVars

LEMMA QueueDataNext ==
  ASSUME ConnData, RowData, QueueData, DispatcherFits, Next
  PROVE  QueueData'
<1>1. /\ queue \in Seq(Requests) /\ batch \in Seq(Requests) /\ rest \in Seq(Requests)
      /\ limit \in Limits /\ wake \in BOOLEAN
      /\ dp \in {"sleep", "gather", "checkpoint", "model", "down"}
  BY DEF QueueData
<1>2. CASE RunOver /\ UNCHANGED <<limit, wake>>
  <2>1. AfterRun
    BY <1>2 DEF RunOver
  <2>2. /\ batch' \in Seq(Requests) /\ rest' \in Seq(Requests) /\ queue' \in Seq(Requests)
        /\ dp' \in {"sleep", "gather", "checkpoint"}
    BY <1>1, <2>1, AfterRunSplits
  <2>3. QED
    BY <1>1, <1>2, <2>2 DEF QueueData
<1>3. CASE UNCHANGED <<limit, wake, dp, queue, batch, rest>>
  BY <1>3 DEF QueueData
<1>4. ASSUME NEW c \in Conns, Observe(c) PROVE QueueData'
  <2> DEFINE new == [conn |-> c, rows |-> Asks(c),
                     wait |-> Cardinality(Asks(c)) = 1 /\ c \notin VectorConns]
  <2>1. new \in Requests
    <3>1. Asks(c) \in SUBSET Asked
      BY AsksFit
    <3>2. (Cardinality(Asks(c)) = 1 /\ c \notin VectorConns) \in BOOLEAN
      OBVIOUS
    <3>3. QED
      BY <3>1, <3>2 DEF Requests
  <2>2. /\ UNCHANGED <<limit, dp, batch, rest>>
        /\ UNCHANGED <<queue, wake>> \/ (queue' = Append(queue, new) /\ wake' = TRUE)
    BY <1>4 DEF Observe
  <2> HIDE DEF new
  <2>3. Append(queue, new) \in Seq(Requests)
    BY <1>1, <2>1, AppendProperties
  <2>4. QED
    BY <1>1, <2>2, <2>3 DEF QueueData
<1>5. CASE Woken
  <2>1. Dispatch(queue) /\ wake' = FALSE /\ UNCHANGED limit
    BY <1>5 DEF Woken
  <2>2. /\ batch' \in Seq(Requests) /\ rest' \in Seq(Requests) /\ queue' \in Seq(Requests)
        /\ dp' \in {"sleep", "gather", "checkpoint"}
    BY <1>1, <2>1, DispatchSplits
  <2>3. QED
    BY <1>1, <2>1, <2>2 DEF QueueData
<1>6. CASE Deadline
  <2>1. Take(queue) /\ UNCHANGED <<limit, wake>>
    BY <1>6 DEF Deadline
  <2>2. /\ batch' \in Seq(Requests) /\ rest' \in Seq(Requests) /\ queue' \in Seq(Requests)
        /\ dp' = "checkpoint"
    BY <1>1, <2>1, TakeSplits
  <2>3. QED
    BY <1>1, <2>1, <2>2 DEF QueueData
<1>7. CASE Infer
  <2>1. /\ UNCHANGED <<limit, wake>>
        /\ RunOver \/ (dp' = "model" /\ UNCHANGED <<queue, batch, rest>>)
    BY <1>7, InferSteps
  <2>2. QED
    BY <1>1, <1>2, <2>1 DEF QueueData
<1>8. CASE InferReturned \/ InferRaised
  BY <1>2, <1>8, InferOverSteps
<1>9. CASE Stop
  <2>1. dp' = "down" /\ queue' = <<>> /\ batch' = <<>> /\ rest' = <<>> /\ UNCHANGED <<limit, wake>>
    BY <1>9, StopSteps
  <2>2. <<>> \in Seq(Requests)
    BY EmptySeq
  <2>3. QED
    BY <1>1, <2>1, <2>2 DEF QueueData
<1>10. CASE SetLimit
  BY <1>1, <1>10 DEF SetLimit, QueueData
<1>11. QED
  BY <1>3, <1>4, <1>5, <1>6, <1>7, <1>8, <1>9, <1>10
     DEF Next, Handler, Engine, Start, End, Reply, ResetReturned, FinishReturned, FailEpisode, RunJob, dispVars

LEMMA JobDataNext ==
  ASSUME JobData, Next
  PROVE  JobData'
<1> DEFINE S == Conns \cup {Dispatcher}
<1>1. jobs \in Seq(S) /\ ran \subseteq S
  BY DEF JobData
<1>2. ASSUME NEW s \in S, jobs' = Append(jobs, s), UNCHANGED ran PROVE JobData'
  <2>1. Append(jobs, s) \in Seq(S)
    BY <1>1, AppendProperties
  <2>2. QED
    BY <1>1, <1>2, <2>1 DEF JobData
<1>3. CASE UNCHANGED jobs /\ ran' \subseteq ran
  BY <1>1, <1>3 DEF JobData
<1>4. ASSUME NEW c \in Conns, Start(c) \/ End(c) PROVE JobData'
  BY <1>2, <1>4 DEF Start, End
<1>5. CASE Infer
  BY <1>2, <1>3, <1>5, InferSteps
<1>6. CASE InferReturned \/ InferRaised
  BY <1>3, <1>6, InferOverSteps
<1>7. CASE RunJob
  <2>1. jobs # <<>> /\ jobs' = Tail(jobs) /\ ran' = ran \cup {Head(jobs)}
    BY <1>7 DEF RunJob
  <2>2. Head(jobs) \in S /\ Tail(jobs) \in Seq(S)
    BY <1>1, <2>1, HeadTailProperties
  <2>3. QED
    BY <1>1, <2>1, <2>2 DEF JobData
<1>8. QED
  BY <1>3, <1>4, <1>5, <1>6, <1>7
     DEF Next, Handler, Engine, Observe, Reply, ResetReturned, FinishReturned, FailEpisode, Woken, Deadline, Stop,
         SetLimit, jobVars


-----------------------------------------------------------------------------
(* Buffers.                                                                *)

LEMMA PositionsOf ==
  ASSUME NEW q \in Seq(Requests)
  PROVE  /\ \A p \in Positions(q) : /\ p = <<p[1], p[2]>> /\ p[1] \in DOMAIN q
                                    /\ p[2] \in q[p[1]].rows /\ p[2] \in Asked
         /\ \A k \in DOMAIN q : \A x \in q[k].rows : <<k, x>> \in Positions(q)
<1>1. \A k \in DOMAIN q : q[k] \in Requests
  BY LenProperties, ElementOfSeq
<1>2. \A k \in DOMAIN q : q[k].rows \subseteq Asked
  BY <1>1 DEF Requests
<1>3. ASSUME NEW p \in Positions(q)
      PROVE  /\ p = <<p[1], p[2]>> /\ p[1] \in DOMAIN q
             /\ p[2] \in q[p[1]].rows /\ p[2] \in Asked
  <2>1. PICK k \in DOMAIN q : p \in {<<k, x>> : x \in q[k].rows}
    BY DEF Positions
  <2>2. PICK x \in q[k].rows : p = <<k, x>>
    BY <2>1
  <2>3. QED
    BY <1>2, <2>2
<1>4. ASSUME NEW k \in DOMAIN q, NEW x \in q[k].rows PROVE <<k, x>> \in Positions(q)
  BY DEF Positions
<1>5. QED
  BY <1>3, <1>4

\* A row loses its oldest buffered action, or nothing.
LEMMA PoppedKeeps ==
  ASSUME BufferData, NEW S, \A r \in S : buffers[r] # <<>>, buffers' = Popped(S)
  PROVE  /\ BufferData'
         /\ \A r \in Rows : r \notin S => buffers'[r] = buffers[r]
         /\ \A r \in Rows \cap S : /\ Len(buffers[r]) \in Nat \ {0} /\ DOMAIN buffers[r] = 1 .. Len(buffers[r])
                                   /\ DOMAIN buffers'[r] = 1 .. Len(buffers[r]) - 1
                                   /\ \A i \in DOMAIN buffers'[r] : buffers'[r][i] = buffers[r][i + 1]
<1>1. buffers' = [r \in Rows |-> IF r \in S THEN Tail(buffers[r]) ELSE buffers[r]]
  BY DEF Popped
<1>2. \A r \in Rows : buffers[r] \in Seq(Asked)
  BY DEF BufferData
<1>3. ASSUME NEW r \in Rows, r \in S
      PROVE  /\ Len(buffers[r]) \in Nat \ {0} /\ DOMAIN buffers[r] = 1 .. Len(buffers[r])
             /\ Tail(buffers[r]) \in Seq(Asked)
             /\ DOMAIN Tail(buffers[r]) = 1 .. Len(buffers[r]) - 1
             /\ \A i \in DOMAIN Tail(buffers[r]) : Tail(buffers[r])[i] = buffers[r][i + 1]
  <2>1. buffers[r] \in Seq(Asked) /\ buffers[r] # <<>>
    BY <1>2, <1>3
  <2>2. Len(buffers[r]) \in Nat \ {0} /\ DOMAIN buffers[r] = 1 .. Len(buffers[r])
    BY <2>1, EmptySeq, LenProperties
  <2>3. /\ Tail(buffers[r]) \in Seq(Asked) /\ Len(Tail(buffers[r])) = Len(buffers[r]) - 1
        /\ \A i \in 1 .. Len(Tail(buffers[r])) : Tail(buffers[r])[i] = buffers[r][i + 1]
    BY <2>1, HeadTailProperties
  <2>4. DOMAIN Tail(buffers[r]) = 1 .. Len(Tail(buffers[r]))
    BY <2>3, LenProperties
  <2>5. QED
    BY <2>2, <2>3, <2>4
<1>4. BufferData'
  <2>1. \A r \in Rows : (IF r \in S THEN Tail(buffers[r]) ELSE buffers[r]) \in Seq(Asked)
    BY <1>2, <1>3
  <2>2. QED
    BY <1>1, <2>1 DEF BufferData
<1>5. \A r \in Rows : r \in S => buffers'[r] = Tail(buffers[r])
  BY <1>1
<1>6. \A r \in Rows : r \notin S => buffers'[r] = buffers[r]
  BY <1>1
<1>7. QED
  BY <1>3, <1>4, <1>5, <1>6

\* What is kept of a chunk of n actions: the later ones, step by step.
LEMMA ChunkTail ==
  ASSUME NEW x \in Asked, NEW n \in Nat, n > 0
  PROVE  /\ Tail(ChunkOf(x, n)) \in Seq(Asked)
         /\ DOMAIN Tail(ChunkOf(x, n)) = 1 .. n - 1
         /\ \A i \in 1 .. n - 1 :
              Tail(ChunkOf(x, n))[i] = [row |-> x.row, gen |-> x.gen, step |-> x.step + i]
<1> DEFINE nth(k) == [x EXCEPT !.step = @ + k - 1]
<1>1. \A k \in 1 .. n : nth(k) \in Asked /\ nth(k) = [row |-> x.row, gen |-> x.gen, step |-> x.step + k - 1]
  BY DEF Asked
<1>2. ChunkOf(x, n) = [k \in 1 .. n |-> nth(k)]
  BY DEF ChunkOf
<1> HIDE DEF nth
<1>3. ChunkOf(x, n) \in Seq(Asked) /\ Len(ChunkOf(x, n)) = n
  BY <1>1, <1>2
<1>4. ChunkOf(x, n) # <<>>
  <2>1. Len(ChunkOf(x, n)) # 0
    BY <1>3
  <2>2. QED
    BY <2>1, NotEmpty
<1>5. /\ Tail(ChunkOf(x, n)) \in Seq(Asked) /\ Len(Tail(ChunkOf(x, n))) = n - 1
      /\ \A i \in 1 .. n - 1 : Tail(ChunkOf(x, n))[i] = ChunkOf(x, n)[i + 1]
  BY <1>3, <1>4, HeadTailProperties
<1>6. DOMAIN Tail(ChunkOf(x, n)) = 1 .. n - 1
  BY <1>5, LenProperties
<1>7. ASSUME NEW i \in 1 .. n - 1
      PROVE  Tail(ChunkOf(x, n))[i] = [row |-> x.row, gen |-> x.gen, step |-> x.step + i]
  <2>1. i + 1 \in 1 .. n /\ x.step \in Nat
    BY DEF Asked
  <2>2. Tail(ChunkOf(x, n))[i] = nth(i + 1)
    BY <1>2, <1>5, <2>1
  <2>3. nth(i + 1) = [row |-> x.row, gen |-> x.gen, step |-> x.step + (i + 1) - 1]
    BY <1>1, <2>1
  <2>4. x.step + (i + 1) - 1 = x.step + i
    BY <2>1
  <2>5. QED
    BY <2>2, <2>3, <2>4
<1>8. QED
  BY <1>5, <1>6, <1>7

\* What the returned call leaves buffered, and what it answers.
ReturnedWith(bad, lens) ==
  LET served == DOMAIN call.served
      ok     == served \cup {p \in call.todo \ bad : p \in DOMAIN lens => lens[p] > 0}
      action == [p \in ok |-> IF p \in served THEN call.served[p] ELSE p[2]]
  IN  buffers' = Kept(lens) /\ Complete(batch, [k \in DOMAIN batch |-> Share(k, Stacked(action, ok), ok)])

LEMMA ReturnedLens ==
  ASSUME InferReturned
  PROVE  \E bad \in SUBSET call.todo :
           \E lens \in [(call.todo \cap call.chunks) \ bad -> ChunkLens] : ReturnedWith(bad, lens)
BY DEF InferReturned, ReturnedWith

\* A row's buffer after a call: the rest of the chunk of a position that still runs,
\* or what it was.
KeptAt(r, bad, lens) ==
  \/ /\ buffers'[r] = buffers[r]
     /\ \A p \in DOMAIN lens : p[2].row = r /\ Current(p[2]) => lens[p] = 0
  \/ \E p \in (call.todo \cap call.chunks) \ bad :
       /\ p \in Positions(batch) /\ p[2].row = r /\ Current(p[2])
       /\ lens[p] \in Nat /\ lens[p] > 0
       /\ buffers'[r] = Tail(ChunkOf(p[2], lens[p]))

LEMMA KeptIs ==
  ASSUME DataOK, CallFits, dp = "model", NEW bad, NEW lens \in [(call.todo \cap call.chunks) \ bad -> ChunkLens],
         buffers' = Kept(lens), NEW r \in Rows
  PROVE  KeptAt(r, bad, lens)
<1> DEFINE Has(p) == p[2].row = r /\ Current(p[2]) /\ lens[p] > 0
<1>1. \A p \in DOMAIN lens : p \in (call.todo \cap call.chunks) \ bad /\ lens[p] \in Nat
  BY EngineAssumption
<1>2. buffers'[r] = IF \E p \in DOMAIN lens : Has(p)
                      THEN LET p == CHOOSE p \in DOMAIN lens : Has(p) IN Tail(ChunkOf(p[2], lens[p]))
                      ELSE buffers[r]
  BY DEF Kept
<1>3. CASE \E p \in DOMAIN lens : Has(p)
  <2> DEFINE p == CHOOSE p \in DOMAIN lens : Has(p)
  <2>1. p \in DOMAIN lens /\ Has(p)
    BY <1>3
  <2>2. buffers'[r] = Tail(ChunkOf(p[2], lens[p]))
    BY <1>2, <1>3
  <2> HIDE DEF p
  <2>3. QED
    BY <1>1, <2>1, <2>2 DEF CallFits, KeptAt
<1>4. CASE ~\E p \in DOMAIN lens : Has(p)
  <2>1. \A p \in DOMAIN lens : p[2].row = r /\ Current(p[2]) => lens[p] = 0
    BY <1>1, <1>4
  <2>2. QED
    BY <1>2, <1>4, <2>1 DEF KeptAt
<1>5. QED
  BY <1>3, <1>4

\* The rows an observation or a run serves from their buffers.
LEMMA ObservePops ==
  ASSUME ConnData, RowData, NEW c \in Conns, Observe(c)
  PROVE  \/ buffers' = buffers
         \/ \E S \in SUBSET rows[c] : /\ buffers' = Popped(S) /\ UNCHANGED <<at, asked>>
                                      /\ \A r \in S : chunked[r] /\ buffers[r] # <<>>
<1> DEFINE S == {x.row : x \in Asks(c)}
<1>1. S \in SUBSET rows[c]
  BY AsksFit
<1>2. CASE \A x \in Asks(c) : Buffered(x)
  <2>1. buffers' = Popped(S) /\ UNCHANGED <<at, asked>>
    BY <1>2 DEF Observe
  <2>2. \A r \in S : chunked[r] /\ buffers[r] # <<>>
    BY <1>2 DEF Buffered
  <2> HIDE DEF S
  <2>3. QED
    BY <1>1, <2>1, <2>2
<1>3. CASE ~\A x \in Asks(c) : Buffered(x)
  BY <1>3 DEF Observe
<1>4. QED
  BY <1>2, <1>3

LEMMA InferPops ==
  ASSUME Infer, QueueData
  PROVE  \E S \in SUBSET Rows :
           /\ buffers' = Popped(S)
           /\ \A r \in S : /\ chunked[r] /\ buffers[r] # <<>>
                           /\ \E p \in Positions(batch) : p[2].row = r /\ Current(p[2])
<1> DEFINE live   == StillRunning(Positions(batch))
           chunks == {p \in live : chunked[p[2].row]}
           served == {p \in chunks : buffers[p[2].row] # <<>>}
           S      == {p[2].row : p \in served}
<1>1. buffers' = Popped(S)
  BY DEF Infer
<1>2. \A p \in served : /\ p \in Positions(batch) /\ Current(p[2])
                        /\ chunked[p[2].row] /\ buffers[p[2].row] # <<>>
  BY DEF StillRunning
<1>3. \A p \in Positions(batch) : p[2].row \in Rows
  <2>1. \A p \in Positions(batch) : p[2] \in Asked
    BY PositionsOf DEF QueueData
  <2>2. QED
    BY <2>1 DEF Asked
<1> HIDE DEF served
<1>4. S \in SUBSET Rows
  BY <1>2, <1>3
<1>5. QED
  BY <1>1, <1>2, <1>4

LEMMA BufferDataNext ==
  ASSUME DataOK, CallFits, Next
  PROVE  BufferData'
<1>1. ConnData /\ RowData /\ BufferData /\ QueueData
  BY DEF DataOK
<1>2. \A S : (\A r \in S : buffers[r] # <<>>) /\ buffers' = Popped(S) => BufferData'
  BY <1>1, PoppedKeeps
<1>3. CASE UNCHANGED buffers
  BY <1>1, <1>3 DEF BufferData
<1>4. ASSUME NEW c \in Conns, Observe(c) PROVE BufferData'
  BY <1>1, <1>2, <1>3, <1>4, ObservePops
<1>5. ASSUME NEW c \in Conns, FinishReturned(c) PROVE BufferData'
  <2>1. buffers' = [r \in Rows |-> IF r \in rows[c] THEN <<>> ELSE buffers[r]]
    BY <1>5 DEF FinishReturned
  <2>2. \A r \in Rows : (IF r \in rows[c] THEN <<>> ELSE buffers[r]) \in Seq(Asked)
    BY <1>1, EmptySeq DEF BufferData
  <2>3. QED
    BY <2>1, <2>2 DEF BufferData
<1>6. CASE Infer
  BY <1>1, <1>2, <1>6, InferPops
<1>7. CASE InferReturned
  <2>1. dp = "model"
    BY <1>7 DEF InferReturned
  <2>2. PICK bad \in SUBSET call.todo : \E lens \in [(call.todo \cap call.chunks) \ bad -> ChunkLens] :
               ReturnedWith(bad, lens)
    BY <1>7, ReturnedLens
  <2>3. PICK lens \in [(call.todo \cap call.chunks) \ bad -> ChunkLens] : ReturnedWith(bad, lens)
    BY <2>2
  <2>4. buffers' = Kept(lens)
    BY <2>3 DEF ReturnedWith
  <2>5. ASSUME NEW r \in Rows PROVE buffers'[r] \in Seq(Asked)
    <3>1. CASE buffers'[r] = buffers[r]
      BY <1>1, <3>1 DEF BufferData
    <3>2. CASE \E p \in Positions(batch) : \E n \in Nat : n > 0 /\ buffers'[r] = Tail(ChunkOf(p[2], n))
      <4>1. PICK p \in Positions(batch), n \in Nat : n > 0 /\ buffers'[r] = Tail(ChunkOf(p[2], n))
        BY <3>2
      <4>2. p[2] \in Asked
        BY <1>1, PositionsOf DEF QueueData
      <4>3. QED
        BY <4>1, <4>2, ChunkTail
    <3>3. KeptAt(r, bad, lens)
      BY <2>1, <2>4, KeptIs
    <3>4. QED
      BY <3>1, <3>2, <3>3 DEF KeptAt
  <2>6. DOMAIN buffers' = Rows /\ buffers' = [r \in Rows |-> buffers'[r]]
    BY <2>4 DEF Kept
  <2>7. QED
    BY <2>5, <2>6 DEF BufferData
<1>8. QED
  BY <1>3, <1>4, <1>5, <1>6, <1>7
     DEF Next, Handler, Engine, Start, End, Reply, ResetReturned, FailEpisode, Woken, InferRaised, Deadline, Stop,
         SetLimit, RunJob, rowVars

LEMMA DataNext ==
  ASSUME DataOK, DispatcherFits, CallFits, Next
  PROVE  DataOK'
<1>1. ConnData' /\ RowData'
  BY ConnDataNext, RowDataNext DEF DataOK
<1>2. OutcomeData'
  BY OutcomeDataNext DEF DataOK
<1>3. BufferData'
  BY BufferDataNext
<1>4. QueueData'
  BY QueueDataNext DEF DataOK
<1>5. JobData'
  BY JobDataNext DEF DataOK
<1>6. QED
  BY <1>1, <1>2, <1>3, <1>4, <1>5 DEF DataOK


-----------------------------------------------------------------------------
(* Rows, calls and requests are accounted for.                             *)

LEMMA RowsApartNext ==
  ASSUME DataOK, RowsApart, Next
  PROVE  RowsApart'
<1>1. /\ rows \in [Conns -> SUBSET Rows]
      /\ at \in [Conns -> {"idle", "resetting", "running", "asked", "finishing"}]
  BY DEF DataOK, ConnData
<1>2. \A c \in Conns : WidthOf(c) \in Nat \ {0}
  BY EngineAssumption DEF WidthOf
<1>3. ASSUME NEW c \in Conns, Start(c) PROVE RowsApart'
  <2>1. /\ at[c] = "idle" /\ rows' = [rows EXCEPT ![c] = NewRows(c)]
        /\ at' = [at EXCEPT ![c] = "resetting"]
    BY <1>3 DEF Start
  <2>2. /\ NewRows(c) \subseteq Rows \ TakenRows /\ NewRows(c) # {}
        /\ Cardinality(NewRows(c)) <= WidthOf(c)
    BY <1>1, <2>1, NewRowsFit DEF RowsApart
  <2>3. \A d \in Conns : NewRows(c) \cap rows[d] = {}
    BY <2>2 DEF TakenRows
  <2>4. QED
    BY <1>1, <2>1, <2>2, <2>3 DEF RowsApart
<1>4. ASSUME NEW c \in Conns, rows' = [rows EXCEPT ![c] = {}], at' = [at EXCEPT ![c] = "idle"]
      PROVE  RowsApart'
  <2>1. Cardinality({}) = 0 /\ 0 <= WidthOf(c)
    BY <1>2, FS_EmptySet
  <2>2. QED
    BY <1>1, <1>4, <2>1 DEF RowsApart
<1>5. ASSUME NEW c \in Conns, UNCHANGED rows, at[c] # "idle",
             at' = at \/ \E a \in {"running", "asked", "finishing"} : at' = [at EXCEPT ![c] = a]
      PROVE  RowsApart'
  BY <1>1, <1>5 DEF RowsApart
<1>6. CASE UNCHANGED <<rows, at>>
  BY <1>6 DEF RowsApart
<1>7. ASSUME NEW c \in Conns, ResetReturned(c) \/ FinishReturned(c) PROVE RowsApart'
  BY <1>4, <1>5, <1>7 DEF ResetReturned, FinishReturned, Release
<1>8. ASSUME NEW c \in Conns, Observe(c) \/ Reply(c) \/ End(c) PROVE RowsApart'
  <2>1. /\ UNCHANGED rows /\ at[c] # "idle"
        /\ at' = at \/ \E a \in {"running", "asked", "finishing"} : at' = [at EXCEPT ![c] = a]
    BY <1>8 DEF Observe, Reply, End
  <2>2. QED
    BY <1>5, <2>1
<1>9. QED
  BY <1>3, <1>6, <1>7, <1>8
     DEF Next, Handler, Engine, FailEpisode, Woken, Infer, InferReturned, InferRaised, Deadline, Stop,
         SetLimit, RunJob, connVars

Once(s) == \A i, j \in DOMAIN s : s[i] = s[j] => i = j

LEMMA AppendOnce ==
  ASSUME NEW S, NEW s \in Seq(S), NEW e \in S
  PROVE  /\ Range(Append(s, e)) = Range(s) \cup {e}
         /\ Once(s) /\ e \notin Range(s) => Once(Append(s, e))
<1>1. /\ Len(s) \in Nat /\ DOMAIN s = 1 .. Len(s)
      /\ DOMAIN Append(s, e) = 1 .. Len(s) + 1
      /\ \A i \in 1 .. Len(s) : Append(s, e)[i] = s[i]
      /\ Append(s, e)[Len(s) + 1] = e
  BY AppendProperties, LenProperties
<1>2. \A i \in 1 .. Len(s) + 1 : i \in 1 .. Len(s) \/ i = Len(s) + 1
  BY <1>1
<1>3. Range(Append(s, e)) = Range(s) \cup {e}
  BY <1>1, <1>2 DEF Range
<1>4. QED
  BY <1>1, <1>2, <1>3 DEF Range, Once

LEMMA TailOnce ==
  ASSUME NEW S, NEW s \in Seq(S), s # <<>>, Once(s)
  PROVE  /\ Range(Tail(s)) = Range(s) \ {Head(s)} /\ Head(s) \in Range(s)
         /\ Once(Tail(s))
<1>1. /\ Len(s) \in Nat \ {0} /\ DOMAIN s = 1 .. Len(s) /\ Head(s) = s[1]
      /\ DOMAIN Tail(s) = 1 .. Len(s) - 1
      /\ \A i \in 1 .. Len(s) - 1 : Tail(s)[i] = s[i + 1]
  <2>1. Len(s) \in Nat \ {0} /\ DOMAIN s = 1 .. Len(s) /\ Head(s) = s[1]
    BY EmptySeq, LenProperties
  <2>2. /\ Tail(s) \in Seq(S) /\ Len(Tail(s)) = Len(s) - 1
        /\ \A i \in 1 .. Len(Tail(s)) : Tail(s)[i] = s[i + 1]
    BY HeadTailProperties
  <2>3. DOMAIN Tail(s) = 1 .. Len(Tail(s))
    BY <2>2, LenProperties
  <2>4. QED
    BY <2>1, <2>2, <2>3
<1>2. \A i \in 1 .. Len(s) : i = 1 \/ (i - 1 \in 1 .. Len(s) - 1 /\ (i - 1) + 1 = i)
  BY <1>1
<1>3. \A i \in 1 .. Len(s) - 1 : i + 1 \in 1 .. Len(s) /\ i + 1 # 1
  BY <1>1
<1>4. 1 \in DOMAIN s
  BY <1>1
<1>5. ASSUME NEW x PROVE x \in Range(Tail(s)) <=> x \in Range(s) \ {Head(s)}
  <2>1. ASSUME x \in Range(Tail(s)) PROVE x \in Range(s) \ {Head(s)}
    <3>1. PICK i \in 1 .. Len(s) - 1 : x = s[i + 1]
      BY <1>1, <2>1 DEF Range
    <3>2. QED
      BY <1>1, <1>3, <1>4, <3>1 DEF Range, Once
  <2>2. ASSUME x \in Range(s), x # Head(s) PROVE x \in Range(Tail(s))
    <3>1. PICK i \in 1 .. Len(s) : x = s[i]
      BY <1>1, <2>2 DEF Range
    <3>2. i - 1 \in 1 .. Len(s) - 1 /\ Tail(s)[i - 1] = x
      BY <1>1, <1>2, <2>2, <3>1
    <3>3. QED
      BY <1>1, <3>2 DEF Range
  <2>3. QED
    BY <2>1, <2>2
<1>6. Once(Tail(s))
  BY <1>1, <1>3 DEF Once
<1>7. QED
  BY <1>1, <1>4, <1>5, <1>6 DEF Range

\* The calls somebody waits for.
Pending == Range(jobs) \cup ran

LEMMA JobsOnceNext ==
  ASSUME DataOK, JobsOnce, Next
  PROVE  JobsOnce'
<1>1. /\ jobs \in Seq(Conns \cup {Dispatcher}) /\ ran \subseteq Conns \cup {Dispatcher}
      /\ at \in [Conns -> {"idle", "resetting", "running", "asked", "finishing"}]
      /\ Dispatcher \notin Conns
  BY EngineAssumption DEF DataOK, JobData, ConnData
<1>2. /\ Once(jobs) /\ Range(jobs) \cap ran = {}
      /\ \A c \in Conns : at[c] \in {"resetting", "finishing"} <=> c \in Pending
      /\ dp = "model" <=> Dispatcher \in Pending
  BY DEF JobsOnce, Once, Pending
<1>3. JobsOnce' <=>
        /\ Once(jobs') /\ Range(jobs') \cap ran' = {}
        /\ \A c \in Conns : at'[c] \in {"resetting", "finishing"} <=> c \in Range(jobs') \cup ran'
        /\ dp' = "model" <=> Dispatcher \in Range(jobs') \cup ran'
  BY DEF JobsOnce, Once
<1>4. ASSUME NEW c \in Conns, at[c] \notin {"resetting", "finishing"}, jobs' = Append(jobs, c),
             NEW a \in {"resetting", "finishing"}, at' = [at EXCEPT ![c] = a], UNCHANGED <<ran, dp>>
      PROVE  JobsOnce'
  <2>1. c \notin Range(jobs) /\ c \notin ran
    BY <1>2, <1>4 DEF Pending
  <2>2. Range(jobs') = Range(jobs) \cup {c} /\ Once(jobs')
    BY <1>1, <1>2, <1>4, <2>1, AppendOnce
  <2>3. QED
    BY <1>1, <1>2, <1>3, <1>4, <2>1, <2>2 DEF Pending
<1>5. ASSUME NEW c \in Conns, c \in ran, ran' = ran \ {c}, NEW a \in {"idle", "running"},
             at' = [at EXCEPT ![c] = a], UNCHANGED <<jobs, dp>>
      PROVE  JobsOnce'
  BY <1>1, <1>2, <1>3, <1>5 DEF Pending
<1>6. ASSUME UNCHANGED <<jobs, ran>>,
             \A c \in Conns : at'[c] \in {"resetting", "finishing"} <=> at[c] \in {"resetting", "finishing"},
             dp' = "model" <=> dp = "model"
      PROVE  JobsOnce'
  BY <1>2, <1>3, <1>6 DEF Pending
<1>7. ASSUME NEW c \in Conns, Start(c) \/ End(c) PROVE JobsOnce'
  BY <1>4, <1>7 DEF Start, End, dispVars
<1>8. ASSUME NEW c \in Conns, ResetReturned(c) \/ FinishReturned(c) PROVE JobsOnce'
  BY <1>5, <1>8 DEF ResetReturned, FinishReturned, Release, dispVars
<1>9. ASSUME NEW c \in Conns, Observe(c) \/ Reply(c) PROVE JobsOnce'
  <2>1. /\ UNCHANGED <<jobs, ran, dp>> /\ at[c] \in {"running", "asked"}
        /\ at' = at \/ \E a \in {"running", "asked"} : at' = [at EXCEPT ![c] = a]
    BY <1>9 DEF Observe, Reply, jobVars, dispVars
  <2>2. QED
    BY <1>1, <1>6, <2>1
<1>10. ASSUME Dispatch(queue) \/ Take(queue) PROVE dp' # "model"
  BY <1>10 DEF Dispatch, Take
<1>11. RunOver => dp' # "model"
  <2>1. SUFFICES ASSUME AfterRun PROVE dp' # "model"
    BY DEF RunOver
  <2>2. QED
    BY <1>10, <2>1 DEF AfterRun
<1>12. CASE Woken \/ Deadline
  <2>1. dp # "model" /\ dp' # "model" /\ UNCHANGED <<jobs, ran, at>>
    BY <1>10, <1>12 DEF Woken, Deadline, connVars, jobVars
  <2>2. QED
    BY <1>6, <2>1
<1>13. CASE Infer
  <2>1. /\ dp = "checkpoint" /\ UNCHANGED <<at, ran>>
        /\ \/ dp' = "model" /\ jobs' = Append(jobs, Dispatcher)
           \/ RunOver /\ UNCHANGED jobs
    BY <1>13, InferSteps
  <2>2. CASE dp' = "model" /\ jobs' = Append(jobs, Dispatcher)
    <3>1. Dispatcher \notin Range(jobs) /\ Dispatcher \notin ran
      BY <1>2, <2>1 DEF Pending
    <3>2. Range(jobs') = Range(jobs) \cup {Dispatcher} /\ Once(jobs')
      BY <1>1, <1>2, <2>2, <3>1, AppendOnce
    <3>3. QED
      BY <1>1, <1>2, <1>3, <2>1, <2>2, <3>1, <3>2 DEF Pending
  <2>3. CASE RunOver /\ UNCHANGED jobs
    BY <1>6, <1>11, <2>1, <2>3
  <2>4. QED
    BY <2>1, <2>2, <2>3
<1>14. CASE InferReturned \/ InferRaised
  <2>1. dp' # "model" /\ Dispatcher \in ran /\ ran' = ran \ {Dispatcher} /\ UNCHANGED <<at, jobs>>
    BY <1>11, <1>14, InferOverSteps
  <2>2. QED
    BY <1>1, <1>2, <1>3, <2>1 DEF Pending
<1>15. CASE Stop
  <2>1. dp # "model" /\ dp' # "model" /\ UNCHANGED <<at, jobs, ran>>
    BY <1>15 DEF Stop, jobVars
  <2>2. QED
    BY <1>6, <2>1
<1>16. CASE RunJob
  <2>1. jobs # <<>> /\ jobs' = Tail(jobs) /\ ran' = ran \cup {Head(jobs)} /\ UNCHANGED <<at, dp>>
    BY <1>16 DEF RunJob, connVars, dispVars
  <2>2. Range(jobs') = Range(jobs) \ {Head(jobs)} /\ Head(jobs) \in Range(jobs) /\ Once(jobs')
    BY <1>1, <1>2, <2>1, TailOnce
  <2>3. QED
    BY <1>2, <1>3, <2>1, <2>2 DEF Pending
<1>17. CASE UNCHANGED <<jobs, ran, at, dp>>
  BY <1>6, <1>17
<1>18. QED
  BY <1>7, <1>8, <1>9, <1>12, <1>13, <1>14, <1>15, <1>16, <1>17
     DEF Next, Handler, Engine, FailEpisode, SetLimit, connVars, dispVars, jobVars

LEMMA DispatcherFitsNext ==
  ASSUME DataOK, DispatcherFits, Next
  PROVE  DispatcherFits'
<1>1. /\ queue \in Seq(Requests) /\ batch \in Seq(Requests) /\ rest \in Seq(Requests)
      /\ dp \in {"sleep", "gather", "checkpoint", "model", "down"}
  BY DEF DataOK, QueueData
<1>2. CASE RunOver
  BY <1>1, <1>2, AfterRunSplits DEF RunOver, DispatcherFits
<1>3. CASE Woken
  BY <1>1, <1>3, DispatchSplits DEF Woken, DispatcherFits
<1>4. CASE Deadline
  BY <1>1, <1>4, TakeSplits DEF Deadline, DispatcherFits
<1>5. CASE Infer
  <2>1. CASE RunOver
    BY <1>2, <2>1
  <2>2. CASE dp = "checkpoint" /\ dp' = "model" /\ UNCHANGED <<queue, batch, rest>>
    BY <2>2 DEF DispatcherFits
  <2>3. QED
    BY <1>5, <2>1, <2>2, InferSteps
<1>6. CASE InferReturned \/ InferRaised
  BY <1>2, <1>6, InferOverSteps
<1>7. CASE Stop
  BY <1>7 DEF Stop, DispatcherFits
<1>8. CASE UNCHANGED <<dp, batch, rest>>
  BY <1>8 DEF DispatcherFits
<1>9. QED
  BY <1>2, <1>3, <1>4, <1>5, <1>6, <1>7, <1>8
     DEF Next, Handler, Engine, Start, Observe, End, Reply, ResetReturned, FinishReturned, FailEpisode,
         SetLimit, RunJob, dispVars


-----------------------------------------------------------------------------
(* The requests that are not done are those the handlers wait for.         *)

\* The requests of the batch, and those after it.
LEMMA LaterFit ==
  ASSUME NEW s \in Seq(Requests), NEW t \in Seq(Requests), RequestsFit(s \o t)
  PROVE  /\ RequestsFit(s) /\ RequestsFit(t)
         /\ \A k \in DOMAIN s : \A l \in DOMAIN t : Live(s[k]) /\ Live(t[l]) => s[k].conn # t[l].conn
<1>1. /\ Len(s) \in Nat /\ Len(t) \in Nat /\ DOMAIN s = 1 .. Len(s) /\ DOMAIN t = 1 .. Len(t)
      /\ DOMAIN (s \o t) = 1 .. Len(s) + Len(t)
      /\ \A i \in 1 .. Len(s) + Len(t) : (s \o t)[i] = IF i <= Len(s) THEN s[i] ELSE t[i - Len(s)]
  BY ConcatProperties, LenProperties
<1>2. \A k \in DOMAIN s : k \in DOMAIN (s \o t) /\ (s \o t)[k] = s[k]
  BY <1>1
<1>3. \A k \in DOMAIN t : /\ Len(s) + k \in DOMAIN (s \o t) /\ (s \o t)[Len(s) + k] = t[k]
  <2>1. \A k \in 1 .. Len(t) : Len(s) + k \in 1 .. Len(s) + Len(t) /\ ~(Len(s) + k <= Len(s)) /\ (Len(s) + k) - Len(s) = k
    BY <1>1
  <2>2. QED
    BY <1>1, <2>1
<1>4. \A k \in DOMAIN s : \A l \in DOMAIN t : k # Len(s) + l
  BY <1>1
<1>5. \A k, l \in DOMAIN t : Len(s) + k = Len(s) + l => k = l
  BY <1>1
<1>6. RequestsFit(s)
  BY <1>2 DEF RequestsFit
<1>7. RequestsFit(t)
  BY <1>3, <1>5 DEF RequestsFit
<1>8. QED
  BY <1>2, <1>3, <1>4, <1>6, <1>7 DEF RequestsFit

\* Requests go on fitting while what their live ones are about stays.
LEMMA RequestsMove ==
  ASSUME RowData, RowData', \A r \in Rows : gen[r] <= gen'[r],
         NEW s \in Seq(Requests), RequestsFit(s),
         \A k \in DOMAIN s : Live(s[k]) /\ Live(s[k])' =>
           /\ at'[s[k].conn] = "asked" /\ asked'[s[k].conn] = asked[s[k].conn]
           /\ ~outcome'[s[k].conn].done
  PROVE  /\ RequestsFit(s)'
         /\ \A k \in DOMAIN s : Live(s[k])' => Live(s[k])
<1>1. \A k \in DOMAIN s : s[k].rows \subseteq Asked
  <2>1. \A k \in DOMAIN s : s[k] \in Requests
    BY LenProperties, ElementOfSeq
  <2>2. QED
    BY <2>1 DEF Requests
<1>2. \A r \in Rows : gen[r] \in Nat /\ gen'[r] \in Nat
  BY DEF RowData
<1>3. \A k \in DOMAIN s : \A x \in s[k].rows : x.row \in Rows /\ x.gen \in Nat
  BY <1>1 DEF Asked
<1>4. ASSUME NEW k \in DOMAIN s PROVE Live(s[k])' => Live(s[k])
  BY <1>2, <1>3 DEF Live, Current, RequestsFit, RequestFits
<1>5. ASSUME NEW k \in DOMAIN s PROVE RequestFits(s[k])'
  <2>1. /\ s[k].rows # {} /\ \A x, y \in s[k].rows : x.row = y.row => x = y
        /\ \A x \in s[k].rows : x.gen <= gen'[x.row]
    BY <1>2, <1>3 DEF RequestsFit, RequestFits
  <2>2. Live(s[k])' => Live(s[k])
    BY <1>4
  <2>3. Live(s[k]) => s[k].rows = asked[s[k].conn]
    BY DEF RequestsFit, RequestFits
  <2>4. QED
    BY <2>1, <2>2, <2>3 DEF RequestFits
<1>6. ASSUME NEW k \in DOMAIN s, NEW l \in DOMAIN s, Live(s[k])', Live(s[l])', s[k].conn = s[l].conn
      PROVE  k = l
  BY <1>4, <1>6 DEF RequestsFit
<1>7. QED
  BY <1>4, <1>5, <1>6 DEF RequestsFit

\* A request more, of a handler that has none.
LEMMA RequestsAppend ==
  ASSUME NEW s \in Seq(Requests), NEW new \in Requests, RequestsFit(s)', RequestFits(new)',
         \A k \in DOMAIN s : Live(s[k])' => s[k].conn # new.conn
  PROVE  RequestsFit(Append(s, new))'
<1>1. /\ Len(s) \in Nat /\ DOMAIN s = 1 .. Len(s)
      /\ DOMAIN Append(s, new) = 1 .. Len(s) + 1
      /\ \A i \in 1 .. Len(s) : Append(s, new)[i] = s[i]
      /\ Append(s, new)[Len(s) + 1] = new
  BY AppendProperties, LenProperties
<1>2. \A k \in DOMAIN Append(s, new) :
        \/ k \in DOMAIN s /\ Append(s, new)[k] = s[k]
        \/ k = Len(s) + 1 /\ Append(s, new)[k] = new
  BY <1>1
<1>3. QED
  BY <1>2 DEF RequestsFit

LEMMA RequestsNone ==
  RequestsFit(<<>>)
BY DEF RequestsFit

\* What still runs of a request that is not done is what its handler waits for.
LEMMA LiveFacts ==
  ASSUME RequestsFit(Unfinished), AskedFits, ConnData, QueueData, RowsApart,
         NEW k \in DOMAIN Unfinished, NEW x \in Unfinished[k].rows, Current(x)
  PROVE  LET c == Unfinished[k].conn IN
         /\ c \in Conns /\ at[c] = "asked" /\ Unfinished[k].rows = asked[c] /\ ~outcome[c].done
         /\ x \in Asked /\ x \in asked[c] /\ x.row \in rows[c] /\ ~failed[x.row]
         /\ \A d \in Conns : x.row \in rows[d] => d = c
<1>1. Unfinished \in Seq(Requests)
  BY UnfinishedParts DEF QueueData
<1>2. Unfinished[k] \in Requests
  BY <1>1, LenProperties, ElementOfSeq
<1>3. Unfinished[k].conn \in Conns /\ x \in Asked
  BY <1>2 DEF Requests
<1>4. Live(Unfinished[k])
  BY DEF Live
<1>5. /\ at[Unfinished[k].conn] = "asked" /\ Unfinished[k].rows = asked[Unfinished[k].conn]
      /\ ~outcome[Unfinished[k].conn].done
  BY <1>4 DEF RequestsFit, RequestFits
<1>6. QED
  BY <1>3, <1>5 DEF AskedFits, AskFits, RowsApart

LEMMA RunningPosition ==
  ASSUME RequestsFit(Unfinished), AskedFits, ConnData, QueueData, RowsApart,
         NEW p \in Positions(batch), Current(p[2])
  PROVE  LET c == batch[p[1]].conn IN
         /\ p[1] \in DOMAIN batch
         /\ c \in Conns /\ at[c] = "asked" /\ batch[p[1]].rows = asked[c] /\ ~outcome[c].done
         /\ p[2] \in Asked /\ p[2] \in asked[c] /\ p[2].row \in rows[c] /\ ~failed[p[2].row]
         /\ \A d \in Conns : p[2].row \in rows[d] => d = c
<1>1. batch \in Seq(Requests) /\ rest \in Seq(Requests) /\ queue \in Seq(Requests)
  BY DEF QueueData
<1>2. rest \o queue \in Seq(Requests) /\ Unfinished = batch \o (rest \o queue)
  BY <1>1, UnfinishedParts
<1>3. p[1] \in DOMAIN batch /\ p[2] \in batch[p[1]].rows
  BY <1>1, PositionsOf
<1>4. p[1] \in DOMAIN Unfinished /\ Unfinished[p[1]] = batch[p[1]]
  <2>1. /\ Len(batch) \in Nat /\ Len(rest \o queue) \in Nat /\ DOMAIN batch = 1 .. Len(batch)
        /\ DOMAIN Unfinished = 1 .. Len(batch) + Len(rest \o queue)
        /\ \A i \in 1 .. Len(batch) + Len(rest \o queue) :
             Unfinished[i] = IF i <= Len(batch) THEN batch[i] ELSE (rest \o queue)[i - Len(batch)]
    BY <1>1, <1>2, ConcatProperties, LenProperties
  <2>2. QED
    BY <1>3, <2>1
<1>5. QED
  BY <1>3, <1>4, LiveFacts


LEMMA RequestsNext ==
  ASSUME EngineInv, DataOK', Next
  PROVE  RequestsFit(Unfinished)'
<1>1. /\ ConnData /\ RowData /\ QueueData /\ RowsApart /\ AskedFits /\ DispatcherFits /\ RowData'
      /\ RequestsFit(Unfinished) /\ OutcomeData
  BY DEF EngineInv, DataOK
<1>2. /\ queue \in Seq(Requests) /\ batch \in Seq(Requests) /\ rest \in Seq(Requests)
      /\ Unfinished \in Seq(Requests) /\ rest \o queue \in Seq(Requests)
      /\ Unfinished = batch \o (rest \o queue)
      /\ batch = <<>> /\ rest = <<>> => Unfinished = queue
  BY <1>1, UnfinishedParts DEF QueueData
<1>3. \A r \in Rows : gen[r] <= gen'[r]
  BY <1>1, GenGrows
<1> DEFINE Stays(s) == \A k \in DOMAIN s : Live(s[k]) /\ Live(s[k])' =>
                         /\ at'[s[k].conn] = "asked" /\ asked'[s[k].conn] = asked[s[k].conn]
                         /\ ~outcome'[s[k].conn].done
<1>4. \A s \in Seq(Requests) : RequestsFit(s) /\ Stays(s) => RequestsFit(s)' /\ \A k \in DOMAIN s : Live(s[k])' => Live(s[k])
  BY <1>1, <1>3, RequestsMove
<1>5. \A k \in DOMAIN Unfinished : Live(Unfinished[k]) =>
        LET c == Unfinished[k].conn IN
        /\ c \in Conns /\ at[c] = "asked" /\ Unfinished[k].rows = asked[c] /\ ~outcome[c].done
        /\ \A x \in asked[c] : x.row \in rows[c] /\ x.row \in Rows /\ x.gen <= gen[x.row]
  <2>1. SUFFICES ASSUME NEW k \in DOMAIN Unfinished, Live(Unfinished[k])
                 PROVE  LET c == Unfinished[k].conn IN
                        /\ c \in Conns /\ at[c] = "asked" /\ Unfinished[k].rows = asked[c] /\ ~outcome[c].done
                        /\ \A x \in asked[c] : x.row \in rows[c] /\ x.row \in Rows /\ x.gen <= gen[x.row]
    OBVIOUS
  <2>2. PICK x \in Unfinished[k].rows : Current(x)
    BY <2>1 DEF Live
  <2> DEFINE c == Unfinished[k].conn
  <2>3. c \in Conns /\ at[c] = "asked" /\ Unfinished[k].rows = asked[c] /\ ~outcome[c].done
    BY <1>1, <2>2, LiveFacts
  <2>4. \A y \in asked[c] : y.row \in rows[c] /\ y.gen <= gen[y.row]
    BY <1>1, <2>3 DEF AskedFits, AskFits
  <2>5. rows[c] \subseteq Rows
    BY <1>1, <2>3 DEF ConnData
  <2>6. QED
    BY <2>3, <2>4, <2>5
<1>6. ASSUME Unfinished' = Unfinished, Stays(Unfinished) PROVE RequestsFit(Unfinished)'
  <2> DEFINE U == Unfinished
  <2>1. PICK s \in Seq(Requests) : s = Unfinished
    BY <1>2
  <2>2. RequestsFit(s)'
    BY <1>1, <1>4, <1>6, <2>1
  <2>3. QED
    BY <1>6, <2>1, <2>2 DEF RequestsFit
<1>7. ASSUME UNCHANGED <<queue, batch, rest>> PROVE Unfinished' = Unfinished
  BY <1>7 DEF Unfinished
<1>8. ASSUME NEW c \in Conns, at[c] # "asked" \/ outcome[c].done,
             UNCHANGED <<queue, batch, rest>>,
             \A d \in Conns \ {c} : at'[d] = at[d] /\ asked'[d] = asked[d] /\ outcome'[d] = outcome[d]
      PROVE  RequestsFit(Unfinished)'
  <2>1. Stays(Unfinished)
    BY <1>5, <1>8
  <2>2. QED
    BY <1>6, <1>7, <1>8, <2>1
<1>9. ASSUME NEW c \in Conns, Start(c) \/ ResetReturned(c) \/ FinishReturned(c) \/ Reply(c)
      PROVE  RequestsFit(Unfinished)'
  <2>1. /\ at[c] # "asked" \/ outcome[c].done
        /\ UNCHANGED <<queue, batch, rest>>
    BY <1>9 DEF Start, ResetReturned, FinishReturned, Reply, dispVars
  <2>2. \A d \in Conns \ {c} : at'[d] = at[d]
    BY <1>1, <1>9 DEF Start, ResetReturned, FinishReturned, Reply, Release, ConnData
  <2>3. \A d \in Conns \ {c} : asked'[d] = asked[d] /\ outcome'[d] = outcome[d]
    BY <1>1, <1>9 DEF Start, ResetReturned, FinishReturned, Reply, ConnData, OutcomeData
  <2>4. QED
    BY <1>8, <2>1, <2>2, <2>3
<1>10. ASSUME NEW c \in Conns, End(c) PROVE RequestsFit(Unfinished)'
  <2>1. /\ gen' = [r \in Rows |-> IF r \in rows[c] THEN gen[r] + 1 ELSE gen[r]]
        /\ UNCHANGED <<queue, batch, rest>>
        /\ \A d \in Conns \ {c} : at'[d] = at[d] /\ asked'[d] = asked[d] /\ outcome'[d] = outcome[d]
    BY <1>1, <1>10 DEF End, dispVars, ConnData, OutcomeData
  <2>2. \A k \in DOMAIN Unfinished : Live(Unfinished[k]) /\ Live(Unfinished[k])' => Unfinished[k].conn # c
    <3>1. SUFFICES ASSUME NEW k \in DOMAIN Unfinished, Live(Unfinished[k]), Live(Unfinished[k])',
                          Unfinished[k].conn = c
                   PROVE  FALSE
      OBVIOUS
    <3>2. \A x \in Unfinished[k].rows : x.row \in rows[c] /\ x.row \in Rows /\ x.gen <= gen[x.row]
      BY <1>5, <3>1
    <3>3. Unfinished'[k] = Unfinished[k]
      BY <1>7, <2>1
    <3>4. PICK x \in Unfinished[k].rows : gen'[x.row] = x.gen
      BY <3>1, <3>3 DEF Live, Current
    <3>5. Unfinished[k].rows \subseteq Asked
      <4>1. Unfinished[k] \in Requests
        BY <1>2, LenProperties, ElementOfSeq
      <4>2. QED
        BY <4>1 DEF Requests
    <3>6. x.gen \in Nat /\ gen[x.row] \in Nat /\ gen'[x.row] = gen[x.row] + 1
      BY <1>1, <2>1, <3>2, <3>5 DEF Asked, RowData
    <3>7. x.gen <= gen[x.row]
      BY <3>2
    <3>8. QED
      BY <3>4, <3>6, <3>7
  <2>3. Stays(Unfinished)
    BY <1>5, <2>1, <2>2
  <2>4. QED
    BY <1>6, <1>7, <2>1, <2>3
<1>11. ASSUME NEW c \in Conns, Observe(c) PROVE RequestsFit(Unfinished)'
  <2> DEFINE new == [conn |-> c, rows |-> Asks(c),
                     wait |-> Cardinality(Asks(c)) = 1 /\ c \notin VectorConns]
  <2>1. /\ at[c] = "running" /\ UNCHANGED <<outcome, gen, batch, rest>>
        /\ \E r \in rows[c] : ~failed[r]
        /\ \/ UNCHANGED <<at, asked, queue>>
           \/ /\ queue' = Append(queue, new)
              /\ at' = [at EXCEPT ![c] = "asked"] /\ asked' = [asked EXCEPT ![c] = Asks(c)]
    BY <1>11 DEF Observe
  <2>2. CASE UNCHANGED <<at, asked, queue>>
    BY <1>8, <2>1, <2>2
  <2>3. CASE /\ queue' = Append(queue, new)
             /\ at' = [at EXCEPT ![c] = "asked"] /\ asked' = [asked EXCEPT ![c] = Asks(c)]
    <3>1. new \in Requests
      <4>1. Asks(c) \in SUBSET Asked
        BY <1>1, AsksFit
      <4>2. (Cardinality(Asks(c)) = 1 /\ c \notin VectorConns) \in BOOLEAN
        OBVIOUS
      <4>3. QED
        BY <4>1, <4>2 DEF Requests
    <3>2. /\ at'[c] = "asked" /\ asked'[c] = Asks(c) /\ ~outcome'[c].done
          /\ \A d \in Conns \ {c} : at'[d] = at[d] /\ asked'[d] = asked[d] /\ outcome'[d] = outcome[d]
      BY <1>1, <2>1, <2>3 DEF ConnData, AskedFits, AskFits
    <3>3. PICK n \in Requests : n = new
      BY <3>1
    <3>4. n.conn = c /\ n.rows = Asks(c)
      BY <3>3
    <3> HIDE DEF new
    <3>5. RequestFits(n)'
      <4>1. \A x \in Asks(c) : x.row \in rows[c] /\ x.gen = gen[x.row]
        BY <1>1, AsksFit
      <4>2. \A r \in rows[c] : gen[r] \in Nat
        BY <1>1 DEF ConnData, RowData
      <4>3. Asks(c) # {} /\ \A x, y \in Asks(c) : x.row = y.row => x = y
        BY <1>1, <2>1, AsksFit
      <4>4. \A x \in n.rows : x.gen <= gen'[x.row]
        BY <2>1, <3>4, <4>1, <4>2
      <4>5. QED
        BY <3>2, <3>4, <4>3, <4>4 DEF RequestFits
    <3>6. Unfinished' = Append(Unfinished, n)
      <4>1. /\ <<n>> \in Seq(Requests) /\ batch \o rest \in Seq(Requests)
            /\ Append(queue, n) = queue \o <<n>> /\ Append(Unfinished, n) = Unfinished \o <<n>>
        BY SMTT(20), <1>2, AppendIsConcat, ConcatProperties
      <4>2. (batch \o rest) \o (queue \o <<n>>) = ((batch \o rest) \o queue) \o <<n>>
        BY <1>2, <4>1, ConcatAssociative
      <4>3. QED
        BY <2>1, <2>3, <3>3, <4>1, <4>2 DEF Unfinished
    <3>7. PICK s \in Seq(Requests) : s = Unfinished
      BY <1>2
    <3>8. Stays(s)
      BY <1>5, <2>1, <3>2, <3>7
    <3>9. RequestsFit(s)' /\ \A k \in DOMAIN s : Live(s[k])' => Live(s[k])
      BY <1>1, <1>4, <3>7, <3>8
    <3>10. \A k \in DOMAIN s : Live(s[k])' => s[k].conn # n.conn
      BY <1>5, <2>1, <3>4, <3>7, <3>9
    <3>11. RequestsFit(Append(s, n))'
      BY <3>5, <3>9, <3>10, RequestsAppend
    <3>12. QED
      BY <3>6, <3>7, <3>11 DEF RequestsFit
  <2>4. QED
    BY <2>1, <2>2, <2>3
<1>12. ASSUME UNCHANGED <<at, asked, outcome>>, Unfinished' = Unfinished PROVE RequestsFit(Unfinished)'
  <2>1. Stays(Unfinished)
    BY <1>5, <1>12
  <2>2. QED
    BY <1>6, <1>12, <2>1
<1>13. CASE Woken
  <2>1. Unfinished' = queue
    BY <1>2, <1>13, DispatchSplits DEF Woken
  <2>2. Unfinished = queue
    BY <1>1, <1>2, <1>13 DEF Woken, DispatcherFits
  <2>3. QED
    BY <1>12, <1>13, <2>1, <2>2 DEF Woken, connVars
<1>14. CASE Deadline
  <2>1. Unfinished' = queue
    BY <1>2, <1>14, TakeSplits DEF Deadline
  <2>2. Unfinished = queue
    BY <1>1, <1>2, <1>14 DEF Deadline, DispatcherFits
  <2>3. QED
    BY <1>12, <1>14, <2>1, <2>2 DEF Deadline, connVars
<1>15. ASSUME RunOver, UNCHANGED <<at, asked, gen>> PROVE RequestsFit(Unfinished)'
  <2>1. Unfinished' = rest \o queue
    BY <1>2, <1>15, AfterRunSplits DEF RunOver
  <2>2. PICK s \in Seq(Requests), t \in Seq(Requests) : s = batch /\ t = rest \o queue
    BY <1>2
  <2>3. /\ RequestsFit(t)
        /\ \A k \in DOMAIN s : \A l \in DOMAIN t : Live(s[k]) /\ Live(t[l]) => s[k].conn # t[l].conn
    BY <1>1, <1>2, <2>2, LaterFit
  <2>4. \A k \in DOMAIN t : Live(t[k]) => /\ at[t[k].conn] = "asked" /\ t[k].rows = asked[t[k].conn]
                                          /\ ~outcome[t[k].conn].done /\ t[k].conn \in Conns
    <3>1. \A k \in DOMAIN t : t[k].conn \in Conns
      <4>1. \A k \in DOMAIN t : t[k] \in Requests
        BY LenProperties, ElementOfSeq
      <4>2. QED
        BY <4>1 DEF Requests
    <3>2. QED
      BY <2>3, <3>1 DEF RequestsFit, RequestFits
  <2>5. \A k \in DOMAIN t : Live(t[k]) => ~Answered(t[k].conn, batch)
    <3>1. SUFFICES ASSUME NEW k \in DOMAIN t, Live(t[k]), Answered(t[k].conn, batch) PROVE FALSE
      OBVIOUS
    <3>2. PICK j \in DOMAIN s : s[j].conn = t[k].conn /\ s[j].rows = asked[t[k].conn]
      BY <2>2, <3>1 DEF Answered
    <3>3. Live(s[j])
      BY <2>4, <3>1, <3>2 DEF Live
    <3>4. QED
      BY <2>3, <3>1, <3>2, <3>3
  <2>6. Stays(t)
    BY <1>15, <2>4, <2>5 DEF RunOver, Completes
  <2>7. RequestsFit(t)'
    BY <1>4, <2>3, <2>6
  <2>8. QED
    BY <2>1, <2>2, <2>7 DEF RequestsFit
<1>16. CASE Infer
  <2>1. CASE RunOver
    BY <1>15, <1>16, <2>1, InferSteps
  <2>2. CASE UNCHANGED <<at, asked, outcome, queue, batch, rest>>
    BY <1>7, <1>12, <2>2
  <2>3. QED
    BY <1>16, <2>1, <2>2, InferSteps
<1>17. CASE InferReturned \/ InferRaised
  BY <1>15, <1>17, InferOverSteps
<1>18. CASE Stop
  <2>1. batch' = <<>> /\ rest' = <<>> /\ queue' = <<>>
    BY <1>18, StopSteps
  <2>2. <<>> \o <<>> \o <<>> = <<>>
    BY ConcatEmptySeq, EmptySeq
  <2>3. Unfinished' = <<>>
    BY <2>1, <2>2 DEF Unfinished
  <2>4. QED
    BY <2>3 DEF RequestsFit
<1>19. CASE UNCHANGED <<at, asked, outcome, queue, batch, rest>>
  BY <1>7, <1>12, <1>19
<1>20. QED
  BY <1>9, <1>10, <1>11, <1>13, <1>14, <1>16, <1>17, <1>18, <1>19
     DEF Next, Handler, Engine, FailEpisode, SetLimit, RunJob, connVars, dispVars


\* What a connection asks stays while its own state does.
LEMMA AskStays ==
  ASSUME NEW d \in Conns, AskFits(d), ConnData,
         rows'[d] = rows[d], asked'[d] = asked[d], at'[d] = at[d], outcome'[d].done => at[d] = "asked",
         \A r \in rows[d] : gen'[r] = gen[r] /\ steps'[r] = steps[r] /\ failed'[r] = failed[r]
  PROVE  AskFits(d)'
BY DEF AskFits, Current

LEMMA AskNothing ==
  ASSUME NEW d \in Conns, asked'[d] = {}, at'[d] # "asked", ~outcome'[d].done
  PROVE  AskFits(d)'
BY DEF AskFits

LEMMA AskedNext ==
  ASSUME EngineInv, Next
  PROVE  AskedFits'
<1>1. /\ ConnData /\ RowData /\ QueueData /\ OutcomeData /\ RowsApart /\ DispatcherFits
      /\ RequestsFit(Unfinished) /\ \A c \in Conns : AskFits(c)
  BY DEF EngineInv, DataOK, AskedFits
<1>2. /\ at \in [Conns -> {"idle", "resetting", "running", "asked", "finishing"}]
      /\ rows \in [Conns -> SUBSET Rows] /\ asked \in [Conns -> SUBSET Asked] /\ DOMAIN outcome = Conns
      /\ gen \in [Rows -> Nat] /\ steps \in [Rows -> Nat] /\ failed \in [Rows -> BOOLEAN]
  BY <1>1 DEF ConnData, RowData, OutcomeData
<1>3. \A c, d \in Conns : c # d => rows[c] \cap rows[d] = {}
  BY <1>1 DEF RowsApart
<1>4. SUFFICES ASSUME NEW d \in Conns PROVE AskFits(d)'
  BY DEF AskedFits
<1>5. AskFits(d)
  BY <1>1
<1>6. ASSUME UNCHANGED <<at, rows, asked, gen, steps, failed>>, outcome'[d].done => at[d] = "asked"
      PROVE  AskFits(d)'
  BY <1>1, <1>5, <1>6, AskStays
<1>7. outcome[d].done => at[d] = "asked"
  BY <1>5 DEF AskFits
<1>8. CASE UNCHANGED <<at, rows, asked, outcome, gen, steps, failed>>
  BY <1>6, <1>7, <1>8
<1>9. ASSUME NEW c \in Conns, c # d,
             rows'[d] = rows[d], asked'[d] = asked[d], at'[d] = at[d], outcome'[d] = outcome[d],
             \A r \in Rows \ rows[c] : gen'[r] = gen[r] /\ steps'[r] = steps[r] /\ failed'[r] = failed[r]
      PROVE  AskFits(d)'
  <2>1. \A r \in rows[d] : r \in Rows \ rows[c]
    BY <1>2, <1>3, <1>9
  <2>2. QED
    BY <1>1, <1>5, <1>7, <1>9, <2>1, AskStays
<1>10. ASSUME NEW c \in Conns, Start(c) PROVE AskFits(d)'
  <2>1. /\ rows' = [rows EXCEPT ![c] = NewRows(c)] /\ at' = [at EXCEPT ![c] = "resetting"]
        /\ gen' = [r \in Rows |-> IF r \in rows'[c] THEN gen[r] + 1 ELSE gen[r]]
        /\ steps' = [r \in Rows |-> IF r \in rows'[c] THEN 0 ELSE steps[r]]
        /\ at[c] = "idle" /\ UNCHANGED <<asked, outcome, failed>>
    BY <1>10 DEF Start
  <2>2. CASE c = d
    BY <1>2, <1>5, <2>1, <2>2, AskNothing DEF AskFits
  <2>3. CASE c # d
    <3>1. rows'[c] = NewRows(c) /\ NewRows(c) \cap rows[d] = {} /\ rows'[d] = rows[d] /\ at'[d] = at[d]
      BY <1>2, <2>1, <2>3 DEF NewRows, TakenRows
    <3>2. \A r \in rows[d] : gen'[r] = gen[r] /\ steps'[r] = steps[r] /\ failed'[r] = failed[r]
      BY <1>2, <2>1, <3>1
    <3>3. QED
      BY <1>1, <1>5, <1>7, <2>1, <3>1, <3>2, AskStays
  <2>4. QED
    BY <2>2, <2>3
<1>11. ASSUME NEW c \in Conns, ResetReturned(c) \/ FinishReturned(c) PROVE AskFits(d)'
  <2>1. /\ at[c] \in {"resetting", "finishing"} /\ UNCHANGED <<asked, outcome, gen, steps>>
        /\ \/ at' = [at EXCEPT ![c] = "running"] /\ UNCHANGED <<rows, failed>>
           \/ Release(c)
    BY <1>11 DEF ResetReturned, FinishReturned
  <2>2. /\ at'[c] # "asked"
        /\ c # d => rows'[d] = rows[d] /\ at'[d] = at[d]
        /\ \A r \in Rows \ rows[c] : failed'[r] = failed[r]
    BY <1>2, <2>1 DEF Release
  <2>3. CASE c = d
    BY <1>5, <2>1, <2>2, <2>3, AskNothing DEF AskFits
  <2>4. CASE c # d
    BY <1>9, <2>1, <2>2, <2>4
  <2>5. QED
    BY <2>3, <2>4
<1>12. ASSUME NEW c \in Conns, Observe(c) PROVE AskFits(d)'
  <2>1. /\ at[c] = "running" /\ UNCHANGED <<rows, outcome, gen, failed>>
        /\ \E r \in rows[c] : ~failed[r]
        /\ steps' = [r \in Rows |-> IF r \in rows[c] THEN steps[r] + 1 ELSE steps[r]]
        /\ \/ UNCHANGED <<at, asked>>
           \/ at' = [at EXCEPT ![c] = "asked"] /\ asked' = [asked EXCEPT ![c] = Asks(c)]
    BY <1>12 DEF Observe
  <2>2. CASE c # d
    BY <1>2, <1>9, <2>1, <2>2
  <2>3. CASE c = d /\ UNCHANGED <<at, asked>>
    BY <1>5, <2>1, <2>3, AskNothing DEF AskFits
  <2>4. CASE c = d /\ at' = [at EXCEPT ![c] = "asked"] /\ asked' = [asked EXCEPT ![c] = Asks(c)]
    <3>1. at'[d] = "asked" /\ asked'[d] = Asks(d) /\ rows'[d] = rows[d] /\ ~outcome'[d].done
      BY <1>2, <1>5, <2>1, <2>4 DEF AskFits
    <3>2. /\ \A x \in Asks(d) : /\ x.row \in rows[d] /\ ~failed[x.row]
                                /\ x.gen = gen[x.row] /\ x.step = steps[x.row]
                                /\ \A y \in Asks(d) : x.row = y.row => x = y
          /\ \A r \in rows[d] : ~failed[r] => \E x \in Asks(d) : x.row = r
      BY <1>1, AsksFit
    <3>3. \A r \in rows[d] : gen'[r] = gen[r] /\ gen[r] \in Nat /\ failed'[r] = failed[r] /\ steps'[r] = steps[r] + 1
      BY <1>2, <2>1, <2>4
    <3>4. Asks(d) # {}
      BY <2>1, <2>4, <3>2
    <3>5. \A x \in Asks(d) : /\ x.row \in rows'[d] /\ x.gen <= gen'[x.row]
                             /\ gen'[x.row] = x.gen /\ ~failed'[x.row]
                             /\ x.step + 1 = steps'[x.row]
      BY <3>1, <3>2, <3>3
    <3>6. \A r \in rows'[d] : ~failed'[r] => \E x \in Asks(d) : x.row = r
      BY <3>1, <3>2, <3>3
    <3>7. QED
      BY <3>1, <3>2, <3>4, <3>5, <3>6 DEF AskFits, Current
  <2>5. QED
    BY <2>1, <2>2, <2>3, <2>4
<1>13. ASSUME NEW c \in Conns, Reply(c) \/ End(c) PROVE AskFits(d)'
  <2>1. /\ asked' = [asked EXCEPT ![c] = {}] /\ outcome' = [outcome EXCEPT ![c] = NotDone]
        /\ at' = [at EXCEPT ![c] = "running"] \/ at' = [at EXCEPT ![c] = "finishing"]
        /\ UNCHANGED <<rows, steps, failed>>
        /\ gen' = gen \/ gen' = [r \in Rows |-> IF r \in rows[c] THEN gen[r] + 1 ELSE gen[r]]
    BY <1>13 DEF Reply, End, rowVars
  <2>2. CASE c = d
    <3>1. asked'[d] = {} /\ at'[d] # "asked" /\ outcome'[d] = NotDone
      BY <1>2, <2>1, <2>2
    <3>2. QED
      BY <3>1, AskNothing DEF NotDone
  <2>3. CASE c # d
    <3>1. rows'[d] = rows[d] /\ asked'[d] = asked[d] /\ at'[d] = at[d] /\ outcome'[d] = outcome[d]
      BY <1>2, <2>1, <2>3
    <3>2. \A r \in Rows \ rows[c] : gen'[r] = gen[r] /\ steps'[r] = steps[r] /\ failed'[r] = failed[r]
      BY <2>1
    <3>3. QED
      BY <1>9, <2>3, <3>1, <3>2
  <2>4. QED
    BY <2>2, <2>3
<1>14. ASSUME NEW q \in Rows, FailEpisode(q) PROVE AskFits(d)'
  <2>1. /\ failed' = [failed EXCEPT ![q] = TRUE] /\ gen' = [gen EXCEPT ![q] = gen[q] + 1]
        /\ UNCHANGED <<at, rows, asked, outcome, steps>>
    BY <1>14 DEF FailEpisode, connVars
  <2>2. \A r \in Rows : r # q => gen'[r] = gen[r] /\ failed'[r] = failed[r]
    BY <1>2, <2>1
  <2>3. gen'[q] = gen[q] + 1 /\ failed'[q] /\ gen[q] \in Nat
    BY <1>2, <2>1
  <2>4. \A x \in asked[d] : x.row \in Rows /\ x.gen \in Nat /\ x.gen <= gen[x.row]
    <3>1. asked[d] \subseteq Asked
      BY <1>2
    <3>2. QED
      BY <1>5, <3>1 DEF AskFits, Asked
  <2>5. ASSUME NEW x \in asked[d]
        PROVE  /\ x.row \in rows[d] /\ x.gen <= gen'[x.row]
               /\ gen'[x.row] = x.gen <=> ~failed'[x.row]
               /\ gen'[x.row] = x.gen => x.step + 1 = steps[x.row]
    <3>1. CASE x.row = q
      BY <1>5, <2>3, <2>4, <3>1 DEF AskFits
    <3>2. CASE x.row # q
      BY <1>5, <2>2, <2>4, <3>2 DEF AskFits, Current
    <3>3. QED
      BY <3>1, <3>2
  <2>6. \A r \in rows[d] : ~failed'[r] => ~failed[r]
    BY <1>2, <2>2, <2>3
  <2>7. QED
    BY <1>5, <2>1, <2>5, <2>6 DEF AskFits, Current
<1>15. ASSUME NEW s, s \in Seq(Requests), Completes(s), \A k \in DOMAIN s : s[k].rows # {},
              UNCHANGED <<at, rows, asked, gen, steps, failed>>
       PROVE  AskFits(d)'
  <2>1. Answered(d, s) => asked[d] # {}
    BY <1>15 DEF Answered
  <2>2. outcome'[d].done => at[d] = "asked"
    <3>1. CASE Answered(d, s)
      BY <1>5, <2>1, <3>1 DEF AskFits
    <3>2. CASE ~Answered(d, s)
      BY <1>7, <1>15, <3>2 DEF Completes
    <3>3. QED
      BY <3>1, <3>2
  <2>3. QED
    BY <1>6, <1>15, <2>2
<1>16. /\ Unfinished \in Seq(Requests) /\ \A k \in DOMAIN Unfinished : Unfinished[k].rows # {}
       /\ batch \in Seq(Requests) /\ \A k \in DOMAIN batch : batch[k].rows # {}
  <2>1. /\ batch \in Seq(Requests) /\ rest \o queue \in Seq(Requests) /\ Unfinished \in Seq(Requests)
        /\ Unfinished = batch \o (rest \o queue)
    BY <1>1, UnfinishedParts DEF QueueData
  <2>2. RequestsFit(batch)
    BY <1>1, <2>1, LaterFit
  <2>3. QED
    BY <1>1, <2>1, <2>2 DEF RequestsFit, RequestFits
<1>17. CASE Infer
  <2>1. /\ UNCHANGED <<at, rows, asked, gen, steps, failed>>
        /\ UNCHANGED outcome \/ Completes(batch)
    BY <1>17, InferSteps DEF RunOver
  <2>2. QED
    BY <1>8, <1>15, <1>16, <2>1
<1>18. CASE InferReturned \/ InferRaised
  <2>1. UNCHANGED <<at, rows, asked, gen, steps, failed>> /\ Completes(batch)
    BY <1>18, InferOverSteps DEF RunOver
  <2>2. QED
    BY <1>15, <1>16, <2>1
<1>19. CASE Stop
  <2>1. UNCHANGED <<at, rows, asked, gen, steps, failed>> /\ Completes(Unfinished)
    BY <1>19, StopSteps DEF rowVars
  <2>2. QED
    BY <1>15, <1>16, <2>1
<1>20. QED
  BY <1>8, <1>10, <1>11, <1>12, <1>13, <1>14, <1>17, <1>18, <1>19
     DEF Next, Handler, Engine, Woken, Deadline, SetLimit, RunJob, connVars, rowVars


-----------------------------------------------------------------------------
(* Buffers belong to the episodes that run.                                *)

\* A row loses buffered actions, or nothing at all.
LEMMA RowPops ==
  ASSUME BufferData, NEW S, \A r \in S : buffers[r] # <<>>, buffers' = Popped(S),
         UNCHANGED <<failed, chunked, gen>>, NEW c \in Conns, NEW r \in Rows, RowFits(c, r),
         at'[c] = at[c] \/ (at[c] = "running" /\ at'[c] = "asked")
  PROVE  RowFits(c, r)'
<1>1. CASE r \notin S
  <2>1. buffers'[r] = buffers[r]
    BY <1>1, PoppedKeeps
  <2>2. QED
    BY <2>1 DEF RowFits
<1>2. CASE r \in S
  <2>1. /\ buffers[r] # <<>>
        /\ Len(buffers[r]) \in Nat \ {0} /\ DOMAIN buffers[r] = 1 .. Len(buffers[r])
        /\ DOMAIN buffers'[r] = 1 .. Len(buffers[r]) - 1
        /\ \A i \in DOMAIN buffers'[r] : buffers'[r][i] = buffers[r][i + 1]
    BY <1>2, PoppedKeeps
  <2>2. \A i \in DOMAIN buffers'[r] : i + 1 \in DOMAIN buffers[r]
    BY <2>1
  <2>3. at[c] # "resetting" /\ c \in Chunking
    BY <2>1 DEF RowFits
  <2>4. ASSUME at'[c] \in {"running", "asked"}, ~failed'[r], NEW i \in DOMAIN buffers'[r]
        PROVE  buffers'[r][i].gen = gen'[r]
    BY <2>1, <2>2, <2>4 DEF RowFits
  <2>5. QED
    BY <2>3, <2>4 DEF RowFits
<1>3. QED
  BY <1>1, <1>2

LEMMA ChunksNext ==
  ASSUME EngineInv, DataOK', Next
  PROVE  ChunksFit'
<1>1. /\ ConnData /\ RowData /\ QueueData /\ BufferData /\ RowsApart /\ DispatcherFits /\ AskedFits
      /\ RequestsFit(Unfinished) /\ ChunksFit /\ CallFits /\ DataOK
  BY DEF EngineInv, DataOK
<1>2. /\ at \in [Conns -> {"idle", "resetting", "running", "asked", "finishing"}]
      /\ rows \in [Conns -> SUBSET Rows] /\ gen \in [Rows -> Nat] /\ failed \in [Rows -> BOOLEAN]
      /\ chunked \in [Rows -> BOOLEAN] /\ buffers \in [Rows -> Seq(Asked)]
      /\ rows' \in [Conns -> SUBSET Rows]
  BY <1>1 DEF ConnData, RowData, BufferData, DataOK
<1>3. \A c, d \in Conns : c # d => rows[c] \cap rows[d] = {}
  BY <1>1 DEF RowsApart
<1>4. /\ \A r \in Rows : (\A c \in Conns : r \notin rows[c]) => buffers[r] = <<>> /\ ~failed[r]
      /\ \A c \in Conns : \A r \in rows[c] : RowFits(c, r)
  BY <1>1 DEF ChunksFit, TakenRows
<1>5. SUFFICES /\ \A r \in Rows : (\A c \in Conns : r \notin rows'[c]) => buffers'[r] = <<>> /\ ~failed'[r]
               /\ \A c \in Conns : \A r \in rows'[c] : RowFits(c, r)'
  BY DEF ChunksFit, TakenRows
<1> DEFINE Goal == /\ \A r \in Rows : (\A c \in Conns : r \notin rows'[c]) => buffers'[r] = <<>> /\ ~failed'[r]
                   /\ \A c \in Conns : \A r \in rows'[c] : RowFits(c, r)'
\* Only the rows of c change.
<1>6. ASSUME NEW c \in Conns,
             \A d \in Conns \ {c} : rows'[d] = rows[d] /\ at'[d] = at[d],
             \A r \in Rows \ rows[c] : r \notin rows'[c] =>
               buffers'[r] = buffers[r] /\ failed'[r] = failed[r] /\ chunked'[r] = chunked[r] /\ gen'[r] = gen[r],
             \A r \in rows'[c] : (\A d \in Conns \ {c} : r \notin rows[d]) /\ RowFits(c, r)',
             \A r \in rows[c] : r \notin rows'[c] => buffers'[r] = <<>> /\ ~failed'[r]
      PROVE  Goal
  <2>1. ASSUME NEW r \in Rows, \A d \in Conns : r \notin rows'[d] PROVE buffers'[r] = <<>> /\ ~failed'[r]
    BY <1>4, <1>6, <2>1
  <2>2. ASSUME NEW d \in Conns, NEW r \in rows'[d] PROVE RowFits(d, r)'
    <3>1. CASE d = c
      BY <1>6, <2>2, <3>1
    <3>2. CASE d # c
      <4>1. r \in rows[d] /\ r \in Rows /\ r \notin rows[c] /\ r \notin rows'[c] /\ at'[d] = at[d]
        BY <1>2, <1>3, <1>6, <2>2, <3>2
      <4>2. buffers'[r] = buffers[r] /\ failed'[r] = failed[r] /\ chunked'[r] = chunked[r] /\ gen'[r] = gen[r]
        BY <1>6, <4>1
      <4>3. RowFits(d, r)
        BY <1>4, <4>1
      <4>4. QED
        BY <4>1, <4>2, <4>3 DEF RowFits
    <3>3. QED
      BY <3>1, <3>2
  <2>3. QED
    BY <2>1, <2>2
<1>7. CASE UNCHANGED <<at, rows, buffers, failed, chunked, gen>>
  BY <1>4, <1>7 DEF RowFits
<1>8. ASSUME NEW c \in Conns, Start(c) PROVE Goal
  <2>1. /\ rows' = [rows EXCEPT ![c] = NewRows(c)] /\ at' = [at EXCEPT ![c] = "resetting"]
        /\ gen' = [r \in Rows |-> IF r \in rows'[c] THEN gen[r] + 1 ELSE gen[r]]
        /\ at[c] = "idle" /\ UNCHANGED <<buffers, failed, chunked>>
    BY <1>8 DEF Start
  <2>2. rows'[c] = NewRows(c) /\ at'[c] = "resetting" /\ rows[c] = {}
    BY <1>1, <1>2, <2>1 DEF RowsApart
  <2>3. \A r \in NewRows(c) : r \in Rows /\ \A d \in Conns : r \notin rows[d]
    BY DEF NewRows, TakenRows
  <2>4. \A r \in rows'[c] : RowFits(c, r)'
    <3>1. \A r \in rows'[c] : buffers'[r] = <<>> /\ ~failed'[r]
      BY <1>4, <2>1, <2>2, <2>3
    <3>2. QED
      BY <2>2, <3>1 DEF RowFits
  <2>5. \A r \in Rows \ rows[c] : r \notin rows'[c] => gen'[r] = gen[r]
    BY <2>1
  <2>6. \A d \in Conns \ {c} : rows'[d] = rows[d] /\ at'[d] = at[d]
    BY <1>2, <2>1
  <2>7. QED
    BY <1>6, <2>1, <2>2, <2>3, <2>4, <2>5, <2>6
\* A row is released without a buffer.
<1>9. ASSUME NEW c \in Conns, Release(c), UNCHANGED gen,
             \A r \in Rows \ rows[c] : buffers'[r] = buffers[r] /\ chunked'[r] = chunked[r],
             \A r \in rows[c] : buffers'[r] = <<>>
      PROVE  Goal
  <2>1. /\ rows' = [rows EXCEPT ![c] = {}] /\ at' = [at EXCEPT ![c] = "idle"]
        /\ failed' = [r \in Rows |-> failed[r] /\ r \notin rows[c]]
    BY <1>9 DEF Release
  <2>2. rows'[c] = {} /\ \A d \in Conns \ {c} : rows'[d] = rows[d] /\ at'[d] = at[d]
    BY <1>2, <2>1
  <2>3. /\ \A r \in Rows \ rows[c] : failed'[r] = failed[r]
        /\ \A r \in rows[c] : ~failed'[r]
    BY <1>2, <2>1
  <2>4. QED
    BY <1>6, <1>9, <2>2, <2>3
<1>10. ASSUME NEW c \in Conns, ResetReturned(c) PROVE Goal
  <2>1. /\ at[c] = "resetting"
        /\ chunked' = [r \in Rows |-> IF r \in rows[c] THEN c \in Chunking ELSE chunked[r]]
        /\ UNCHANGED <<gen, buffers>>
        /\ \/ at' = [at EXCEPT ![c] = "running"] /\ UNCHANGED <<rows, failed>>
           \/ Release(c)
    BY <1>10 DEF ResetReturned
  <2>2. \A r \in rows[c] : buffers[r] = <<>> /\ ~failed[r]
    BY <1>4, <2>1 DEF RowFits
  <2>3. \A r \in Rows \ rows[c] : chunked'[r] = chunked[r]
    BY <2>1
  <2>4. CASE Release(c)
    BY <1>9, <2>1, <2>2, <2>3, <2>4
  <2>5. CASE at' = [at EXCEPT ![c] = "running"] /\ UNCHANGED <<rows, failed>>
    <3>1. /\ at'[c] = "running" /\ \A d \in Conns \ {c} : rows'[d] = rows[d] /\ at'[d] = at[d]
          /\ rows'[c] = rows[c]
      BY <1>2, <2>5
    <3>2. \A r \in rows[c] : r \in Rows /\ chunked'[r] = (c \in Chunking)
      BY <1>2, <2>1
    <3>3. \A r \in rows[c] : buffers'[r] = <<>>
      BY <2>1, <2>2
    <3>4. DOMAIN <<>> = {}
      OBVIOUS
    <3>5. \A r \in rows[c] : RowFits(c, r)'
      BY <3>1, <3>2, <3>3, <3>4 DEF RowFits
    <3>6. \A r \in rows[c] : \A d \in Conns \ {c} : r \notin rows[d]
      BY <1>3
    <3>7. QED
      BY <1>6, <2>1, <2>3, <2>5, <3>1, <3>5, <3>6
  <2>6. QED
    BY <2>1, <2>4, <2>5
<1>11. ASSUME NEW c \in Conns, FinishReturned(c) PROVE Goal
  <2>1. /\ buffers' = [r \in Rows |-> IF r \in rows[c] THEN <<>> ELSE buffers[r]]
        /\ Release(c) /\ UNCHANGED <<gen, chunked>>
    BY <1>11 DEF FinishReturned
  <2>2. /\ \A r \in Rows \ rows[c] : buffers'[r] = buffers[r]
        /\ \A r \in rows[c] : buffers'[r] = <<>>
    BY <1>2, <2>1
  <2>3. QED
    BY <1>9, <2>1, <2>2
<1>12. ASSUME NEW S \in SUBSET Rows, \A r \in S : buffers[r] # <<>>, buffers' = Popped(S),
              UNCHANGED <<rows, failed, chunked, gen>>,
              \A c \in Conns : at'[c] = at[c] \/ (at[c] = "running" /\ at'[c] = "asked")
       PROVE  Goal
  <2>1. ASSUME NEW r \in Rows, \A c \in Conns : r \notin rows'[c] PROVE buffers'[r] = <<>> /\ ~failed'[r]
    <3>1. buffers[r] = <<>> /\ ~failed[r]
      BY <1>4, <1>12, <2>1
    <3>2. r \notin S
      BY <1>12, <3>1
    <3>3. buffers'[r] = buffers[r]
      BY <1>1, <1>12, <3>2, PoppedKeeps
    <3>4. QED
      BY <1>12, <3>1, <3>3
  <2>2. ASSUME NEW c \in Conns, NEW r \in rows'[c] PROVE RowFits(c, r)'
    <3>1. r \in rows[c] /\ r \in Rows /\ RowFits(c, r)
      BY <1>2, <1>4, <1>12, <2>2
    <3>2. QED
      BY <1>1, <1>12, <3>1, RowPops
  <2>3. QED
    BY <2>1, <2>2
<1>13. ASSUME NEW c \in Conns, Observe(c) PROVE Goal
  <2>1. /\ UNCHANGED <<rows, failed, chunked, gen>> /\ at[c] = "running"
        /\ at' = at \/ at' = [at EXCEPT ![c] = "asked"]
    BY <1>13 DEF Observe
  <2>2. \A d \in Conns : at'[d] = at[d] \/ (at[d] = "running" /\ at'[d] = "asked")
    BY <1>2, <2>1
  <2>3. CASE UNCHANGED buffers
    BY <1>4, <2>1, <2>2, <2>3 DEF RowFits
  <2>4. CASE \E S \in SUBSET rows[c] : /\ buffers' = Popped(S)
                                       /\ \A r \in S : chunked[r] /\ buffers[r] # <<>>
    <3>1. rows[c] \subseteq Rows
      BY <1>2
    <3>2. QED
      BY <1>12, <2>1, <2>2, <2>4, <3>1
  <2>5. QED
    BY <1>1, <1>13, <2>3, <2>4, ObservePops
<1>14. ASSUME NEW c \in Conns, Reply(c) PROVE Goal
  <2>1. /\ UNCHANGED <<rows, buffers, failed, chunked, gen>> /\ at[c] = "asked"
        /\ at' = [at EXCEPT ![c] = "running"]
    BY <1>14 DEF Reply, rowVars
  <2>2. \A d \in Conns : at'[d] = at[d] \/ (at[d] = "asked" /\ at'[d] = "running")
    BY <1>2, <2>1
  <2>3. QED
    BY <1>4, <2>1, <2>2 DEF RowFits
<1>15. ASSUME NEW c \in Conns, End(c) PROVE Goal
  <2>1. /\ gen' = [r \in Rows |-> IF r \in rows[c] THEN gen[r] + 1 ELSE gen[r]]
        /\ at' = [at EXCEPT ![c] = "finishing"] /\ UNCHANGED <<rows, buffers, failed, chunked>>
    BY <1>15 DEF End
  <2>2. at'[c] = "finishing" /\ \A d \in Conns \ {c} : at'[d] = at[d]
    BY <1>2, <2>1
  <2>3. \A r \in rows[c] : RowFits(c, r)'
    BY <1>4, <2>1, <2>2 DEF RowFits
  <2>4. \A r \in Rows \ rows[c] : gen'[r] = gen[r]
    BY <2>1
  <2>5. \A r \in rows[c] : \A d \in Conns \ {c} : r \notin rows[d]
    BY <1>3
  <2>6. QED
    BY <1>6, <2>1, <2>2, <2>3, <2>4, <2>5
<1>16. ASSUME NEW q \in Rows, FailEpisode(q) PROVE Goal
  <2>1. /\ failed' = [failed EXCEPT ![q] = TRUE] /\ gen' = [gen EXCEPT ![q] = gen[q] + 1]
        /\ UNCHANGED <<at, rows, buffers, chunked>>
        /\ \E c \in Conns : q \in rows[c] /\ at[c] \in {"running", "asked"}
    BY <1>16 DEF FailEpisode, connVars
  <2>2. PICK c \in Conns : q \in rows[c] /\ at[c] \in {"running", "asked"}
    BY <2>1
  <2>3. /\ \A r \in Rows : r # q => gen'[r] = gen[r] /\ failed'[r] = failed[r]
        /\ failed'[q]
    BY <1>2, <2>1
  <2>4. \A r \in rows[c] : RowFits(c, r)'
    <3>1. SUFFICES ASSUME NEW r \in rows[c] PROVE RowFits(c, r)'
      OBVIOUS
    <3>2. r \in Rows /\ RowFits(c, r)
      BY <1>2, <1>4
    <3>3. CASE r = q
      BY <2>1, <2>2, <2>3, <3>2, <3>3 DEF RowFits
    <3>4. CASE r # q
      BY <2>1, <2>2, <2>3, <3>2, <3>4 DEF RowFits
    <3>5. QED
      BY <3>3, <3>4
  <2>5. \A r \in Rows \ rows[c] : gen'[r] = gen[r] /\ failed'[r] = failed[r]
    BY <2>2, <2>3
  <2>6. \A r \in rows[c] : \A d \in Conns \ {c} : r \notin rows[d]
    BY <1>3
  <2>7. QED
    BY <1>6, <2>1, <2>4, <2>5, <2>6
<1>17. CASE Infer
  <2>1. UNCHANGED <<at, rows, failed, chunked, gen>>
    BY <1>17, InferSteps
  <2>2. PICK S \in SUBSET Rows : buffers' = Popped(S) /\ \A r \in S : buffers[r] # <<>>
    BY <1>1, <1>17, InferPops
  <2>3. QED
    BY <1>12, <2>1, <2>2
<1>18. CASE InferReturned
  <2>1. UNCHANGED <<at, rows, failed, chunked, gen>> /\ dp = "model"
    BY <1>18, InferOverSteps
  <2>2. PICK bad \in SUBSET call.todo : \E lens \in [(call.todo \cap call.chunks) \ bad -> ChunkLens] :
               ReturnedWith(bad, lens)
    BY <1>18, ReturnedLens
  <2>3. PICK lens \in [(call.todo \cap call.chunks) \ bad -> ChunkLens] : ReturnedWith(bad, lens)
    BY <2>2
  <2>4. buffers' = Kept(lens)
    BY <2>3 DEF ReturnedWith
  <2>5. \A r \in Rows : KeptAt(r, bad, lens)
    BY <1>1, <2>1, <2>4, KeptIs
  \* A chunk is kept for the row of a handler that waits.
  <2>6. ASSUME NEW r \in Rows, buffers'[r] # buffers[r]
        PROVE  \E c \in Conns : /\ r \in rows[c] /\ at[c] = "asked" /\ c \in Chunking /\ ~failed[r]
                                /\ \A i \in DOMAIN buffers'[r] : buffers'[r][i].gen = gen[r]
    <3>1. PICK p \in (call.todo \cap call.chunks) \ bad :
              /\ p \in Positions(batch) /\ p[2].row = r /\ Current(p[2])
              /\ lens[p] \in Nat /\ lens[p] > 0
              /\ buffers'[r] = Tail(ChunkOf(p[2], lens[p]))
      BY <2>5, <2>6 DEF KeptAt
    <3> DEFINE c == batch[p[1]].conn
    <3>2. c \in Conns /\ at[c] = "asked" /\ p[2] \in Asked /\ r \in rows[c] /\ ~failed[r]
      BY <1>1, <3>1, RunningPosition
    <3>3. chunked[r]
      BY <1>1, <2>1, <3>1 DEF CallFits
    <3>4. c \in Chunking
      BY <1>4, <3>2, <3>3 DEF RowFits
    <3>5. \A i \in DOMAIN buffers'[r] : buffers'[r][i].gen = p[2].gen
      <4>1. PICK x \in Asked, n \in Nat : x = p[2] /\ n = lens[p]
        BY <3>1, <3>2
      <4>2. buffers'[r] = Tail(ChunkOf(x, n)) /\ n > 0
        BY <3>1, <4>1
      <4>3. /\ DOMAIN Tail(ChunkOf(x, n)) = 1 .. n - 1
            /\ \A i \in 1 .. n - 1 :
                 Tail(ChunkOf(x, n))[i] = [row |-> x.row, gen |-> x.gen, step |-> x.step + i]
        BY <4>2, ChunkTail
      <4> DEFINE t == Tail(ChunkOf(x, n))
      <4>4. \A i \in DOMAIN buffers'[r] : buffers'[r][i].gen = x.gen
        <5>1. /\ DOMAIN t = 1 .. n - 1
              /\ \A i \in 1 .. n - 1 : t[i] = [row |-> x.row, gen |-> x.gen, step |-> x.step + i]
          BY <4>3
        <5>2. buffers'[r] = t
          BY <4>2
        <5> HIDE DEF t
        <5>3. \A i \in DOMAIN t : t[i].gen = x.gen
          BY <5>1
        <5>4. QED
          BY <5>2, <5>3
      <4>5. QED
        BY <4>1, <4>4
    <3>6. p[2].gen = gen[r]
      BY <3>1 DEF Current
    <3> HIDE DEF c
    <3>7. QED
      BY <3>2, <3>4, <3>5, <3>6
  <2>7. ASSUME NEW r \in Rows, \A c \in Conns : r \notin rows'[c] PROVE buffers'[r] = <<>> /\ ~failed'[r]
    BY <1>4, <2>1, <2>6, <2>7
  <2>8. ASSUME NEW c \in Conns, NEW r \in rows'[c] PROVE RowFits(c, r)'
    <3>1. r \in rows[c] /\ r \in Rows /\ RowFits(c, r)
      BY <1>2, <1>4, <2>1, <2>8
    <3>2. CASE buffers'[r] = buffers[r]
      BY <2>1, <3>1, <3>2 DEF RowFits
    <3>3. CASE buffers'[r] # buffers[r]
      <4>1. PICK d \in Conns : /\ r \in rows[d] /\ at[d] = "asked" /\ d \in Chunking /\ ~failed[r]
                               /\ \A i \in DOMAIN buffers'[r] : buffers'[r][i].gen = gen[r]
        BY <2>6, <3>1, <3>3
      <4>2. d = c
        BY <1>3, <3>1, <4>1
      <4>3. QED
        BY <2>1, <3>1, <4>1, <4>2 DEF RowFits
    <3>4. QED
      BY <3>2, <3>3
  <2>9. QED
    BY <2>7, <2>8
<1>19. CASE InferRaised
  BY <1>7, <1>19, InferOverSteps DEF InferRaised, rowVars
<1>20. CASE Stop
  BY <1>7, <1>20, StopSteps DEF rowVars
<1>21. QED
  BY <1>7, <1>8, <1>10, <1>11, <1>13, <1>14, <1>15, <1>16, <1>17, <1>18, <1>19, <1>20
     DEF Next, Handler, Engine, Woken, Deadline, SetLimit, RunJob, connVars, rowVars


-----------------------------------------------------------------------------
(* The model call.                                                         *)

\* While a call is with the model, what is kept about it stays.
LEMMA CallStays ==
  ASSUME EngineInv, DataOK', Next, UNCHANGED <<dp, call, batch>>,
         \A r \in Rows : buffers[r] = <<>> => buffers'[r] = <<>>,
         \A c \in Conns : \A r \in rows[c] : at[c] = "asked" => chunked'[r] = chunked[r]
  PROVE  CallFits'
<1>1. /\ ConnData /\ RowData /\ QueueData /\ RowsApart /\ AskedFits /\ RequestsFit(Unfinished)
      /\ CallFits /\ RowData' /\ batch \in Seq(Requests)
  BY DEF EngineInv, DataOK, QueueData
<1>2. SUFFICES ASSUME dp = "model" PROVE CallFits'
  BY DEF CallFits
<1>3. ASSUME NEW p \in Positions(batch), gen'[p[2].row] = p[2].gen PROVE Current(p[2])
  <2>1. p[1] \in DOMAIN batch /\ p[2] \in batch[p[1]].rows /\ p[2] \in Asked
    BY <1>1, PositionsOf
  <2>2. RequestsFit(batch)
    <3>1. rest \o queue \in Seq(Requests) /\ Unfinished = batch \o (rest \o queue)
      BY <1>1, UnfinishedParts DEF QueueData
    <3>2. QED
      BY <1>1, <3>1, LaterFit
  <2>3. p[2].gen <= gen[p[2].row]
    BY <2>1, <2>2 DEF RequestsFit, RequestFits
  <2>4. p[2].row \in Rows /\ p[2].gen \in Nat
    BY <2>1 DEF Asked
  <2>5. gen[p[2].row] \in Nat /\ gen[p[2].row] <= gen'[p[2].row]
    BY <1>1, <2>4, GenGrows DEF RowData
  <2>6. gen[p[2].row] = p[2].gen
    BY <1>3, <2>3, <2>4, <2>5
  <2>7. QED
    BY <2>6 DEF Current
<1>4. ASSUME NEW p \in Positions(batch), gen'[p[2].row] = p[2].gen
      PROVE  /\ p \in call.todo \cup DOMAIN call.served
             /\ p \in call.todo => buffers'[p[2].row] = <<>> /\ (p \in call.chunks <=> chunked'[p[2].row])
  <2>1. Current(p[2])
    BY <1>3, <1>4
  <2>2. LET c == batch[p[1]].conn IN c \in Conns /\ at[c] = "asked" /\ p[2] \in Asked /\ p[2].row \in rows[c]
    BY <1>1, <2>1, RunningPosition
  <2>3. p[2].row \in Rows
    BY <2>2 DEF Asked
  <2>4. /\ p \in call.todo \cup DOMAIN call.served
        /\ p \in call.todo => buffers[p[2].row] = <<>> /\ (p \in call.chunks <=> chunked[p[2].row])
    BY <1>1, <1>2, <2>1 DEF CallFits
  <2>5. QED
    BY <2>2, <2>3, <2>4
<1>5. Positions(batch') = Positions(batch)
  OBVIOUS
<1>6. QED
  BY <1>1, <1>2, <1>4, <1>5 DEF CallFits, Current

LEMMA CallNext ==
  ASSUME EngineInv, DataOK', Next
  PROVE  CallFits'
<1>1. /\ ConnData /\ RowData /\ QueueData /\ BufferData /\ RowsApart /\ AskedFits /\ ChunksFit
      /\ DispatcherFits /\ RequestsFit(Unfinished) /\ CallFits /\ batch \in Seq(Requests)
  BY DEF EngineInv, DataOK, QueueData
<1>2. ASSUME dp' # "model" PROVE CallFits'
  BY <1>2 DEF CallFits
<1>3. CASE UNCHANGED <<dp, call, batch, buffers, chunked>>
  BY <1>3, CallStays
<1>4. ASSUME NEW c \in Conns, ResetReturned(c) PROVE CallFits'
  <2>1. /\ at[c] = "resetting" /\ UNCHANGED <<dp, call, batch, buffers>>
        /\ chunked' = [r \in Rows |-> IF r \in rows[c] THEN c \in Chunking ELSE chunked[r]]
    BY <1>4 DEF ResetReturned, dispVars
  <2>2. ASSUME NEW d \in Conns, NEW r \in rows[d], at[d] = "asked" PROVE chunked'[r] = chunked[r]
    <3>1. d # c /\ r \notin rows[c] /\ r \in Rows
      BY <1>1, <2>1, <2>2 DEF RowsApart, ConnData
    <3>2. QED
      BY <2>1, <3>1
  <2>3. QED
    BY <2>1, <2>2, CallStays
<1>5. ASSUME NEW c \in Conns, FinishReturned(c) PROVE CallFits'
  <2>1. /\ UNCHANGED <<dp, call, batch, chunked>>
        /\ buffers' = [r \in Rows |-> IF r \in rows[c] THEN <<>> ELSE buffers[r]]
    BY <1>5 DEF FinishReturned, dispVars
  <2>2. \A r \in Rows : buffers[r] = <<>> => buffers'[r] = <<>>
    BY <2>1
  <2>3. QED
    BY <2>1, <2>2, CallStays
<1>6. ASSUME NEW c \in Conns, Observe(c) PROVE CallFits'
  <2>1. UNCHANGED <<dp, call, batch, chunked>>
    BY <1>6 DEF Observe
  <2>2. \A r \in Rows : buffers[r] = <<>> => buffers'[r] = <<>>
    <3>1. CASE UNCHANGED buffers
      BY <3>1
    <3>2. CASE \E S \in SUBSET rows[c] : buffers' = Popped(S) /\ \A r \in S : buffers[r] # <<>>
      BY <1>1, <3>2, PoppedKeeps
    <3>3. QED
      BY <1>1, <1>6, <3>1, <3>2, ObservePops
  <2>3. QED
    BY <2>1, <2>2, CallStays
<1>7. RunOver => dp' # "model"
  <2>1. RunOver => dp' \in {"sleep", "gather", "checkpoint"}
    BY <1>1, AfterRunSplits DEF RunOver, QueueData
  <2>2. QED
    BY <2>1
<1>8. CASE Woken \/ Deadline
  <2>1. dp' # "model"
    BY <1>8 DEF Woken, Deadline, Dispatch, Take
  <2>2. QED
    BY <1>2, <2>1
<1>9. CASE Stop
  <2>1. dp' # "model"
    BY <1>9 DEF Stop
  <2>2. QED
    BY <1>2, <2>1
<1>10. CASE InferReturned \/ InferRaised
  BY <1>2, <1>7, <1>10, InferOverSteps
<1>11. CASE Infer
  <2> DEFINE live   == StillRunning(Positions(batch))
             chunks == {p \in live : chunked[p[2].row]}
             served == {p \in chunks : buffers[p[2].row] # <<>>}
             given  == [p \in served |-> Head(buffers[p[2].row])]
             todo   == live \ served
             S      == {p[2].row : p \in served}
  <2>1. CASE todo = {}
    <3>1. AfterRun
      BY <1>11, <2>1 DEF Infer
    <3>2. dp' \in {"sleep", "gather", "checkpoint"}
      BY <1>1, <3>1, AfterRunSplits DEF QueueData
    <3>3. QED
      BY <1>2, <3>2
  <2>2. CASE todo # {}
    <3>1. /\ call' = [served |-> given, todo |-> todo, chunks |-> chunks]
          /\ dp' = "model" /\ UNCHANGED <<batch, chunked, gen>> /\ buffers' = Popped(S)
      BY <1>11, <2>2 DEF Infer
    <3>2. call'.todo = todo /\ call'.chunks = chunks /\ DOMAIN call'.served = served
      BY <3>1
    <3>3. /\ live \subseteq Positions(batch) /\ \A p \in Positions(batch) : Current(p[2]) <=> p \in live
      BY DEF StillRunning
    <3>4. \A p \in live : p \in chunks <=> chunked[p[2].row]
      OBVIOUS
    <3>5. \A p \in todo : p \in live /\ ~(chunked[p[2].row] /\ buffers[p[2].row] # <<>>)
      OBVIOUS
    <3>6. todo \subseteq live /\ served \subseteq live /\ todo \cap served = {} /\ live = todo \cup served
      OBVIOUS
    <3>7. \A r \in S : buffers[r] # <<>>
      OBVIOUS
    <3>8. ASSUME NEW p \in todo PROVE buffers'[p[2].row] = <<>>
      <4>1. p \in Positions(batch) /\ Current(p[2])
        BY <3>3, <3>6, <3>8
      <4> DEFINE c == batch[p[1]].conn
      <4>2. c \in Conns /\ at[c] = "asked" /\ p[2] \in Asked /\ p[2].row \in rows[c]
        BY <1>1, <4>1, RunningPosition
      <4>3. RowFits(c, p[2].row) /\ p[2].row \in Rows
        BY <1>1, <4>2 DEF ChunksFit, Asked
      <4>4. buffers[p[2].row] = <<>>
        BY <3>5, <3>8, <4>2, <4>3 DEF RowFits
      <4>5. p[2].row \notin S
        BY <3>7, <4>4
      <4> HIDE DEF S
      <4>6. QED
        BY <1>1, <3>1, <3>7, <4>3, <4>4, <4>5, PoppedKeeps
    <3> HIDE DEF live, chunks, served, given, todo, S
    <3>9. \A p \in Positions(batch) : gen'[p[2].row] = p[2].gen =>
            /\ p \in todo \cup served
            /\ p \in todo => buffers'[p[2].row] = <<>> /\ (p \in chunks <=> chunked'[p[2].row])
      BY <3>1, <3>3, <3>4, <3>6, <3>8 DEF Current
    <3>10. todo \subseteq Positions(batch) /\ served \subseteq Positions(batch)
      BY <3>3, <3>6
    <3>11. Positions(batch') = Positions(batch)
      BY <3>1
    <3>12. QED
      BY <3>2, <3>6, <3>9, <3>10, <3>11 DEF CallFits, Current
  <2>3. QED
    BY <2>1, <2>2
<1>12. QED
  BY <1>3, <1>4, <1>5, <1>6, <1>8, <1>9, <1>10, <1>11
     DEF Next, Handler, Engine, Start, Reply, End, FailEpisode, SetLimit, RunJob, dispVars, rowVars


-----------------------------------------------------------------------------
(* The invariant, and what it gives.                                       *)

LEMMA EngineInit ==
  ASSUME Init
  PROVE  EngineInv
<1>1. /\ Range(<<>>) = {} /\ DOMAIN <<>> = {} /\ Cardinality({}) = 0
      /\ \A S : <<>> \in Seq(S)
  BY FS_EmptySet DEF Range
<1>2. DataOK
  <2>1. NotDone.done = FALSE
    BY DEF NotDone
  <2>2. ConnData /\ OutcomeData
    BY <2>1 DEF Init, ConnData, OutcomeData
  <2>3. RowData /\ BufferData /\ QueueData /\ JobData
    BY <1>1 DEF Init, RowData, BufferData, QueueData, JobData
  <2>4. QED
    BY <2>2, <2>3 DEF DataOK
<1>3. RowsApart
  <2>1. \A c \in Conns : 0 <= WidthOf(c)
    BY EngineAssumption DEF WidthOf
  <2>2. QED
    BY <1>1, <2>1 DEF Init, RowsApart
<1>4. JobsOnce /\ DispatcherFits
  BY <1>1 DEF Init, JobsOnce, DispatcherFits
<1>5. RequestsFit(Unfinished)
  <2>1. <<>> \o <<>> \o <<>> = <<>>
    BY <1>1, ConcatEmptySeq
  <2>2. Unfinished = <<>>
    BY <2>1 DEF Init, Unfinished
  <2>3. QED
    BY <1>1, <2>2 DEF RequestsFit
<1>6. AskedFits
  BY DEF Init, AskedFits, AskFits, NotDone
<1>7. ChunksFit /\ CallFits
  BY DEF Init, ChunksFit, CallFits
<1>8. QED
  BY <1>2, <1>3, <1>4, <1>5, <1>6, <1>7 DEF EngineInv

LEMMA EngineNext ==
  ASSUME EngineInv, [Next]_vars
  PROVE  EngineInv'
<1>1. CASE Next
  <2>1. DataOK'
    BY <1>1, DataNext DEF EngineInv
  <2>2. RowsApart' /\ JobsOnce' /\ DispatcherFits'
    BY <1>1, RowsApartNext, JobsOnceNext, DispatcherFitsNext DEF EngineInv
  <2>3. RequestsFit(Unfinished)' /\ AskedFits' /\ ChunksFit' /\ CallFits'
    BY <1>1, <2>1, RequestsNext, AskedNext, ChunksNext, CallNext
  <2>4. QED
    BY <2>1, <2>2, <2>3 DEF EngineInv
<1>2. CASE UNCHANGED vars
  <2>1. UNCHANGED vars
    BY <1>2
  <2>2. DataOK' /\ RowsApart' /\ JobsOnce' /\ DispatcherFits'
    BY <2>1 DEF EngineInv, vars, connVars, rowVars, dispVars, jobVars, DataOK, ConnData, OutcomeData, RowData,
                BufferData, QueueData, JobData, RowsApart, JobsOnce, DispatcherFits
  <2>3. RequestsFit(Unfinished)'
    BY <2>1 DEF EngineInv, vars, connVars, rowVars, dispVars, RequestsFit, Unfinished, RequestFits, Live, Current
  <2>4. AskedFits' /\ ChunksFit' /\ CallFits'
    BY <2>1 DEF EngineInv, vars, connVars, rowVars, dispVars, jobVars, AskedFits, AskFits, ChunksFit, RowFits,
                CallFits, Current, TakenRows
  <2>5. QED
    BY <2>2, <2>3, <2>4 DEF EngineInv
<1>3. QED
  BY <1>1, <1>2

\* The strengthening all the others rest on: types, rows and calls that are
\* accounted for, requests that are those waited for, buffers that belong to the
\* episodes on their rows.
THEOREM EngineInvariant == Spec => []EngineInv
<1>1. Init => EngineInv
  BY EngineInit
<1>2. EngineInv /\ [Next]_vars => EngineInv'
  BY EngineNext
<1>3. QED
  BY <1>1, <1>2, PTL DEF Spec

\* The types of the variables: rows are never shared, a handler asks for rows
\* exactly while it waits, and a batch is under way exactly while the dispatcher
\* is past its queue.
THEOREM TypeCorrect == Spec => []TypeOK
<1>1. EngineInv => TypeOK
  <2>1. SUFFICES ASSUME EngineInv PROVE TypeOK
    OBVIOUS
  <2>2. DataOK /\ RowsApart /\ JobsOnce /\ DispatcherFits /\ AskedFits
    BY <2>1 DEF EngineInv
  <2>3. QED
    BY <2>2 DEF TypeOK, DataOK, ConnData, QueueData, RowsApart, JobsOnce, DispatcherFits, AskedFits, AskFits
<1>2. QED
  BY <1>1, EngineInvariant, PTL

\* A vector step is not held back for max_wait_time: whenever one is queued during
\* another request's wait, the dispatcher has been woken (_dispatch_loop).
THEOREM VectorStepsNeverHeldBack == Spec => []VectorStepsGo
<1>1. Init => VectorStepsGo
  BY DEF Init, VectorStepsGo
<1>2. EngineInv /\ VectorStepsGo /\ [Next]_vars => VectorStepsGo'
  <2>1. SUFFICES ASSUME EngineInv, VectorStepsGo, [Next]_vars PROVE VectorStepsGo'
    OBVIOUS
  <2>2. queue \in Seq(Requests) /\ batch \in Seq(Requests) /\ rest \in Seq(Requests)
    BY <2>1 DEF EngineInv, DataOK, QueueData
  <2>3. CASE UNCHANGED <<dp, queue, wake>>
    BY <2>1, <2>3 DEF VectorStepsGo, AllWait
  <2>4. ASSUME dp' = "gather" => AllWait(queue') PROVE VectorStepsGo'
    BY <2>4 DEF VectorStepsGo, AllWait
  <2>5. CASE RunOver
    BY <2>2, <2>4, <2>5, AfterRunSplits DEF RunOver
  <2>6. ASSUME NEW c \in Conns, Observe(c) PROVE VectorStepsGo'
    <3>1. UNCHANGED dp /\ (UNCHANGED <<queue, wake>> \/ wake' = TRUE)
      BY <2>6 DEF Observe
    <3>2. QED
      BY <2>3, <3>1 DEF VectorStepsGo
  <2>7. CASE Woken
    BY <2>2, <2>4, <2>7, DispatchSplits DEF Woken
  <2>8. CASE Deadline
    BY <2>2, <2>4, <2>8, TakeSplits DEF Deadline
  <2>9. CASE Infer
    <3>1. CASE RunOver
      BY <2>5, <3>1
    <3>2. CASE dp' = "model"
      BY <3>2 DEF VectorStepsGo
    <3>3. QED
      BY <2>9, <3>1, <3>2, InferSteps
  <2>10. CASE InferReturned \/ InferRaised
    BY <2>5, <2>10, InferOverSteps
  <2>11. CASE Stop
    BY <2>11 DEF Stop, VectorStepsGo
  <2>12. CASE UNCHANGED vars
    BY <2>3, <2>12 DEF vars, dispVars
  <2>13. QED
    BY <2>1, <2>3, <2>6, <2>7, <2>8, <2>9, <2>10, <2>11, <2>12
       DEF Next, Handler, Engine, Start, Reply, End, ResetReturned, FinishReturned, FailEpisode, SetLimit, RunJob,
           dispVars
<1>3. QED
  BY <1>1, <1>2, EngineInvariant, PTL DEF Spec

\* A chunk ends with its episode: a row without an episode has nothing buffered, and
\* what a running one has was predicted for the episode on it (_infer, _run,
\* on_episode_end), whatever is in flight when an episode ends and another starts.
THEOREM ChunksNeverOutliveTheirEpisode == Spec => []ChunksEndWithTheirEpisode
<1>1. EngineInv => ChunksEndWithTheirEpisode
  <2>1. SUFFICES ASSUME EngineInv, NEW r \in Rows
                 PROVE  LET on == {c \in Conns : r \in rows[c]} IN
                        /\ on = {} => buffers[r] = <<>>
                        /\ \A c \in on : at[c] \in {"resetting", "running", "asked"} /\ ~failed[r] =>
                             \A i \in DOMAIN buffers[r] : buffers[r][i].gen = gen[r]
    BY DEF ChunksEndWithTheirEpisode
  <2>2. ChunksFit
    BY <2>1 DEF EngineInv
  <2>3. (\A c \in Conns : r \notin rows[c]) => buffers[r] = <<>>
    BY <2>2 DEF ChunksFit, TakenRows
  <2>4. ASSUME NEW c \in Conns, r \in rows[c], at[c] \in {"resetting", "running", "asked"}, ~failed[r]
        PROVE  \A i \in DOMAIN buffers[r] : buffers[r][i].gen = gen[r]
    <3>1. RowFits(c, r)
      BY <2>2, <2>4 DEF ChunksFit
    <3>2. DOMAIN <<>> = {}
      OBVIOUS
    <3>3. QED
      BY <2>4, <3>1, <3>2 DEF RowFits
  <2>5. QED
    BY <2>3, <2>4
<1>2. QED
  BY <1>1, EngineInvariant, PTL


\* finish of c's episodes is before the dispatcher's call on the model thread.
Ahead(c) == c \in ran \/ \E i, j \in DOMAIN jobs : i < j /\ jobs[i] = c /\ jobs[j] = Dispatcher

LEMMA AheadStays ==
  ASSUME NoInferenceAfterFinish, UNCHANGED call, dp' = "model" => dp = "model",
         Dispatcher \in Range(jobs') => Dispatcher \in Range(jobs),
         \A c \in Conns : Dispatcher \in Range(jobs) /\ at'[c] = "finishing" /\ Ahead(c)' =>
           at[c] = "finishing" /\ Ahead(c) /\ rows'[c] = rows[c]
  PROVE  NoInferenceAfterFinish'
BY DEF NoInferenceAfterFinish, Ahead

\* The model never sees an episode after its finish: behind finish on the model
\* thread there is no inference of the episode's rows (_infer's checkpoint, the
\* order of _end_episodes).
THEOREM FinishIsTheLast == Spec => []NoInferenceAfterFinish
<1>1. Init => NoInferenceAfterFinish
  BY DEF Init, NoInferenceAfterFinish
<1>2. EngineInv /\ NoInferenceAfterFinish /\ [Next]_vars => NoInferenceAfterFinish'
  <2>1. SUFFICES ASSUME EngineInv, NoInferenceAfterFinish, [Next]_vars PROVE NoInferenceAfterFinish'
    OBVIOUS
  <2>2. /\ ConnData /\ RowData /\ QueueData /\ JobData /\ RowsApart /\ AskedFits /\ RequestsFit(Unfinished) /\ JobsOnce
    BY <2>1 DEF EngineInv, DataOK
  <2>3. /\ at \in [Conns -> {"idle", "resetting", "running", "asked", "finishing"}]
        /\ rows \in [Conns -> SUBSET Rows]
        /\ jobs \in Seq(Conns \cup {Dispatcher}) /\ Dispatcher \notin Conns
        /\ queue \in Seq(Requests) /\ batch \in Seq(Requests) /\ rest \in Seq(Requests)
    BY <2>2, EngineAssumption DEF ConnData, JobData, QueueData
  <2>4. Len(jobs) \in Nat /\ DOMAIN jobs = 1 .. Len(jobs)
    BY <2>3, LenProperties
  <2>5. ASSUME dp' # "model" PROVE NoInferenceAfterFinish'
    BY <2>5 DEF NoInferenceAfterFinish
  <2>6. ASSUME UNCHANGED <<call, dp, jobs>>, ran' \subseteq ran,
               \A c \in Conns : at'[c] = "finishing" => at[c] = "finishing" /\ rows'[c] = rows[c]
        PROVE  NoInferenceAfterFinish'
    BY <2>1, <2>6, AheadStays DEF Ahead
  <2>7. CASE UNCHANGED <<call, dp, jobs, ran, at, rows>>
    BY <2>6, <2>7
  <2>8. ASSUME NEW c \in Conns, ResetReturned(c) \/ FinishReturned(c) PROVE NoInferenceAfterFinish'
    <3>1. /\ UNCHANGED <<call, dp, jobs>> /\ ran' \subseteq ran
          /\ at' = [at EXCEPT ![c] = "running"] \/ at' = [at EXCEPT ![c] = "idle"]
          /\ UNCHANGED rows \/ rows' = [rows EXCEPT ![c] = {}]
      BY <2>8 DEF ResetReturned, FinishReturned, Release, dispVars
    <3>2. \A d \in Conns : at'[d] = "finishing" => at[d] = "finishing" /\ rows'[d] = rows[d]
      BY <2>3, <3>1
    <3>3. QED
      BY <2>6, <3>1, <3>2
  <2>9. ASSUME NEW c \in Conns, Observe(c) \/ Reply(c) PROVE NoInferenceAfterFinish'
    <3>1. /\ UNCHANGED <<call, dp, jobs, ran, rows>>
          /\ UNCHANGED at \/ \E a \in {"asked", "running"} : at' = [at EXCEPT ![c] = a]
      BY <2>9 DEF Observe, Reply, dispVars, jobVars
    <3>2. \A d \in Conns : at'[d] = "finishing" => at[d] = "finishing"
      BY <2>3, <3>1
    <3>3. QED
      BY <2>6, <3>1, <3>2
  <2>10. ASSUME NEW c \in Conns, Start(c) \/ End(c) PROVE NoInferenceAfterFinish'
    <3>1. /\ UNCHANGED <<call, dp, ran>> /\ jobs' = Append(jobs, c)
          /\ \A d \in Conns \ {c} : at'[d] = at[d] /\ rows'[d] = rows[d]
          /\ at'[c] = "resetting" \/ at[c] \in {"running", "asked"}
      BY <2>3, <2>10 DEF Start, End, dispVars
    <3>2. /\ DOMAIN jobs' = 1 .. Len(jobs) + 1
          /\ \A i \in 1 .. Len(jobs) : jobs'[i] = jobs[i]
          /\ jobs'[Len(jobs) + 1] = c /\ c # Dispatcher
      <4>1. Append(jobs, c) \in Seq(Conns \cup {Dispatcher})
        BY <2>3, AppendProperties
      <4>2. QED
        BY <2>3, <3>1, <4>1, AppendProperties, LenProperties
    <3>3. \A i \in DOMAIN jobs' : i \in DOMAIN jobs \/ i = Len(jobs) + 1
      BY <2>4, <3>2
    <3>4. Dispatcher \in Range(jobs') => Dispatcher \in Range(jobs)
      BY <2>4, <3>2, <3>3 DEF Range
    <3>5. ASSUME NEW d \in Conns, at'[d] = "finishing", Ahead(d)'
          PROVE  at[d] = "finishing" /\ Ahead(d) /\ rows'[d] = rows[d]
      <4>1. Ahead(d)
        <5>1. CASE d \in ran'
          BY <3>1, <5>1 DEF Ahead
        <5>2. CASE d \notin ran'
          <6>1. PICK i \in DOMAIN jobs', j \in DOMAIN jobs' : i < j /\ jobs'[i] = d /\ jobs'[j] = Dispatcher
            BY <3>5, <5>2 DEF Ahead
          <6>2. j \in DOMAIN jobs
            BY <3>2, <3>3, <6>1
          <6>3. i \in DOMAIN jobs
            BY <2>4, <3>2, <6>1, <6>2
          <6>4. jobs[i] = d /\ jobs[j] = Dispatcher
            BY <2>4, <3>2, <6>1, <6>2, <6>3
          <6>5. QED
            BY <6>1, <6>2, <6>3, <6>4 DEF Ahead
        <5>3. QED
          BY <5>1, <5>2
      <4>2. d \in Range(jobs) \cup ran
        BY <4>1 DEF Ahead, Range
      <4>3. d # c
        <5>1. SUFFICES ASSUME d = c PROVE FALSE
          OBVIOUS
        <5>2. at[c] \in {"running", "asked"}
          BY <3>1, <3>5, <5>1
        <5>3. QED
          BY <2>2, <4>2, <5>1, <5>2 DEF JobsOnce
      <4>4. QED
        BY <3>1, <3>5, <4>1, <4>3
    <3>6. QED
      BY <2>1, <3>1, <3>4, <3>5, AheadStays
  <2>11. CASE RunJob
    <3>1. jobs # <<>> /\ jobs' = Tail(jobs) /\ ran' = ran \cup {Head(jobs)} /\ UNCHANGED <<call, dp, at, rows>>
      BY <2>11 DEF RunJob, connVars, dispVars
    <3>2. /\ Len(jobs) \in Nat \ {0} /\ DOMAIN jobs' = 1 .. Len(jobs) - 1
          /\ \A i \in 1 .. Len(jobs) - 1 : jobs'[i] = jobs[i + 1] /\ i + 1 \in DOMAIN jobs
          /\ Head(jobs) = jobs[1] /\ 1 \in DOMAIN jobs
      <4>1. Len(jobs) \in Nat \ {0} /\ Head(jobs) = jobs[1]
        BY <2>3, <3>1, EmptySeq
      <4>2. /\ jobs' \in Seq(Conns \cup {Dispatcher}) /\ Len(jobs') = Len(jobs) - 1
            /\ \A i \in 1 .. Len(jobs') : jobs'[i] = jobs[i + 1]
        BY <2>3, <3>1, HeadTailProperties
      <4>3. DOMAIN jobs' = 1 .. Len(jobs')
        BY <4>2, LenProperties
      <4>4. QED
        BY <2>4, <4>1, <4>2, <4>3
    <3>3. Dispatcher \in Range(jobs') => Dispatcher \in Range(jobs)
      BY <3>2 DEF Range
    <3>4. ASSUME NEW d \in Conns, Ahead(d)', Dispatcher \in Range(jobs') PROVE Ahead(d)
      <4>1. CASE d \in ran
        BY <4>1 DEF Ahead
      <4>2. CASE d = Head(jobs)
        <5>1. PICK j \in 1 .. Len(jobs) - 1 : jobs'[j] = Dispatcher
          BY <3>2, <3>4 DEF Range
        <5>2. j + 1 \in DOMAIN jobs /\ 1 < j + 1 /\ jobs[j + 1] = Dispatcher /\ jobs[1] = d
          BY <3>2, <4>2, <5>1
        <5>3. QED
          BY <3>2, <5>2 DEF Ahead
      <4>3. CASE \E i, j \in DOMAIN jobs' : i < j /\ jobs'[i] = d /\ jobs'[j] = Dispatcher
        <5>1. PICK i \in 1 .. Len(jobs) - 1, j \in 1 .. Len(jobs) - 1 : i < j /\ jobs'[i] = d /\ jobs'[j] = Dispatcher
          BY <3>2, <4>3
        <5>2. i + 1 \in DOMAIN jobs /\ j + 1 \in DOMAIN jobs /\ i + 1 < j + 1
              /\ jobs[i + 1] = d /\ jobs[j + 1] = Dispatcher
          BY <3>2, <5>1
        <5>3. QED
          BY <5>2 DEF Ahead
      <4>4. QED
        BY <3>1, <3>4, <4>1, <4>2, <4>3 DEF Ahead
    <3>5. CASE Dispatcher \in Range(jobs')
      BY <2>1, <3>1, <3>3, <3>4, <3>5, AheadStays
    <3>6. CASE Dispatcher \notin Range(jobs')
      BY <3>6 DEF NoInferenceAfterFinish
    <3>7. QED
      BY <3>5, <3>6
  <2>12. RunOver => dp' # "model"
    <3>1. RunOver => dp' \in {"sleep", "gather", "checkpoint"}
      BY <2>3, AfterRunSplits DEF RunOver
    <3>2. QED
      BY <3>1
  <2>13. CASE Infer
    <3> DEFINE live   == StillRunning(Positions(batch))
               chunks == {p \in live : chunked[p[2].row]}
               served == {p \in chunks : buffers[p[2].row] # <<>>}
               todo   == live \ served
    <3>1. CASE todo # {}
      <4>1. call'.todo = todo /\ UNCHANGED <<at, rows>>
        BY <2>13, <3>1 DEF Infer
      <4>2. \A p \in todo : p \in Positions(batch) /\ Current(p[2])
        BY DEF StillRunning
      <4> HIDE DEF todo
      <4>3. ASSUME NEW p \in todo, NEW c \in Conns, p[2].row \in rows[c] PROVE at[c] = "asked"
        <5>1. p \in Positions(batch) /\ Current(p[2])
          BY <4>2
        <5>2. LET d == batch[p[1]].conn IN
              /\ d \in Conns /\ at[d] = "asked" /\ \A e \in Conns : p[2].row \in rows[e] => e = d
          BY <2>2, <5>1, RunningPosition
        <5>3. QED
          BY <4>3, <5>2
      <4>4. QED
        BY <4>1, <4>3 DEF NoInferenceAfterFinish
    <3>2. CASE todo = {}
      <4>1. AfterRun
        BY <2>13, <3>2 DEF Infer
      <4>2. dp' \in {"sleep", "gather", "checkpoint"}
        BY <2>3, <4>1, AfterRunSplits
      <4>3. QED
        BY <2>5, <4>2
    <3>3. QED
      BY <3>1, <3>2
  <2>14. CASE InferReturned \/ InferRaised
    BY <2>5, <2>12, <2>14, InferOverSteps
  <2>15. CASE Woken \/ Deadline \/ Stop
    <3>1. dp' # "model"
      BY <2>15 DEF Woken, Deadline, Stop, Dispatch, Take
    <3>2. QED
      BY <2>5, <3>1
  <2>16. CASE UNCHANGED vars
    BY <2>7, <2>16 DEF vars, connVars, dispVars, jobVars
  <2>17. QED
    BY <2>1, <2>7, <2>8, <2>9, <2>10, <2>11, <2>13, <2>14, <2>15, <2>16
       DEF Next, Handler, Engine, FailEpisode, SetLimit, connVars, dispVars, jobVars
<1>3. QED
  BY <1>1, <1>2, EngineInvariant, PTL DEF Spec

=============================================================================

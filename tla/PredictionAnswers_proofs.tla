----------------------- MODULE PredictionAnswers_proofs -----------------------
(***************************************************************************)
(* Proofs about PredictionEngine: that every action answers the            *)
(* observation it was predicted for.                                       *)
(***************************************************************************)
EXTENDS PredictionEngine_proofs

-----------------------------------------------------------------------------
(* The inductive invariant.                                                *)

\* No failure of a part of a vector client's step that is served in chunks: the
\* failure of the row that an observation was not answered for, by a stopped engine,
\* would let the next one take the others' actions one step late.
FailuresApart == Failing = {} \/ Chunking \cap VectorConns = {}

\* What row r has buffered answers its observations from number n on.
InStep(r, n) ==
  \A i \in DOMAIN buffers[r] : buffers[r][i] = [row |-> r, gen |-> gen[r], step |-> n + i - 1]

\* A stopped engine has failed an observation of c of which one row has nothing
\* buffered: what the others have is not used any more.
Lags(c) == dp = "down" /\ \E r \in rows[c] : ~failed[r] /\ buffers[r] = <<>>

\* The next observation of c is the one its rows' buffers go on with, or they go on
\* with the observation asked for, for which one row has no action.
Even(c)  == \A r \in rows[c] : ~failed[r] => InStep(r, steps[r])
Early(c) ==
  /\ \A r \in rows[c] : ~failed[r] => InStep(r, steps[r] - 1)
  /\ c \in Chunking => \E x \in asked[c] : buffers[x.row] = <<>>

\* Buffers keep in step with their episodes; a model call takes the observation of
\* its batch from them when it starts.
StepFits(c) ==
  /\ at[c] = "running" \/ (at[c] = "asked" /\ outcome[c].done) => Lags(c) \/ Even(c)
  /\ at[c] = "asked" /\ ~outcome[c].done =>
       IF dp = "model" /\ Answered(c, batch) THEN Even(c) ELSE Early(c)

\* The place of x among the rows ok of a request.
Nth(x, ok) == Cardinality({y \in ok : y.row < x.row}) + 1

\* A done request has the answer of each row that still runs and did not fail.
OutcomeFits(c) ==
  outcome[c].done =>
    LET ok == asked[c] \ outcome[c].errors IN
    \A x \in ok : Current(x) => outcome[c].actions[Nth(x, ok)] = x

\* What was served from the buffers for a batch answers it.
ServedFit == dp = "model" => \A p \in DOMAIN call.served : Current(p[2]) => call.served[p] = p[2]

RepliesFit(c) == \A reply \in got[c] : reply.action = reply.for

FailuresFit == \A r \in Rows : failed[r] => r \in Failing

AnswersInv ==
  /\ FailuresFit /\ ServedFit
  /\ \A c \in Conns : StepFits(c) /\ OutcomeFits(c) /\ RepliesFit(c)

-----------------------------------------------------------------------------
(* The places of the positions of a batch.                                 *)

RowsOnce(q) == \A k \in DOMAIN q : \A x, y \in q[k].rows : x.row = y.row => x = y

LEMMA RowsAreNumbers ==
  IsFiniteSet(Rows) /\ \A r \in Rows : r \in Int
<1>1. IsFiniteSet(Conns) /\ IsFiniteSet(VectorConns) /\ IsFiniteSet(Conns \ VectorConns)
  BY FS_Subset, EngineAssumption
<1>2. Cardinality(VectorConns) \in Nat /\ Cardinality(Conns \ VectorConns) \in Nat /\ Width \in Nat
  BY <1>1, FS_CardinalityType, EngineAssumption
<1>3. Cardinality(Conns \ VectorConns) + Width * Cardinality(VectorConns) - 1 \in Int
  BY <1>2
<1>4. QED
  BY <1>3, FS_Interval DEF Rows

LEMMA PositionsFinite ==
  ASSUME NEW q \in Seq(Requests), RowsOnce(q)
  PROVE  IsFiniteSet(Positions(q))
<1> DEFINE f == [p \in Positions(q) |-> <<p[1], p[2].row>>]
           T == (DOMAIN q) \X Rows
<1>1. \A p \in Positions(q) : /\ p = <<p[1], p[2]>> /\ p[1] \in DOMAIN q
                              /\ p[2] \in q[p[1]].rows /\ p[2] \in Asked
  BY PositionsOf
<1>2. f \in [Positions(q) -> T]
  <2>1. \A p \in Positions(q) : p[2].row \in Rows
    BY <1>1 DEF Asked
  <2>2. \A p \in Positions(q) : <<p[1], p[2].row>> \in T
    BY <1>1, <2>1
  <2> HIDE DEF T
  <2>3. QED
    BY <2>2
<1>3. ASSUME NEW p \in Positions(q), NEW z \in Positions(q), f[p] = f[z] PROVE p = z
  <2>1. p[1] = z[1] /\ p[2].row = z[2].row
    BY <1>3
  <2>2. p[2] = z[2]
    BY <1>1, <2>1 DEF RowsOnce
  <2>3. QED
    BY <1>1, <2>1, <2>2
<1>4. f \in Injection(Positions(q), T)
  BY <1>2, <1>3 DEF Injection, IsInjective
<1>5. IsFiniteSet(T)
  <2>1. Len(q) \in Nat /\ DOMAIN q = 1 .. Len(q)
    BY LenProperties
  <2>2. IsFiniteSet(1 .. Len(q))
    BY <2>1, FS_Interval
  <2>3. IsFiniteSet(DOMAIN q) /\ IsFiniteSet(Rows)
    BY <2>1, <2>2, RowsAreNumbers
  <2>4. QED
    BY <2>3, FS_Product
<1> HIDE DEF f, T
<1>6. QED
  BY <1>4, <1>5, FS_Injection

Before(p, P) == {z \in P : Precedes(z, p)}

\* Positions have places of their own.
LEMMA PlacesApart ==
  ASSUME NEW q \in Seq(Requests), RowsOnce(q), NEW P \in SUBSET Positions(q), NEW p \in P
  PROVE  /\ IsFiniteSet(P) /\ IsFiniteSet(Before(p, P)) /\ Cardinality(P) \in Nat
         /\ Place(p, P) \in 1 .. Cardinality(P) /\ Place(p, P) = Cardinality(Before(p, P)) + 1
         /\ \A z \in P : Place(z, P) = Place(p, P) => z = p
<1>1. IsFiniteSet(P)
  BY PositionsFinite, FS_Subset
<1>2. \A z \in P : /\ z = <<z[1], z[2]>> /\ z[1] \in DOMAIN q /\ z[2] \in q[z[1]].rows
                   /\ z[2] \in Asked
  BY PositionsOf
<1>3. \A z \in P : z[1] \in Int /\ z[2].row \in Int
  <2>1. DOMAIN q = 1 .. Len(q) /\ Len(q) \in Nat
    BY LenProperties
  <2>2. \A z \in P : z[2].row \in Rows
    BY <1>2 DEF Asked
  <2>3. QED
    BY <1>2, <2>1, <2>2, RowsAreNumbers
<1>4. \A z \in P : IsFiniteSet(Before(z, P)) /\ Cardinality(Before(z, P)) \in Nat
  BY <1>1, FS_Subset, FS_CardinalityType DEF Before
<1>5. \A z \in P : Place(z, P) = Cardinality(Before(z, P)) + 1
  BY DEF Place, Before
<1>6. ASSUME NEW y \in P, NEW z \in P, Precedes(y, z) PROVE Place(y, P) < Place(z, P)
  <2>1. Before(y, P) \subseteq Before(z, P) \ {y}
    BY <1>3, <1>6 DEF Before, Precedes
  <2>2. y \in Before(z, P)
    BY <1>6 DEF Before
  <2>3. /\ IsFiniteSet(Before(z, P) \ {y})
        /\ Cardinality(Before(z, P) \ {y}) = Cardinality(Before(z, P)) - 1
    BY <1>4, <2>2, FS_RemoveElement
  <2>4. Cardinality(Before(y, P)) <= Cardinality(Before(z, P) \ {y})
    BY <2>1, <2>3, FS_Subset
  <2>5. QED
    BY <1>4, <1>5, <2>3, <2>4
<1>7. ASSUME NEW y \in P, NEW z \in P, y # z PROVE Precedes(y, z) \/ Precedes(z, y)
  <2>1. CASE y[1] = z[1]
    <3>1. y[2] # z[2]
      BY <1>2, <1>7, <2>1
    <3>2. y[2].row # z[2].row
      BY <1>2, <2>1, <3>1 DEF RowsOnce
    <3>3. y[2].row < z[2].row \/ z[2].row < y[2].row
      BY <1>3, <3>2
    <3>4. QED
      BY <2>1, <3>3 DEF Precedes
  <2>2. CASE y[1] # z[1]
    <3>1. y[1] < z[1] \/ z[1] < y[1]
      BY <1>3, <2>2
    <3>2. QED
      BY <3>1 DEF Precedes
  <2>3. QED
    BY <2>1, <2>2
<1>8. \A z \in P : Place(z, P) = Place(p, P) => z = p
  <2>1. \A z \in P : Place(z, P) \in Int
    BY <1>4, <1>5
  <2>2. QED
    BY <1>6, <1>7, <2>1
<1>9. Place(p, P) \in 1 .. Cardinality(P)
  <2>1. Before(p, P) \subseteq P \ {p}
    BY <1>3 DEF Before, Precedes
  <2>2. IsFiniteSet(P \ {p}) /\ Cardinality(P \ {p}) = Cardinality(P) - 1 /\ Cardinality(P) \in Nat
    BY <1>1, FS_RemoveElement, FS_CardinalityType
  <2>3. Cardinality(Before(p, P)) <= Cardinality(P \ {p})
    BY <2>1, <2>2, FS_Subset
  <2>4. QED
    BY <1>4, <1>5, <2>2, <2>3
<1>10. QED
  BY <1>1, <1>4, <1>5, <1>8, <1>9, FS_CardinalityType

\* The place of a position is its request's first place, and its own in the request.
LEMMA PlaceInRequest ==
  ASSUME NEW q \in Seq(Requests), RowsOnce(q), NEW P \in SUBSET Positions(q),
         NEW k \in DOMAIN q, NEW x \in q[k].rows, <<k, x>> \in P
  PROVE  LET mine == {y \in q[k].rows : <<k, y>> \in P}
             seen == Cardinality({p \in P : p[1] < k})
         IN  /\ seen \in Nat /\ Cardinality(mine) \in Nat /\ Nth(x, mine) \in 1 .. Cardinality(mine)
             /\ Place(<<k, x>>, P) = seen + Nth(x, mine)
<1> DEFINE p     == <<k, x>>
           mine  == {y \in q[k].rows : <<k, y>> \in P}
           first == {z \in P : z[1] < k}
           here  == {z \in P : z[1] = k /\ z[2].row < x.row}
           lower == {y \in mine : y.row < x.row}
<1>1. /\ IsFiniteSet(P) /\ IsFiniteSet(Before(p, P)) /\ Place(p, P) = Cardinality(Before(p, P)) + 1
  BY PlacesApart
<1>2. /\ k \in Int
      /\ \A z \in P : z = <<z[1], z[2]>> /\ z[1] \in Int /\ z[1] \in DOMAIN q /\ z[2] \in q[z[1]].rows /\ z[2].row \in Int
  <2>1. DOMAIN q = 1 .. Len(q) /\ Len(q) \in Nat
    BY LenProperties
  <2>2. \A z \in P : z = <<z[1], z[2]>> /\ z[1] \in DOMAIN q /\ z[2] \in q[z[1]].rows /\ z[2] \in Asked
    BY PositionsOf
  <2>3. \A z \in P : z[2].row \in Rows
    BY <2>2 DEF Asked
  <2>4. QED
    BY <2>1, <2>2, <2>3, RowsAreNumbers
<1>3. Before(p, P) = first \cup here /\ first \cap here = {}
  BY <1>2 DEF Before, Precedes
<1>4. IsFiniteSet(first) /\ IsFiniteSet(here)
  BY <1>1, FS_Subset
<1>5. Cardinality(Before(p, P)) = Cardinality(first) + Cardinality(here)
  <2>1. Cardinality(Before(p, P)) = Cardinality(first) + Cardinality(here) - Cardinality(first \cap here)
    BY <1>3, <1>4, FS_Union
  <2>2. Cardinality(first \cap here) = 0
    BY <1>3, FS_EmptySet
  <2>3. Cardinality(first) \in Nat /\ Cardinality(here) \in Nat
    BY <1>4, FS_CardinalityType
  <2> HIDE DEF first, here
  <2>4. QED
    BY <2>1, <2>2, <2>3
<1>6. IsFiniteSet(lower) /\ Cardinality(lower) = Cardinality(here)
  <2> DEFINE f == [z \in here |-> z[2]]
  <2>1. \A z \in here : z = <<k, z[2]>> /\ z[2] \in lower
    BY <1>2
  <2>2. \A y \in lower : <<k, y>> \in here
    OBVIOUS
  <2>3. f \in [here -> lower]
    BY <2>1
  <2>4. \A z, u \in here : f[z] = f[u] => z = u
    BY <2>1
  <2>5. \A y \in lower : \E z \in here : f[z] = y
    BY <2>2
  <2>6. f \in Bijection(here, lower)
    BY <2>3, <2>4, <2>5 DEF Bijection, Injection, Surjection, IsInjective
  <2> HIDE DEF f, here, lower
  <2>7. ExistsBijection(here, lower)
    BY <2>6 DEF ExistsBijection
  <2>8. QED
    BY <1>4, <2>7, FS_Bijection
<1>7. IsFiniteSet(mine)
  <2> DEFINE g == [y \in mine |-> <<k, y>>]
  <2>1. g \in [mine -> P] /\ \A y, z \in mine : g[y] = g[z] => y = z
    OBVIOUS
  <2>2. g \in Injection(mine, P)
    BY <2>1 DEF Injection, IsInjective
  <2> HIDE DEF g, mine
  <2>3. QED
    BY <1>1, <2>2, FS_Injection
<1>8. Cardinality(lower) + 1 \in 1 .. Cardinality(mine) /\ Cardinality(mine) \in Nat
  <2>1. x \in mine /\ lower \subseteq mine \ {x}
    <3>1. x.row \in Int
      BY <1>2
    <3>2. QED
      BY <3>1
  <2> HIDE DEF mine, lower
  <2>2. IsFiniteSet(mine \ {x}) /\ Cardinality(mine \ {x}) = Cardinality(mine) - 1 /\ Cardinality(mine) \in Nat
    BY <1>7, <2>1, FS_RemoveElement, FS_CardinalityType
  <2>3. Cardinality(lower) <= Cardinality(mine \ {x}) /\ Cardinality(lower) \in Nat
    BY <1>6, <2>1, <2>2, FS_Subset, FS_CardinalityType
  <2>4. QED
    BY <2>2, <2>3
<1>9. Nth(x, mine) = Cardinality(lower) + 1
  BY DEF Nth
<1>10. Cardinality(first) \in Nat /\ Cardinality(here) \in Nat
  BY <1>4, FS_CardinalityType
<1>11. Place(p, P) = Cardinality(first) + Nth(x, mine)
  <2> HIDE DEF p, mine, first, here, lower
  <2>1. QED
    BY <1>1, <1>5, <1>6, <1>9, <1>10
<1>12. QED
  BY <1>8, <1>9, <1>10, <1>11

\* Request k's share has, at the place a row has in it, the value of that row.
LEMMA ShareIsOwn ==
  ASSUME batch \in Seq(Requests), RowsOnce(batch), NEW P \in SUBSET Positions(batch), NEW value,
         NEW k \in DOMAIN batch, NEW x \in batch[k].rows, <<k, x>> \in P
  PROVE  LET mine == {y \in batch[k].rows : <<k, y>> \in P} IN
         Share(k, Stacked(value, P), P).actions[Nth(x, mine)] = value[<<k, x>>]
<1> DEFINE mine == {y \in batch[k].rows : <<k, y>> \in P}
           seen == Cardinality({p \in P : p[1] < k})
           all  == Stacked(value, P)
           n    == Nth(x, mine)
           size == Cardinality(mine)
<1>1. seen \in Nat /\ size \in Nat /\ n \in 1 .. size /\ Place(<<k, x>>, P) = seen + n
  BY PlaceInRequest
<1>2. /\ Place(<<k, x>>, P) \in 1 .. Cardinality(P)
      /\ \A z \in P : Place(z, P) = Place(<<k, x>>, P) => z = <<k, x>>
  BY PlacesApart
<1>3. all[seen + n] = value[<<k, x>>]
  <2> DEFINE j == seen + n
  <2>1. j \in 1 .. Cardinality(P) /\ j = Place(<<k, x>>, P)
    BY <1>1, <1>2
  <2> HIDE DEF j
  <2>2. all[j] = value[CHOOSE p \in P : Place(p, P) = j]
    BY <2>1 DEF Stacked
  <2>3. (CHOOSE p \in P : Place(p, P) = j) = <<k, x>>
    BY <1>2, <2>1
  <2>4. QED
    BY <2>2, <2>3 DEF j
<1>4. Share(k, all, P).actions = SubSeq(all, seen + 1, seen + size)
  BY DEF Share
<1> HIDE DEF mine, seen, all, n, size
<1>5. SubSeq(all, seen + 1, seen + size)[n] = all[seen + n]
  <2> DEFINE S == {all[i] : i \in (seen + 1) .. (seen + size)}
  <2>1. \A i \in (seen + 1) .. (seen + size) : all[i] \in S
    OBVIOUS
  <2>2. seen + 1 \in Int /\ seen + size \in Int
    BY <1>1
  <2> HIDE DEF S
  <2>3. \A i \in 1 .. (seen + size) - (seen + 1) + 1 :
          SubSeq(all, seen + 1, seen + size)[i] = all[(seen + 1) + i - 1]
    BY <2>1, <2>2, SubSeqProperties
  <2>4. n \in 1 .. (seen + size) - (seen + 1) + 1 /\ (seen + 1) + n - 1 = seen + n
    BY <1>1
  <2>5. QED
    BY <2>3, <2>4
<1>6. QED
  BY <1>3, <1>4, <1>5 DEF mine, all, n

-----------------------------------------------------------------------------
(* A run of the model and the buffers.                                     *)

\* A row of c that still runs in the batch is part of what c waits for.
LEMMA BatchRow ==
  ASSUME EngineInv, NEW p \in Positions(batch), Current(p[2]), NEW c \in Conns, p[2].row \in rows[c]
  PROVE  /\ at[c] = "asked" /\ ~outcome[c].done /\ Answered(c, batch)
         /\ p[2] \in asked[c] /\ p[2] \in Asked /\ p[2].row \in Rows /\ ~failed[p[2].row]
         /\ p[2] = [row |-> p[2].row, gen |-> gen[p[2].row], step |-> steps[p[2].row] - 1]
<1>1. /\ RequestsFit(Unfinished) /\ AskedFits /\ ConnData /\ RowData /\ QueueData /\ RowsApart
  BY DEF EngineInv, DataOK
<1> DEFINE d == batch[p[1]].conn
<1>2. /\ p[1] \in DOMAIN batch /\ d \in Conns /\ at[d] = "asked" /\ batch[p[1]].rows = asked[d]
      /\ ~outcome[d].done /\ p[2] \in Asked /\ p[2] \in asked[d] /\ ~failed[p[2].row] /\ c = d
  BY <1>1, RunningPosition
<1>3. Answered(c, batch)
  BY <1>2 DEF Answered
<1> HIDE DEF d
<1>4. p[2].row \in Rows /\ p[2].gen = gen[p[2].row] /\ p[2].step + 1 = steps[p[2].row]
  BY <1>1, <1>2 DEF Asked, AskedFits, AskFits, Current
<1>5. p[2] = [row |-> p[2].row, gen |-> gen[p[2].row], step |-> steps[p[2].row] - 1]
  BY <1>2, <1>4 DEF Asked
<1>6. QED
  BY <1>2, <1>3, <1>4, <1>5

\* The rows of a connection in the batch are its positions.
LEMMA RowInBatch ==
  ASSUME EngineInv, NEW c \in Conns, Answered(c, batch), NEW r \in rows[c], ~failed[r], at[c] = "asked"
  PROVE  \E p \in Positions(batch) : p[2].row = r /\ Current(p[2])
<1>1. PICK k \in DOMAIN batch : batch[k].conn = c /\ batch[k].rows = asked[c]
  BY DEF Answered
<1>2. PICK x \in asked[c] : x.row = r /\ Current(x)
  BY DEF EngineInv, AskedFits, AskFits
<1>3. <<k, x>> \in Positions(batch)
  BY <1>1, <1>2, PositionsOf DEF EngineInv, DataOK, QueueData
<1>4. <<k, x>>[2].row = r /\ Current(<<k, x>>[2])
  BY <1>2
<1> HIDE DEF Positions
<1>5. QED
  BY <1>3, <1>4

\* A row that loses its oldest action goes on with the next.
LEMMA PopMoves ==
  ASSUME BufferData, NEW S, \A r \in S : buffers[r] # <<>>, buffers' = Popped(S),
         NEW r \in Rows \cap S, NEW n \in Int, InStep(r, n), gen'[r] = gen[r]
  PROVE  /\ InStep(r, n + 1)'
         /\ Head(buffers[r]) = [row |-> r, gen |-> gen[r], step |-> n]
<1>1. /\ Len(buffers[r]) \in Nat \ {0} /\ DOMAIN buffers[r] = 1 .. Len(buffers[r])
      /\ DOMAIN buffers'[r] = 1 .. Len(buffers[r]) - 1
      /\ \A i \in DOMAIN buffers'[r] : buffers'[r][i] = buffers[r][i + 1]
  BY PoppedKeeps
<1>2. ASSUME NEW i \in DOMAIN buffers'[r]
      PROVE  buffers'[r][i] = [row |-> r, gen |-> gen'[r], step |-> (n + 1) + i - 1]
  <2>1. i \in Nat /\ i + 1 \in DOMAIN buffers[r]
    BY <1>1
  <2>2. buffers[r][i + 1] = [row |-> r, gen |-> gen[r], step |-> n + (i + 1) - 1]
    BY <2>1 DEF InStep
  <2>3. n + (i + 1) - 1 = (n + 1) + i - 1
    BY <2>1
  <2>4. QED
    BY <1>1, <2>2, <2>3
<1>3. 1 \in DOMAIN buffers[r] /\ buffers[r][1] = [row |-> r, gen |-> gen[r], step |-> n]
  <2>1. 1 \in DOMAIN buffers[r]
    BY <1>1
  <2>2. buffers[r][1] = [row |-> r, gen |-> gen[r], step |-> n + 1 - 1]
    BY <2>1 DEF InStep
  <2>3. n + 1 - 1 = n
    OBVIOUS
  <2>4. QED
    BY <2>1, <2>2, <2>3
<1>4. Head(buffers[r]) = buffers[r][1]
  OBVIOUS
<1>5. QED
  BY <1>2, <1>3, <1>4 DEF InStep

LEMMA EmptyInStep ==
  ASSUME NEW r, NEW n, buffers[r] = <<>>
  PROVE  InStep(r, n)
BY DEF InStep

\* The rows a run serves from their buffers are the ones that still run and have any.
LEMMA InferServes ==
  ASSUME Infer, QueueData
  PROVE  \E S \in SUBSET Rows :
           /\ buffers' = Popped(S)
           /\ \A r \in Rows : r \in S <=> /\ chunked[r] /\ buffers[r] # <<>>
                                        /\ \E p \in Positions(batch) : p[2].row = r /\ Current(p[2])
<1> DEFINE live   == StillRunning(Positions(batch))
           chunks == {p \in live : chunked[p[2].row]}
           served == {p \in chunks : buffers[p[2].row] # <<>>}
           S      == {p[2].row : p \in served}
<1>1. buffers' = Popped(S)
  BY DEF Infer
<1>2. \A p : p \in served <=> /\ p \in Positions(batch) /\ Current(p[2])
                              /\ chunked[p[2].row] /\ buffers[p[2].row] # <<>>
  BY DEF StillRunning
<1>3. \A p \in Positions(batch) : p[2].row \in Rows
  <2>1. \A p \in Positions(batch) : p[2] \in Asked
    BY PositionsOf DEF QueueData
  <2>2. QED
    BY <2>1 DEF Asked
<1> HIDE DEF served
<1>4. S \in SUBSET Rows
  BY <1>2, <1>3
<1>5. QED
  BY <1>1, <1>2, <1>4

\* What a run does to the rows of c: nothing, or it takes their oldest action when
\* they are in the batch.
LEMMA InferRows ==
  ASSUME EngineInv, AnswersInv, Infer, NEW c \in Conns
  PROVE  /\ ~(at[c] = "asked" /\ ~outcome[c].done /\ Answered(c, batch)) =>
              \A r \in rows[c] : buffers'[r] = buffers[r]
         /\ at[c] = "asked" /\ ~outcome[c].done /\ Answered(c, batch) => Even(c)'
<1>1. /\ ConnData /\ RowData /\ BufferData /\ QueueData /\ ChunksFit /\ AskedFits
  BY DEF EngineInv, DataOK
<1>2. PICK S \in SUBSET Rows :
        /\ buffers' = Popped(S)
        /\ \A r \in Rows : r \in S <=> /\ chunked[r] /\ buffers[r] # <<>>
                                     /\ \E p \in Positions(batch) : p[2].row = r /\ Current(p[2])
  BY <1>1, InferServes
<1>3. dp = "checkpoint" /\ UNCHANGED <<rows, gen, steps, failed>>
  BY InferSteps
<1>4. rows[c] \subseteq Rows /\ \A r \in rows[c] : steps[r] \in Nat
  BY <1>1 DEF ConnData, RowData
<1>5. \A r \in Rows : r \notin S => buffers'[r] = buffers[r]
  BY <1>1, <1>2, PoppedKeeps
<1>6. ASSUME NEW r \in rows[c], r \in S PROVE at[c] = "asked" /\ ~outcome[c].done /\ Answered(c, batch)
  <2>1. PICK p \in Positions(batch) : p[2].row = r /\ Current(p[2])
    BY <1>2, <1>6
  <2>2. QED
    BY <2>1, BatchRow
<1>7. ASSUME at[c] = "asked", ~outcome[c].done, Answered(c, batch), NEW r \in rows[c], ~failed[r]
      PROVE  InStep(r, steps[r])'
  <2>1. InStep(r, steps[r] - 1)
    BY <1>3, <1>7 DEF AnswersInv, StepFits, Early
  <2>2. CASE r \in S
    <3>1. r \in Rows \cap S /\ steps[r] - 1 \in Int /\ gen'[r] = gen[r]
      BY <1>3, <1>4, <2>2
    <3>2. PICK n \in Int : n = steps[r] - 1
      BY <3>1
    <3>3. InStep(r, n + 1)'
      BY <1>1, <1>2, <2>1, <3>1, <3>2, PopMoves
    <3>4. n + 1 = steps'[r]
      BY <1>3, <1>4, <3>2
    <3>5. QED
      BY <3>3, <3>4 DEF InStep
  <2>3. CASE r \notin S
    <3>1. PICK p \in Positions(batch) : p[2].row = r /\ Current(p[2])
      BY <1>7, RowInBatch
    <3>2. buffers[r] = <<>>
      <4>1. RowFits(c, r)
        BY <1>1 DEF ChunksFit
      <4>2. buffers[r] = <<>> \/ chunked[r]
        BY <1>7, <4>1 DEF RowFits
      <4>3. QED
        BY <1>2, <1>4, <2>3, <3>1, <4>2
    <3>3. buffers'[r] = <<>>
      BY <1>4, <1>5, <2>3, <3>2
    <3>4. QED
      BY <3>3, EmptyInStep DEF InStep
  <2>4. QED
    BY <2>2, <2>3
<1>8. QED
  BY <1>3, <1>4, <1>5, <1>6, <1>7 DEF Even

\* What the returned call does to the rows of c: nothing, or it keeps the rest of a
\* chunk whose first action answers the observation asked for.
LEMMA ReturnedRows ==
  ASSUME EngineInv, AnswersInv, InferReturned, NEW c \in Conns
  PROVE  /\ ~(at[c] = "asked" /\ ~outcome[c].done /\ Answered(c, batch)) =>
              \A r \in rows[c] : buffers'[r] = buffers[r]
         /\ at[c] = "asked" /\ ~outcome[c].done /\ Answered(c, batch) => Even(c)'
<1>1. DataOK /\ CallFits /\ dp = "model" /\ UNCHANGED <<rows, gen, steps, failed>> /\ ConnData /\ RowData
  BY DEF EngineInv, DataOK, InferReturned
<1>2. PICK bad \in SUBSET call.todo : \E lens \in [(call.todo \cap call.chunks) \ bad -> ChunkLens] :
             ReturnedWith(bad, lens)
  BY ReturnedLens
<1>3. PICK lens \in [(call.todo \cap call.chunks) \ bad -> ChunkLens] : ReturnedWith(bad, lens)
  BY <1>2
<1>4. rows[c] \subseteq Rows /\ \A r \in rows[c] : KeptAt(r, bad, lens)
  BY <1>1, <1>3, KeptIs DEF ConnData, ReturnedWith
<1>5. ASSUME NEW r \in rows[c], buffers'[r] # buffers[r]
      PROVE  /\ at[c] = "asked" /\ ~outcome[c].done /\ Answered(c, batch)
             /\ InStep(r, steps[r])'
  <2>1. PICK p \in (call.todo \cap call.chunks) \ bad :
          /\ p \in Positions(batch) /\ p[2].row = r /\ Current(p[2])
          /\ lens[p] \in Nat /\ lens[p] > 0
          /\ buffers'[r] = Tail(ChunkOf(p[2], lens[p]))
    BY <1>4, <1>5 DEF KeptAt
  <2>2. /\ at[c] = "asked" /\ ~outcome[c].done /\ Answered(c, batch) /\ p[2] \in Asked
        /\ p[2] = [row |-> r, gen |-> gen[r], step |-> steps[r] - 1]
    BY <2>1, BatchRow
  <2>3. p[2].gen = gen[r] /\ p[2].step = steps[r] - 1 /\ steps[r] \in Nat
    <3>1. p[2].gen = gen[r] /\ p[2].step = steps[r] - 1
      BY <2>2
    <3>2. QED
      BY <1>1, <1>4, <3>1 DEF RowData
  <2>4. /\ DOMAIN buffers'[r] = 1 .. lens[p] - 1
        /\ \A i \in 1 .. lens[p] - 1 :
             buffers'[r][i] = [row |-> p[2].row, gen |-> p[2].gen, step |-> p[2].step + i]
    <3>1. p[2] \in Asked /\ lens[p] \in Nat /\ lens[p] > 0
      BY <2>1, <2>2
    <3>2. PICK x \in Asked, n \in Nat : x = p[2] /\ n = lens[p] /\ n > 0
      BY <3>1
    <3>3. /\ DOMAIN Tail(ChunkOf(x, n)) = 1 .. n - 1
          /\ \A i \in 1 .. n - 1 :
               Tail(ChunkOf(x, n))[i] = [row |-> x.row, gen |-> x.gen, step |-> x.step + i]
      BY <3>2, ChunkTail
    <3>4. QED
      BY <2>1, <3>2, <3>3
  <2>5. \A i \in 1 .. lens[p] - 1 : p[2].step + i = steps[r] + i - 1
    BY <2>1, <2>3
  <2>6. \A i \in DOMAIN buffers'[r] : buffers'[r][i] = [row |-> r, gen |-> gen'[r], step |-> steps'[r] + i - 1]
    BY <1>1, <2>1, <2>3, <2>4, <2>5
  <2>7. QED
    BY <2>2, <2>6 DEF InStep
<1>6. ASSUME at[c] = "asked", ~outcome[c].done, Answered(c, batch), NEW r \in rows[c], ~failed[r]
      PROVE  InStep(r, steps[r])'
  <2>1. InStep(r, steps[r])
    BY <1>1, <1>6 DEF AnswersInv, StepFits, Even
  <2>2. CASE buffers'[r] = buffers[r]
    BY <1>1, <2>1, <2>2 DEF InStep
  <2>3. CASE buffers'[r] # buffers[r]
    BY <1>5, <2>3
  <2>4. QED
    BY <2>2, <2>3
<1>7. QED
  BY <1>1, <1>5, <1>6 DEF Even

\* What a connection's buffers are in step with stays while its own state does.
LEMMA StepsStay ==
  ASSUME NEW c \in Conns, StepFits(c),
         rows'[c] = rows[c], asked'[c] = asked[c], at'[c] = at[c], outcome'[c].done = outcome[c].done,
         \A r \in rows[c] : /\ gen'[r] = gen[r] /\ steps'[r] = steps[r] /\ failed'[r] = failed[r]
                            /\ buffers'[r] = buffers[r],
         \A x \in asked[c] : x.row \in rows[c],
         dp = "down" => dp' = "down",
         at[c] = "asked" /\ ~outcome[c].done =>
           (dp' = "model" /\ Answered(c, batch)' <=> dp = "model" /\ Answered(c, batch))
  PROVE  StepFits(c)'
<1>1. Even(c)' <=> Even(c)
  BY DEF Even, InStep
<1>2. Early(c) => Early(c)'
  BY DEF Early, InStep
<1>3. Lags(c) => Lags(c)'
  BY DEF Lags
<1>4. QED
  BY <1>1, <1>2, <1>3 DEF StepFits

\* A row that has nothing buffered is in step with everything.
LEMMA StepsEmpty ==
  ASSUME NEW c \in Conns, \A r \in rows'[c] : ~failed'[r] => buffers'[r] = <<>>,
         c \in Chunking /\ at'[c] = "asked" => \E x \in asked'[c] : buffers'[x.row] = <<>>
  PROVE  StepFits(c)'
<1>1. Even(c)' /\ (at'[c] = "asked" => Early(c)')
  BY DEF Even, Early, InStep
<1>2. QED
  BY <1>1 DEF StepFits

\* The dispatcher's steps that begin or end a run: the connections of the batch have
\* their rows' buffers in step for the next observation, the others have them unchanged.
LEMMA RunFits ==
  ASSUME EngineInv, AnswersInv, Infer \/ InferReturned \/ InferRaised, NEW c \in Conns
  PROVE  StepFits(c)'
<1>1. /\ dp \in {"checkpoint", "model"} /\ UNCHANGED <<at, rows, asked, gen, steps, failed>>
      /\ \/ dp = "checkpoint" /\ dp' = "model" /\ UNCHANGED <<outcome, batch>>
         \/ RunOver
  BY InferSteps, InferOverSteps
<1>2. RunOver => dp' \in {"sleep", "gather", "checkpoint"} /\ Completes(batch)
  BY AfterRunSplits DEF RunOver, EngineInv, DataOK, QueueData
<1>3. /\ ~(at[c] = "asked" /\ ~outcome[c].done /\ Answered(c, batch)) =>
           \A r \in rows[c] : buffers'[r] = buffers[r]
      /\ at[c] = "asked" /\ ~outcome[c].done /\ Answered(c, batch) => Even(c)'
  <2>1. CASE InferRaised
    <3>1. UNCHANGED <<rows, gen, steps, failed, buffers>> /\ dp = "model"
      BY <2>1 DEF InferRaised, rowVars
    <3>2. at[c] = "asked" /\ ~outcome[c].done /\ Answered(c, batch) => Even(c)
      BY <3>1 DEF AnswersInv, StepFits
    <3>3. Even(c) => Even(c)'
      BY <3>1 DEF Even, InStep
    <3>4. QED
      BY <3>1, <3>2, <3>3
  <2>2. QED
    BY <2>1, InferRows, ReturnedRows
<1>4. StepFits(c) /\ AskFits(c) /\ outcome[c].done \in BOOLEAN
  BY DEF AnswersInv, EngineInv, AskedFits, DataOK, OutcomeData
<1>5. CASE at[c] = "asked" /\ ~outcome[c].done /\ Answered(c, batch)
  <2>1. Even(c)'
    BY <1>3, <1>5
  <2>2. dp' # "model" => outcome'[c].done
    BY <1>1, <1>2, <1>5 DEF Completes
  <2>3. dp' = "model" => Answered(c, batch)'
    BY <1>1, <1>2, <1>5 DEF Answered
  <2>4. QED
    BY <2>1, <2>2, <2>3 DEF StepFits
<1>6. CASE ~(at[c] = "asked" /\ ~outcome[c].done /\ Answered(c, batch))
  <2>1. \A r \in rows[c] : buffers'[r] = buffers[r]
    BY <1>3, <1>6
  <2>2. at[c] = "asked" => outcome'[c].done = outcome[c].done
    <3>1. CASE outcome'[c] = outcome[c]
      BY <3>1
    <3>2. CASE Answered(c, batch) /\ Completes(batch)
      BY <1>4, <1>6, <3>2 DEF Completes
    <3>3. QED
      BY <1>1, <1>2, <3>1, <3>2 DEF Completes
  <2>3. \A x \in asked[c] : x.row \in rows[c]
    BY <1>4 DEF AskFits
  <2>4. CASE at[c] = "asked"
    <3>1. ~outcome[c].done => ~(dp' = "model" /\ Answered(c, batch)') /\ ~(dp = "model" /\ Answered(c, batch))
      BY <1>1, <1>2, <1>6, <2>4 DEF Answered
    <3>2. QED
      BY <1>1, <1>4, <2>1, <2>2, <2>3, <2>4, <3>1, StepsStay
  <2>5. CASE at[c] # "asked"
    <3>1. at[c] = "running" => Even(c)
      BY <1>1, <1>4 DEF StepFits, Lags
    <3>2. Even(c) => Even(c)'
      BY <1>1, <2>1 DEF Even, InStep
    <3>3. QED
      BY <1>1, <2>5, <3>1, <3>2 DEF StepFits
  <2>6. QED
    BY <2>4, <2>5
<1>7. QED
  BY <1>5, <1>6

\* A connection of a single-episode client has one row at most.
LEMMA OneRow ==
  ASSUME EngineInv, NEW c \in Conns, c \notin VectorConns, NEW r \in rows[c], NEW s \in rows[c]
  PROVE  r = s
<1>1. SUFFICES ASSUME r # s PROVE FALSE
  OBVIOUS
<1>2. rows[c] \subseteq Rows /\ Cardinality(rows[c]) <= 1
  BY DEF EngineInv, DataOK, ConnData, RowsApart, WidthOf
<1>3. IsFiniteSet(rows[c])
  BY <1>2, RowsAreNumbers, FS_Subset
<1>4. IsFiniteSet(rows[c] \ {r}) /\ Cardinality(rows[c] \ {r}) = Cardinality(rows[c]) - 1
  BY <1>3, FS_RemoveElement
<1>5. rows[c] \ {r} # {}
  BY <1>1
<1>6. Cardinality(rows[c] \ {r}) \in Nat \ {0} /\ Cardinality(rows[c]) \in Nat
  BY <1>3, <1>4, <1>5, FS_CardinalityType, FS_EmptySet
<1>7. QED
  BY <1>2, <1>4, <1>6

\* An observation of c: its rows' buffers are in step with it, unless the engine is
\* stopped and lags.
LEMMA ObserveFits ==
  ASSUME EngineInv, AnswersInv, NEW c \in Conns, Observe(c)
  PROVE  StepFits(c)' /\ RepliesFit(c)'
<1>1. /\ ConnData /\ RowData /\ BufferData /\ ChunksFit /\ AskFits(c) /\ StepFits(c)
  BY DEF EngineInv, DataOK, AskedFits, AnswersInv
<1>2. /\ at[c] = "running" /\ UNCHANGED <<rows, outcome, gen, failed, dp, batch>>
      /\ steps' = [r \in Rows |-> IF r \in rows[c] THEN steps[r] + 1 ELSE steps[r]]
      /\ at \in [Conns -> {"idle", "resetting", "running", "asked", "finishing"}]
      /\ DOMAIN asked = Conns /\ DOMAIN got = Conns
  BY <1>1 DEF Observe, ConnData, EngineInv, DataOK, OutcomeData
<1>3. rows[c] \subseteq Rows /\ \A r \in rows[c] : /\ steps[r] \in Nat /\ steps'[r] = steps[r] + 1
                                                   /\ RowFits(c, r)
  BY <1>1, <1>2 DEF ConnData, RowData, ChunksFit
<1>4. /\ \A x \in Asks(c) : /\ x.row \in rows[c] /\ ~failed[x.row]
                            /\ x.gen = gen[x.row] /\ x.step = steps[x.row] /\ x \in Asked
      /\ \A r \in rows[c] : ~failed[r] => \E x \in Asks(c) : x.row = r
      /\ Asks(c) # {}
  <2>1. \E r \in rows[c] : ~failed[r]
    BY DEF Observe
  <2>2. QED
    BY <1>1, <2>1, AsksFit
<1>5. \A x \in Asks(c) : x = [row |-> x.row, gen |-> gen[x.row], step |-> steps[x.row]]
  BY <1>4 DEF Asked
<1>6. Lags(c) \/ Even(c)
  BY <1>1, <1>2 DEF StepFits
<1>7. ~outcome[c].done
  BY <1>1, <1>2 DEF AskFits
<1>8. CASE \A x \in Asks(c) : Buffered(x)
  <2> DEFINE S == {x.row : x \in Asks(c)}
  <2>1. /\ got' = [got EXCEPT ![c] = {[for |-> x, action |-> Head(buffers[x.row])] : x \in Asks(c)}]
        /\ buffers' = Popped(S) /\ UNCHANGED at
    BY <1>8 DEF Observe
  <2>2. Even(c)
    BY <1>4, <1>6, <1>8 DEF Lags, Buffered
  <2>3. /\ \A r \in S : buffers[r] # <<>>
        /\ \A r \in rows[c] : ~failed[r] => r \in S
    BY <1>4, <1>8 DEF Buffered
  <2> HIDE DEF S
  <2>4. ASSUME NEW r \in rows[c], ~failed[r]
        PROVE  /\ InStep(r, steps[r])'
               /\ Head(buffers[r]) = [row |-> r, gen |-> gen[r], step |-> steps[r]]
    <3>1. r \in Rows \cap S /\ gen'[r] = gen[r] /\ InStep(r, steps[r])
      BY <1>2, <1>3, <2>2, <2>3, <2>4 DEF Even
    <3>2. PICK n \in Int : n = steps[r]
      BY <1>3
    <3>3. InStep(r, n + 1)' /\ Head(buffers[r]) = [row |-> r, gen |-> gen[r], step |-> n]
      BY <1>1, <2>1, <2>3, <3>1, <3>2, PopMoves
    <3>4. n + 1 = steps'[r]
      BY <1>3, <3>2
    <3>5. QED
      BY <3>2, <3>3, <3>4 DEF InStep
  <2>5. Even(c)' /\ at'[c] = "running"
    BY <1>2, <2>1, <2>4 DEF Even
  <2>6. \A x \in Asks(c) : Head(buffers[x.row]) = x
    BY <1>4, <1>5, <2>4
  <2>7. got'[c] = {[for |-> x, action |-> Head(buffers[x.row])] : x \in Asks(c)}
    BY <1>2, <2>1
  <2>8. RepliesFit(c)'
    BY <2>6, <2>7 DEF RepliesFit
  <2>9. QED
    BY <2>5, <2>8 DEF StepFits
<1>9. CASE ~\A x \in Asks(c) : Buffered(x)
  <2>1. /\ got' = [got EXCEPT ![c] = {}] /\ UNCHANGED buffers
        /\ \/ dp = "down" /\ UNCHANGED <<at, asked>>
           \/ /\ dp # "down" /\ at' = [at EXCEPT ![c] = "asked"]
              /\ asked' = [asked EXCEPT ![c] = Asks(c)]
    BY <1>9 DEF Observe
  <2>2. RepliesFit(c)'
    BY <1>2, <2>1 DEF RepliesFit
  <2>3. PICK x \in Asks(c) : ~Buffered(x)
    BY <1>9
  <2>4. c \in Chunking => buffers[x.row] = <<>>
    BY <1>2, <1>3, <1>4, <2>3 DEF RowFits, Buffered
  <2>5. c \notin Chunking => \A r \in rows[c] : buffers[r] = <<>>
    BY <1>3 DEF RowFits
  <2>6. CASE c \notin Chunking
    BY <1>2, <2>1, <2>2, <2>5, <2>6, StepsEmpty
  <2>7. CASE c \in Chunking /\ dp = "down" /\ UNCHANGED <<at, asked>>
    <3>1. Lags(c)'
      BY <1>2, <1>4, <2>1, <2>4, <2>7 DEF Lags
    <3>2. QED
      BY <1>2, <2>2, <2>7, <3>1 DEF StepFits
  <2>8. CASE /\ c \in Chunking /\ dp # "down" /\ at' = [at EXCEPT ![c] = "asked"]
             /\ asked' = [asked EXCEPT ![c] = Asks(c)]
    <3>1. at'[c] = "asked" /\ asked'[c] = Asks(c)
      BY <1>2, <2>8
    <3>2. \A r \in rows[c] : ~failed[r] => InStep(r, steps[r])
      BY <1>6, <2>8 DEF Lags, Even
    <3>3. \A r \in rows[c] : ~failed[r] => InStep(r, steps[r] - 1)'
      BY <1>2, <1>3, <2>1, <3>2 DEF InStep
    <3>4. Early(c)'
      BY <1>2, <2>1, <2>4, <2>8, <3>1, <3>3 DEF Early
    <3>5. ~Answered(c, batch)'
      <4>1. SUFFICES ASSUME NEW k \in DOMAIN batch, batch[k].conn = c, batch[k].rows = Asks(c)
                     PROVE  FALSE
        BY <1>2, <3>1 DEF Answered
      <4>2. <<k, x>> \in Positions(batch) /\ Current(<<k, x>>[2]) /\ <<k, x>>[2].row \in rows[c]
        BY <1>4, <2>3, <4>1, PositionsOf DEF EngineInv, DataOK, QueueData, Current
      <4> HIDE DEF Positions
      <4>3. PICK p \in Positions(batch) : Current(p[2]) /\ p[2].row \in rows[c]
        BY <4>2
      <4>4. at[c] = "asked"
        BY <4>3, BatchRow
      <4>5. QED
        BY <1>2, <4>4
    <3>6. QED
      BY <1>2, <1>7, <2>2, <3>1, <3>4, <3>5 DEF StepFits
  <2>9. QED
    BY <2>1, <2>6, <2>7, <2>8
<1>10. QED
  BY <1>8, <1>9

\* An episode of c fails: the others of the step have nothing buffered, or there is none.
LEMMA FailFits ==
  ASSUME EngineInv, AnswersInv, FailuresApart, NEW q \in Rows, FailEpisode(q), NEW c \in Conns
  PROVE  StepFits(c)'
<1>1. /\ q \in Failing /\ failed' = [failed EXCEPT ![q] = TRUE] /\ gen' = [gen EXCEPT ![q] = gen[q] + 1]
      /\ UNCHANGED <<at, rows, asked, outcome, steps, buffers, dp, batch>>
  BY DEF FailEpisode, connVars, dispVars
<1>2. /\ ConnData /\ RowData /\ ChunksFit /\ AskFits(c) /\ StepFits(c)
  BY DEF EngineInv, DataOK, AskedFits, AnswersInv
<1>3. rows[c] \subseteq Rows /\ \A r \in Rows : r # q => gen'[r] = gen[r] /\ failed'[r] = failed[r]
  BY <1>1, <1>2 DEF ConnData, RowData
<1>4. \A x \in asked[c] : x.row \in rows[c]
  BY <1>2 DEF AskFits
<1>5. CASE q \notin rows[c]
  <2>1. \A r \in rows[c] : gen'[r] = gen[r] /\ failed'[r] = failed[r]
    BY <1>3, <1>5
  <2>2. Answered(c, batch)' <=> Answered(c, batch)
    BY <1>1 DEF Answered
  <2>3. QED
    BY <1>1, <1>2, <1>4, <2>1, <2>2, StepsStay
<1>6. CASE q \in rows[c] /\ c \notin Chunking
  <2>1. \A r \in rows[c] : buffers[r] = <<>>
    BY <1>2, <1>6 DEF ChunksFit, RowFits
  <2>2. QED
    BY <1>1, <1>6, <2>1, StepsEmpty
<1>7. CASE q \in rows[c] /\ c \in Chunking
  <2>1. c \notin VectorConns
    BY <1>1, <1>7 DEF FailuresApart
  <2>2. \A r \in rows[c] : r = q
    BY <1>7, <2>1, OneRow
  <2>3. failed'[q]
    BY <1>1, <1>2 DEF RowData
  <2>4. Even(c)'
    BY <1>1, <2>2, <2>3 DEF Even
  <2>5. Early(c) => Early(c)'
    BY <1>1, <2>2, <2>3 DEF Early
  <2>6. Answered(c, batch)' <=> Answered(c, batch)
    BY <1>1 DEF Answered
  <2>7. QED
    BY <1>1, <1>2, <2>4, <2>5, <2>6 DEF StepFits
<1>8. QED
  BY <1>5, <1>6, <1>7

\* The engine stops: an observation it has failed leaves a row without an action, or
\* nothing is buffered.
LEMMA StopFits ==
  ASSUME EngineInv, AnswersInv, FailuresApart, Stop, NEW c \in Conns
  PROVE  StepFits(c)'
<1>1. /\ dp \in {"sleep", "gather", "checkpoint"} /\ dp' = "down"
      /\ UNCHANGED <<at, rows, asked, gen, steps, failed, buffers>>
      /\ Completes(Unfinished)
  BY StopSteps DEF rowVars
<1>2. /\ ConnData /\ RowData /\ ChunksFit /\ AskFits(c) /\ StepFits(c)
  BY DEF EngineInv, DataOK, AskedFits, AnswersInv
<1>3. rows[c] \subseteq Rows
  BY <1>2 DEF ConnData
<1>4. ~Lags(c) /\ ~(dp = "model")
  BY <1>1 DEF Lags
<1>5. CASE at[c] = "running" \/ (at[c] = "asked" /\ outcome[c].done)
  <2>1. Even(c)
    BY <1>2, <1>4, <1>5 DEF StepFits
  <2>2. Even(c)'
    BY <1>1, <2>1 DEF Even, InStep
  <2>3. at[c] = "asked" => outcome'[c].done
    <3>1. at[c] = "asked" => outcome[c].done
      BY <1>5
    <3>2. QED
      BY <1>1, <3>1 DEF Completes
  <2>4. QED
    BY <1>1, <2>2, <2>3 DEF StepFits
<1>6. CASE at[c] = "asked" /\ ~outcome[c].done
  <2>1. Early(c)
    BY <1>2, <1>4, <1>6 DEF StepFits
  <2>2. Early(c)'
    BY <1>1, <2>1 DEF Early, InStep
  <2>3. Lags(c)' \/ Even(c)'
    <3>1. CASE c \notin Chunking
      <4>1. \A r \in rows[c] : buffers[r] = <<>>
        BY <1>2, <3>1 DEF ChunksFit, RowFits
      <4>2. QED
        BY <1>1, <4>1 DEF Even, InStep
    <3>2. CASE c \in Chunking
      <4>1. PICK x \in asked[c] : buffers[x.row] = <<>>
        BY <2>1, <3>2 DEF Early
      <4>2. x.row \in rows[c] /\ x.row \in Rows
        BY <1>2, <1>3 DEF AskFits
      <4>3. CASE ~failed[x.row]
        BY <1>1, <4>1, <4>2, <4>3 DEF Lags
      <4>4. CASE failed[x.row]
        <5>1. Failing # {}
          BY <4>2, <4>4 DEF AnswersInv, FailuresFit
        <5>2. c \notin VectorConns
          BY <3>2, <5>1 DEF FailuresApart
        <5>3. \A r \in rows[c] : r = x.row
          BY <4>2, <5>2, OneRow
        <5>4. QED
          BY <1>1, <4>4, <5>3 DEF Even
      <4>5. QED
        BY <4>3, <4>4
    <3>3. QED
      BY <3>1, <3>2
  <2>4. QED
    BY <1>1, <2>2, <2>3 DEF StepFits
<1>7. CASE at[c] \notin {"running", "asked"}
  BY <1>1, <1>7 DEF StepFits
<1>8. QED
  BY <1>5, <1>6, <1>7

LEMMA StepsNext ==
  ASSUME EngineInv, AnswersInv, FailuresApart, Next, NEW d \in Conns
  PROVE  StepFits(d)'
<1>1. /\ ConnData /\ RowData /\ QueueData /\ OutcomeData /\ RowsApart /\ ChunksFit
      /\ AskFits(d) /\ StepFits(d)
  BY DEF EngineInv, DataOK, AskedFits, AnswersInv
<1>2. /\ at \in [Conns -> {"idle", "resetting", "running", "asked", "finishing"}]
      /\ rows \in [Conns -> SUBSET Rows] /\ asked \in [Conns -> SUBSET Asked] /\ DOMAIN outcome = Conns
      /\ gen \in [Rows -> Nat] /\ steps \in [Rows -> Nat] /\ failed \in [Rows -> BOOLEAN]
      /\ dp \in {"sleep", "gather", "checkpoint", "model", "down"}
  BY <1>1 DEF ConnData, RowData, OutcomeData, QueueData
<1>3. \A c \in Conns : c # d => rows[c] \cap rows[d] = {}
  BY <1>1 DEF RowsApart
<1>4. \A x \in asked[d] : x.row \in rows[d]
  BY <1>1 DEF AskFits
<1>5. ASSUME UNCHANGED <<at, rows, asked, outcome, gen, steps, failed, buffers>>,
             UNCHANGED <<dp, batch>> \/ (dp' \notin {"model", "down"} /\ dp \notin {"model", "down"})
      PROVE  StepFits(d)'
  <2>1. dp' = "model" /\ Answered(d, batch)' <=> dp = "model" /\ Answered(d, batch)
    BY <1>5 DEF Answered
  <2>2. QED
    BY <1>1, <1>4, <1>5, <2>1, StepsStay
\* Only c and its rows change.
<1>6. ASSUME NEW c \in Conns, c # d,
             rows'[d] = rows[d], asked'[d] = asked[d], at'[d] = at[d], outcome'[d] = outcome[d],
             \A r \in Rows \ rows[c] : r \notin rows'[c] => /\ gen'[r] = gen[r] /\ steps'[r] = steps[r]
                                                            /\ failed'[r] = failed[r] /\ buffers'[r] = buffers[r],
             rows'[c] \cap rows[d] = {},
             UNCHANGED <<dp, batch>>
      PROVE  StepFits(d)'
  <2>1. \A r \in rows[d] : r \in Rows \ rows[c] /\ r \notin rows'[c]
    BY <1>2, <1>3, <1>6
  <2>2. dp' = "model" /\ Answered(d, batch)' <=> dp = "model" /\ Answered(d, batch)
    BY <1>6 DEF Answered
  <2>3. QED
    BY <1>1, <1>4, <1>6, <2>1, <2>2, StepsStay
<1>7. ASSUME NEW c \in Conns, Start(c) PROVE StepFits(d)'
  <2>1. /\ rows' = [rows EXCEPT ![c] = NewRows(c)] /\ at' = [at EXCEPT ![c] = "resetting"]
        /\ gen' = [r \in Rows |-> IF r \in rows'[c] THEN gen[r] + 1 ELSE gen[r]]
        /\ steps' = [r \in Rows |-> IF r \in rows'[c] THEN 0 ELSE steps[r]]
        /\ UNCHANGED <<asked, outcome, failed, buffers, dp, batch>>
    BY <1>7 DEF Start, dispVars
  <2>2. CASE c = d
    <3>1. at'[d] = "resetting"
      BY <1>2, <2>1, <2>2
    <3>2. QED
      BY <3>1 DEF StepFits
  <2>3. CASE c # d
    <3>1. rows'[c] = NewRows(c) /\ NewRows(c) \cap rows[d] = {} /\ rows'[d] = rows[d] /\ at'[d] = at[d]
      BY <1>2, <2>1, <2>3 DEF NewRows, TakenRows
    <3>2. QED
      BY <1>6, <2>1, <2>3, <3>1
  <2>4. QED
    BY <2>2, <2>3
<1>8. ASSUME NEW c \in Conns, ResetReturned(c) PROVE StepFits(d)'
  <2>1. /\ at[c] = "resetting" /\ UNCHANGED <<asked, outcome, gen, steps, buffers, dp, batch>>
        /\ \/ at' = [at EXCEPT ![c] = "running"] /\ UNCHANGED <<rows, failed>>
           \/ Release(c)
    BY <1>8 DEF ResetReturned, dispVars
  <2>2. CASE c = d
    <3>1. \A r \in rows[d] : buffers[r] = <<>>
      BY <1>1, <2>1, <2>2 DEF ChunksFit, RowFits
    <3>2. at'[d] # "asked" /\ (rows'[d] = rows[d] \/ at'[d] = "idle")
      BY <1>2, <2>1, <2>2 DEF Release
    <3>3. CASE rows'[d] = rows[d]
      BY <2>1, <3>1, <3>2, <3>3, StepsEmpty
    <3>4. CASE at'[d] = "idle"
      BY <3>4 DEF StepFits
    <3>5. QED
      BY <3>2, <3>3, <3>4
  <2>3. CASE c # d
    <3>1. rows'[d] = rows[d] /\ at'[d] = at[d] /\ (rows'[c] = rows[c] \/ rows'[c] = {})
      BY <1>2, <2>1, <2>3 DEF Release
    <3>2. \A r \in Rows \ rows[c] : failed'[r] = failed[r]
      BY <1>2, <2>1 DEF Release
    <3>3. QED
      BY <1>3, <1>6, <2>1, <2>3, <3>1, <3>2
  <2>4. QED
    BY <2>2, <2>3
<1>9. ASSUME NEW c \in Conns, FinishReturned(c) PROVE StepFits(d)'
  <2>1. /\ UNCHANGED <<asked, outcome, gen, steps, dp, batch>> /\ Release(c)
        /\ buffers' = [r \in Rows |-> IF r \in rows[c] THEN <<>> ELSE buffers[r]]
    BY <1>9 DEF FinishReturned, dispVars
  <2>2. CASE c = d
    <3>1. at'[d] = "idle"
      BY <1>2, <2>1, <2>2 DEF Release
    <3>2. QED
      BY <3>1 DEF StepFits
  <2>3. CASE c # d
    <3>1. rows'[d] = rows[d] /\ at'[d] = at[d] /\ rows'[c] = {}
      BY <1>2, <2>1, <2>3 DEF Release
    <3>2. \A r \in Rows \ rows[c] : failed'[r] = failed[r] /\ buffers'[r] = buffers[r]
      BY <1>2, <2>1 DEF Release
    <3>3. QED
      BY <1>6, <2>1, <2>3, <3>1, <3>2
  <2>4. QED
    BY <2>2, <2>3
<1>10. ASSUME NEW c \in Conns, Observe(c) PROVE StepFits(d)'
  <2>1. CASE c = d
    BY <1>10, <2>1, ObserveFits
  <2>2. CASE c # d
    <3>1. /\ UNCHANGED <<rows, outcome, gen, failed, dp, batch>>
          /\ steps' = [r \in Rows |-> IF r \in rows[c] THEN steps[r] + 1 ELSE steps[r]]
          /\ \/ UNCHANGED <<at, asked>>
             \/ at' = [at EXCEPT ![c] = "asked"] /\ asked' = [asked EXCEPT ![c] = Asks(c)]
      BY <1>10 DEF Observe
    <3>2. \A r \in Rows \ rows[c] : buffers'[r] = buffers[r]
      <4>1. CASE buffers' = buffers
        BY <4>1
      <4>2. CASE \E S \in SUBSET rows[c] : buffers' = Popped(S)
        BY <4>2 DEF Popped
      <4>3. QED
        BY <1>1, <1>10, <4>1, <4>2, ObservePops
    <3>3. rows'[d] = rows[d] /\ asked'[d] = asked[d] /\ at'[d] = at[d] /\ rows'[c] = rows[c]
      BY <1>2, <2>2, <3>1
    <3>4. QED
      BY <1>3, <1>6, <2>2, <3>1, <3>2, <3>3
  <2>3. QED
    BY <2>1, <2>2
<1>11. ASSUME NEW c \in Conns, Reply(c) \/ End(c) PROVE StepFits(d)'
  <2>1. /\ asked' = [asked EXCEPT ![c] = {}] /\ outcome' = [outcome EXCEPT ![c] = NotDone]
        /\ UNCHANGED <<rows, steps, failed, buffers, dp, batch>>
        /\ \/ /\ at' = [at EXCEPT ![c] = "running"] /\ gen' = gen
              /\ at[c] = "asked" /\ outcome[c].done
           \/ /\ at' = [at EXCEPT ![c] = "finishing"]
              /\ gen' = [r \in Rows |-> IF r \in rows[c] THEN gen[r] + 1 ELSE gen[r]]
    BY <1>11 DEF Reply, End, rowVars, dispVars
  <2>2. CASE c = d /\ at' = [at EXCEPT ![c] = "running"] /\ gen' = gen /\ at[c] = "asked" /\ outcome[c].done
    <3>1. at'[d] = "running"
      BY <1>2, <2>2
    <3>2. Lags(d) \/ Even(d)
      BY <1>1, <2>2 DEF StepFits
    <3>3. Lags(d)' \/ Even(d)'
      BY <2>1, <2>2, <3>2 DEF Lags, Even, InStep
    <3>4. QED
      BY <3>1, <3>3 DEF StepFits
  <2>3. CASE c = d /\ at' = [at EXCEPT ![c] = "finishing"]
    <3>1. at'[d] = "finishing"
      BY <1>2, <2>3
    <3>2. QED
      BY <3>1 DEF StepFits
  <2>4. CASE c # d
    <3>1. rows'[d] = rows[d] /\ asked'[d] = asked[d] /\ at'[d] = at[d] /\ outcome'[d] = outcome[d]
      BY <1>2, <2>1, <2>4
    <3>2. \A r \in Rows \ rows[c] : gen'[r] = gen[r]
      BY <2>1
    <3>3. QED
      BY <1>3, <1>6, <2>1, <2>4, <3>1, <3>2
  <2>5. QED
    BY <2>1, <2>2, <2>3, <2>4
<1>12. CASE Woken \/ Deadline
  <2>1. /\ UNCHANGED <<at, rows, asked, outcome, gen, steps, failed, buffers>>
        /\ dp \notin {"model", "down"} /\ dp' \notin {"model", "down"}
    BY <1>12 DEF Woken, Deadline, Dispatch, Take, connVars, rowVars
  <2>2. QED
    BY <1>5, <2>1
<1>13. CASE SetLimit \/ RunJob
  BY <1>5, <1>13 DEF SetLimit, RunJob, connVars, rowVars, dispVars
<1>14. CASE Infer \/ InferReturned \/ InferRaised
  BY <1>14, RunFits
<1>15. CASE Stop
  BY <1>15, StopFits
<1>16. ASSUME NEW q \in Rows, FailEpisode(q) PROVE StepFits(d)'
  BY <1>16, FailFits
<1>17. QED
  BY <1>7, <1>8, <1>9, <1>10, <1>11, <1>12, <1>13, <1>14, <1>15, <1>16 DEF Next, Handler, Engine

-----------------------------------------------------------------------------
(* Done requests, what is served, and what is replied.                     *)

LEMMA BatchFits ==
  ASSUME EngineInv
  PROVE  batch \in Seq(Requests) /\ RowsOnce(batch) /\ RequestsFit(batch)
<1>1. /\ batch \in Seq(Requests) /\ rest \o queue \in Seq(Requests) /\ Unfinished = batch \o (rest \o queue)
  BY UnfinishedParts DEF EngineInv, DataOK, QueueData
<1>2. RequestsFit(batch)
  BY <1>1, LaterFit DEF EngineInv
<1>3. QED
  BY <1>1, <1>2 DEF RowsOnce, RequestsFit, RequestFits

\* A row that runs now ran before.
LEMMA RanBefore ==
  ASSUME EngineInv, Next, NEW x \in Asked, x.gen <= gen[x.row], gen'[x.row] = x.gen
  PROVE  Current(x)
<1>1. x.row \in Rows /\ x.gen \in Nat
  BY DEF Asked
<1>2. gen[x.row] \in Nat /\ gen[x.row] <= gen'[x.row]
  BY <1>1, GenGrows DEF EngineInv, DataOK, RowData
<1>3. QED
  BY <1>1, <1>2 DEF Current

LEMMA OutcomesStay ==
  ASSUME EngineInv, Next, NEW c \in Conns, OutcomeFits(c), asked'[c] = asked[c], outcome'[c] = outcome[c]
  PROVE  OutcomeFits(c)'
<1>1. \A x \in asked[c] : x \in Asked /\ x.gen <= gen[x.row]
  BY DEF EngineInv, DataOK, ConnData, AskedFits, AskFits
<1>2. \A x \in asked[c] : Current(x)' => Current(x)
  BY <1>1, RanBefore DEF Current
<1>3. QED
  BY <1>2 DEF OutcomeFits, Nth

LEMMA CompleteGives ==
  ASSUME NEW c \in Conns, NEW q, NEW results, Complete(q, results)
  PROVE  \/ outcome'[c] = outcome[c]
         \/ \E k \in DOMAIN q : /\ q[k].conn = c /\ q[k].rows = asked[c]
                                    /\ outcome'[c] = results[k]
<1>1. CASE \E k \in DOMAIN q : q[k].conn = c /\ q[k].rows = asked[c]
  <2> DEFINE k == CHOOSE k \in DOMAIN q : q[k].conn = c /\ q[k].rows = asked[c]
  <2>1. k \in DOMAIN q /\ q[k].conn = c /\ q[k].rows = asked[c]
    BY <1>1
  <2>2. outcome'[c] = results[k]
    BY <1>1 DEF Complete
  <2> HIDE DEF k
  <2>3. QED
    BY <2>1, <2>2
<1>2. CASE ~\E k \in DOMAIN q : q[k].conn = c /\ q[k].rows = asked[c]
  BY <1>2 DEF Complete
<1>3. QED
  BY <1>1, <1>2

\* When the values at the positions P are those predicted for them, each request gets
\* its own.
LEMMA SharesFit ==
  ASSUME EngineInv, Next, NEW c \in Conns, OutcomeFits(c), NEW P \in SUBSET Positions(batch), NEW value,
         \A p \in P : Current(p[2]) => value[p] = p[2],
         Complete(batch, [k \in DOMAIN batch |-> Share(k, Stacked(value, P), P)]),
         UNCHANGED <<asked, gen>>
  PROVE  OutcomeFits(c)'
<1> DEFINE shares == [k \in DOMAIN batch |-> Share(k, Stacked(value, P), P)]
<1>1. CASE outcome'[c] = outcome[c]
  BY <1>1, OutcomesStay
<1>2. CASE \E k \in DOMAIN batch : /\ batch[k].conn = c /\ batch[k].rows = asked[c]
                                   /\ outcome'[c] = shares[k]
  <2>1. PICK k \in DOMAIN batch : /\ batch[k].conn = c /\ batch[k].rows = asked[c]
                                  /\ outcome'[c] = shares[k]
    BY <1>2
  <2> DEFINE mine == {y \in batch[k].rows : <<k, y>> \in P}
  <2>2. outcome'[c] = Share(k, Stacked(value, P), P)
    BY <2>1
  <2>3. outcome'[c].errors = asked[c] \ mine
    BY <2>1, <2>2 DEF Share
  <2>4. asked[c] \ outcome'[c].errors = mine
    BY <2>1, <2>3
  <2>5. ASSUME NEW x \in mine, Current(x) PROVE outcome'[c].actions[Nth(x, mine)] = x
    <3>1. x \in batch[k].rows /\ <<k, x>> \in P
      OBVIOUS
    <3>2. value[<<k, x>>] = x
      <4>1. <<k, x>>[2] = x
        OBVIOUS
      <4>2. QED
        BY <2>5, <3>1, <4>1
    <3>3. Share(k, Stacked(value, P), P).actions[Nth(x, mine)] = value[<<k, x>>]
      BY <3>1, BatchFits, ShareIsOwn
    <3>4. QED
      BY <2>2, <3>2, <3>3
  <2> HIDE DEF mine
  <2>6. asked'[c] \ outcome'[c].errors = mine /\ \A x \in mine : Current(x)' <=> Current(x)
    BY <2>4 DEF Current
  <2>7. QED
    BY <2>5, <2>6 DEF OutcomeFits, Nth
<1> HIDE DEF shares
<1>3. Complete(batch, shares)
  BY DEF shares
<1>4. QED
  BY <1>1, <1>2, <1>3, CompleteGives

\* What a run that serves rows from their buffers takes from them.
LEMMA InferServed ==
  ASSUME EngineInv, AnswersInv, Infer, NEW p \in Positions(batch), Current(p[2]), buffers[p[2].row] # <<>>
  PROVE  Head(buffers[p[2].row]) = p[2]
<1>1. dp = "checkpoint"
  BY InferSteps
<1>2. batch \in Seq(Requests) /\ ConnData /\ QueueData /\ RequestsFit(Unfinished) /\ AskedFits /\ RowsApart
  BY DEF EngineInv, DataOK, QueueData
<1>3. PICK c \in Conns : p[2].row \in rows[c]
  BY <1>2, RunningPosition
<1>4. /\ at[c] = "asked" /\ ~outcome[c].done /\ p[2].row \in Rows /\ ~failed[p[2].row]
      /\ p[2] = [row |-> p[2].row, gen |-> gen[p[2].row], step |-> steps[p[2].row] - 1]
  BY <1>3, BatchRow
<1>5. InStep(p[2].row, steps[p[2].row] - 1)
  BY <1>1, <1>3, <1>4 DEF AnswersInv, StepFits, Early
<1>6. PICK r \in Rows : r = p[2].row
  BY <1>4
<1>7. buffers[r] \in Seq(Asked) /\ buffers[r] # <<>> /\ steps[r] \in Nat
  BY <1>6 DEF EngineInv, DataOK, BufferData, RowData
<1>8. 1 \in DOMAIN buffers[r] /\ Head(buffers[r]) = buffers[r][1]
  BY <1>7, EmptySeq, LenProperties
<1>9. buffers[r][1] = [row |-> r, gen |-> gen[r], step |-> (steps[r] - 1) + 1 - 1]
  BY <1>5, <1>6, <1>8 DEF InStep
<1>10. (steps[r] - 1) + 1 - 1 = steps[r] - 1
  BY <1>7
<1>11. QED
  BY <1>4, <1>6, <1>8, <1>9, <1>10

LEMMA OutcomesNext ==
  ASSUME EngineInv, AnswersInv, Next, NEW d \in Conns
  PROVE  OutcomeFits(d)'
<1>1. /\ OutcomeFits(d) /\ AskFits(d) /\ CallFits /\ ServedFit
      /\ at \in [Conns -> {"idle", "resetting", "running", "asked", "finishing"}]
      /\ DOMAIN asked = Conns /\ DOMAIN outcome = Conns
  BY DEF EngineInv, AskedFits, AnswersInv, DataOK, ConnData, OutcomeData
<1>2. CASE asked'[d] = asked[d] /\ outcome'[d] = outcome[d]
  BY <1>1, <1>2, OutcomesStay
<1>3. ASSUME NEW c \in Conns, Observe(c) PROVE OutcomeFits(d)'
  <2>1. /\ at[c] = "running" /\ UNCHANGED outcome
        /\ UNCHANGED asked \/ asked' = [asked EXCEPT ![c] = Asks(c)]
    BY <1>3 DEF Observe
  <2>2. CASE c # d
    BY <1>1, <1>2, <2>1, <2>2
  <2>3. CASE c = d
    <3>1. ~outcome'[d].done
      BY <1>1, <2>1, <2>3 DEF AskFits
    <3>2. QED
      BY <3>1 DEF OutcomeFits
  <2>4. QED
    BY <2>2, <2>3
<1>4. ASSUME NEW c \in Conns, Reply(c) \/ End(c) PROVE OutcomeFits(d)'
  <2>1. asked' = [asked EXCEPT ![c] = {}] /\ outcome' = [outcome EXCEPT ![c] = NotDone]
    BY <1>4 DEF Reply, End
  <2>2. CASE c # d
    BY <1>1, <1>2, <2>1, <2>2
  <2>3. CASE c = d
    <3>1. ~outcome'[d].done
      BY <1>1, <2>1, <2>3 DEF NotDone
    <3>2. QED
      BY <3>1 DEF OutcomeFits
  <2>4. QED
    BY <2>2, <2>3
<1>5. CASE Infer
  <2> DEFINE live   == StillRunning(Positions(batch))
             chunks == {p \in live : chunked[p[2].row]}
             served == {p \in chunks : buffers[p[2].row] # <<>>}
             given  == [p \in served |-> Head(buffers[p[2].row])]
             todo   == live \ served
  <2>1. UNCHANGED <<asked, gen>>
    BY <1>5, InferSteps
  <2>2. CASE todo # {}
    <3>1. UNCHANGED outcome
      BY <1>5, <2>2 DEF Infer
    <3>2. QED
      BY <1>2, <2>1, <3>1
  <2>3. CASE todo = {}
    <3>1. Complete(batch, [k \in DOMAIN batch |-> Share(k, Stacked(given, served), served)])
      BY <1>5, <2>3 DEF Infer
    <3>2. /\ served \in SUBSET Positions(batch)
          /\ \A p \in served : Current(p[2]) /\ buffers[p[2].row] # <<>>
      BY DEF StillRunning
    <3>3. \A p \in served : Head(buffers[p[2].row]) = p[2]
      BY <1>5, <3>2, InferServed
    <3> HIDE DEF served
    <3>4. \A p \in served : given[p] = p[2]
      BY <3>3
    <3> HIDE DEF given
    <3>5. QED
      BY <1>1, <2>1, <3>1, <3>2, <3>4, SharesFit
  <2>4. QED
    BY <2>2, <2>3
<1>6. CASE InferReturned
  <2>1. dp = "model" /\ UNCHANGED <<asked, gen>>
    BY <1>6 DEF InferReturned
  <2>2. PICK bad \in SUBSET call.todo : \E lens \in [(call.todo \cap call.chunks) \ bad -> ChunkLens] :
               ReturnedWith(bad, lens)
    BY <1>6, ReturnedLens
  <2>3. PICK lens \in [(call.todo \cap call.chunks) \ bad -> ChunkLens] : ReturnedWith(bad, lens)
    BY <2>2
  <2> DEFINE served == DOMAIN call.served
             ok     == served \cup {p \in call.todo \ bad : p \in DOMAIN lens => lens[p] > 0}
             action == [p \in ok |-> IF p \in served THEN call.served[p] ELSE p[2]]
  <2>4. Complete(batch, [k \in DOMAIN batch |-> Share(k, Stacked(action, ok), ok)])
    BY <2>3 DEF ReturnedWith
  <2>5. ok \in SUBSET Positions(batch)
    BY <1>1, <2>1 DEF CallFits
  <2>6. \A p \in served : Current(p[2]) => call.served[p] = p[2]
    BY <1>1, <2>1 DEF ServedFit
  <2> HIDE DEF served
  <2>7. \A p \in ok : Current(p[2]) => action[p] = p[2]
    BY <2>6
  <2> HIDE DEF ok, action
  <2>8. QED
    BY <1>1, <2>1, <2>4, <2>5, <2>7, SharesFit
<1>7. ASSUME outcome'[d] = outcome[d] \/ outcome'[d].errors = asked[d], UNCHANGED <<asked, gen>>
      PROVE  OutcomeFits(d)'
  <2>1. CASE outcome'[d].errors = asked[d]
    BY <1>7, <2>1 DEF OutcomeFits
  <2>2. QED
    BY <1>2, <1>7, <2>1
<1>8. CASE InferRaised
  <2> DEFINE shares == [k \in DOMAIN batch |-> Stopped(batch[k])]
  <2>1. Complete(batch, shares) /\ UNCHANGED <<asked, gen>>
    BY <1>8 DEF InferRaised, rowVars
  <2>2. \A k \in DOMAIN batch : shares[k].errors = batch[k].rows
    BY DEF Stopped
  <2> HIDE DEF shares
  <2>3. outcome'[d] = outcome[d] \/ outcome'[d].errors = asked[d]
    BY <2>1, <2>2, CompleteGives
  <2>4. QED
    BY <1>7, <2>1, <2>3
<1>9. CASE Stop
  <2> DEFINE shares == [k \in DOMAIN Unfinished |-> Stopped(Unfinished[k])]
  <2>1. Complete(Unfinished, shares) /\ UNCHANGED <<asked, gen>>
    BY <1>9 DEF Stop, Unfinished, rowVars
  <2>2. \A k \in DOMAIN Unfinished : shares[k].errors = Unfinished[k].rows
    BY DEF Stopped
  <2> HIDE DEF shares
  <2>3. outcome'[d] = outcome[d] \/ outcome'[d].errors = asked[d]
    BY <2>1, <2>2, CompleteGives
  <2>4. QED
    BY <1>7, <2>1, <2>3
<1>10. QED
  BY <1>2, <1>3, <1>4, <1>5, <1>6, <1>8, <1>9
     DEF Next, Handler, Engine, Start, ResetReturned, FinishReturned, FailEpisode, Woken, Deadline, SetLimit,
         RunJob, connVars

LEMMA ServedNext ==
  ASSUME EngineInv, AnswersInv, Next
  PROVE  ServedFit'
<1>1. /\ CallFits /\ ServedFit /\ QueueData /\ batch \in Seq(Requests)
  BY DEF EngineInv, AnswersInv, DataOK, QueueData
<1>2. ASSUME dp' # "model" PROVE ServedFit'
  BY <1>2 DEF ServedFit
<1>3. CASE UNCHANGED <<dp, call>>
  <2>1. SUFFICES ASSUME dp = "model", NEW p \in DOMAIN call.served, gen'[p[2].row] = p[2].gen
                 PROVE  call.served[p] = p[2]
    BY <1>3 DEF ServedFit, Current
  <2>2. p[1] \in DOMAIN batch /\ p[2] \in batch[p[1]].rows /\ p[2] \in Asked
    BY <1>1, <2>1, PositionsOf DEF CallFits
  <2>3. p[2].gen <= gen[p[2].row]
    BY <2>2, BatchFits DEF RequestsFit, RequestFits
  <2>4. Current(p[2])
    BY <2>1, <2>2, <2>3, RanBefore
  <2>5. QED
    BY <1>1, <2>1, <2>4 DEF ServedFit
<1>4. CASE Infer
  <2> DEFINE live   == StillRunning(Positions(batch))
             chunks == {p \in live : chunked[p[2].row]}
             served == {p \in chunks : buffers[p[2].row] # <<>>}
             given  == [p \in served |-> Head(buffers[p[2].row])]
             todo   == live \ served
  <2>1. CASE todo # {}
    <3>1. call' = [served |-> given, todo |-> todo, chunks |-> chunks]
      BY <1>4, <2>1 DEF Infer
    <3>2. \A p \in served : p \in Positions(batch) /\ Current(p[2]) /\ buffers[p[2].row] # <<>>
      BY DEF StillRunning
    <3>3. \A p \in served : Head(buffers[p[2].row]) = p[2]
      BY <1>4, <3>2, InferServed
    <3> HIDE DEF served
    <3>4. call'.served = given /\ DOMAIN given = served /\ \A p \in served : given[p] = p[2]
      BY <3>1, <3>3
    <3> HIDE DEF given
    <3>5. QED
      BY <3>4 DEF ServedFit
  <2>2. CASE todo = {}
    <3>1. AfterRun
      BY <1>4, <2>2 DEF Infer
    <3>2. dp' \in {"sleep", "gather", "checkpoint"}
      BY <1>1, <3>1, AfterRunSplits DEF QueueData
    <3>3. QED
      BY <1>2, <3>2
  <2>3. QED
    BY <2>1, <2>2
<1>5. CASE InferReturned \/ InferRaised
  <2>1. AfterRun
    BY <1>5, InferOverSteps DEF RunOver
  <2>2. dp' \in {"sleep", "gather", "checkpoint"}
    BY <1>1, <2>1, AfterRunSplits DEF QueueData
  <2>3. QED
    BY <1>2, <2>2
<1>6. CASE Woken \/ Deadline \/ Stop
  <2>1. dp' # "model"
    BY <1>6 DEF Woken, Deadline, Stop, Dispatch, Take
  <2>2. QED
    BY <1>2, <2>1
<1>7. QED
  BY <1>3, <1>4, <1>5, <1>6
     DEF Next, Handler, Engine, Start, Observe, Reply, End, ResetReturned, FinishReturned, FailEpisode, SetLimit,
         RunJob, dispVars

LEMMA FailuresNext ==
  ASSUME EngineInv, AnswersInv, Next
  PROVE  FailuresFit'
<1>1. FailuresFit /\ failed \in [Rows -> BOOLEAN]
  BY DEF EngineInv, AnswersInv, DataOK, RowData
<1>2. ASSUME NEW q \in Rows, FailEpisode(q) PROVE FailuresFit'
  BY <1>1, <1>2 DEF FailEpisode, FailuresFit
<1>3. ASSUME NEW c \in Conns, ResetReturned(c) \/ FinishReturned(c) PROVE FailuresFit'
  <2>1. \A r \in Rows : failed'[r] => failed[r]
    BY <1>3 DEF ResetReturned, FinishReturned, Release
  <2>2. QED
    BY <1>1, <2>1 DEF FailuresFit
<1>4. CASE UNCHANGED failed
  BY <1>1, <1>4 DEF FailuresFit
<1>5. QED
  BY <1>2, <1>3, <1>4
     DEF Next, Handler, Engine, Start, Observe, Reply, End, Woken, Infer, InferReturned, InferRaised, Deadline,
         Stop, SetLimit, RunJob, rowVars

LEMMA RepliesNext ==
  ASSUME EngineInv, AnswersInv, Next, NEW d \in Conns
  PROVE  RepliesFit(d)'
<1>1. RepliesFit(d) /\ OutcomeFits(d) /\ DOMAIN got = Conns
  BY DEF EngineInv, AnswersInv, DataOK, OutcomeData
<1>2. CASE got'[d] = got[d]
  BY <1>1, <1>2 DEF RepliesFit
<1>3. ASSUME NEW c \in Conns, c # d, NEW s, got' = [got EXCEPT ![c] = s] PROVE RepliesFit(d)'
  BY <1>1, <1>2, <1>3
<1>4. ASSUME NEW c \in Conns, Observe(c) PROVE RepliesFit(d)'
  <2>1. CASE c = d
    BY <1>4, <2>1, ObserveFits
  <2>2. CASE c # d
    BY <1>3, <1>4, <2>2 DEF Observe
  <2>3. QED
    BY <2>1, <2>2
<1>5. ASSUME NEW c \in Conns, Reply(c) PROVE RepliesFit(d)'
  <2> DEFINE ok   == asked[c] \ outcome[c].errors
             sent == {[for |-> x, action |-> outcome[c].actions[Nth(x, ok)]] : x \in {y \in ok : Current(y)}}
  <2>1. got' = [got EXCEPT ![c] = sent] /\ outcome[c].done
    BY <1>5 DEF Reply, Nth
  <2>2. CASE c # d
    BY <1>3, <2>1, <2>2
  <2>3. CASE c = d
    <3>1. \A x \in ok : Current(x) => outcome[c].actions[Nth(x, ok)] = x
      BY <1>1, <2>1, <2>3 DEF OutcomeFits
    <3> HIDE DEF ok
    <3>2. got'[d] = sent
      BY <1>1, <2>1, <2>3
    <3>3. \A reply \in sent : reply.action = reply.for
      BY <3>1
    <3>4. QED
      BY <3>2, <3>3 DEF RepliesFit
  <2>4. QED
    BY <2>2, <2>3
<1>6. ASSUME NEW c \in Conns, End(c) PROVE RepliesFit(d)'
  <2>1. got' = [got EXCEPT ![c] = {}]
    BY <1>6 DEF End
  <2>2. got'[d] = got[d] \/ got'[d] = {}
    BY <1>1, <2>1
  <2>3. QED
    BY <1>2, <2>2 DEF RepliesFit
<1>7. QED
  BY <1>2, <1>4, <1>5, <1>6
     DEF Next, Handler, Engine, Start, ResetReturned, FinishReturned, FailEpisode, Woken, Infer, InferReturned,
         InferRaised, Deadline, Stop, SetLimit, RunJob, connVars

-----------------------------------------------------------------------------
(* The theorem.                                                            *)

\* Every action sent answers the observation it was predicted for, whatever was merged
\* into the batch, failed, ended or was served from a buffer (on_observation, _run,
\* _infer), unless fail_episode fails one row of a vector client's chunked step.
THEOREM AnswersTheirObservation ==
  ASSUME FailuresApart
  PROVE  Spec => []ActionsAnswerTheirObservation
<1>1. Init => AnswersInv
  <2>1. SUFFICES ASSUME Init PROVE AnswersInv
    OBVIOUS
  <2>2. FailuresFit /\ ServedFit
    BY <2>1 DEF Init, FailuresFit, ServedFit
  <2>3. ASSUME NEW c \in Conns PROVE StepFits(c) /\ OutcomeFits(c) /\ RepliesFit(c)
    BY <2>1 DEF Init, StepFits, OutcomeFits, RepliesFit, NotDone
  <2>4. QED
    BY <2>2, <2>3 DEF AnswersInv
<1>2. EngineInv /\ AnswersInv /\ [Next]_vars => AnswersInv'
  <2>1. SUFFICES ASSUME EngineInv, AnswersInv, [Next]_vars PROVE AnswersInv'
    OBVIOUS
  <2>2. CASE Next
    BY <2>1, <2>2, FailuresNext, ServedNext, StepsNext, OutcomesNext, RepliesNext DEF AnswersInv
  <2>3. CASE UNCHANGED vars
    <3>1. UNCHANGED <<connVars, rowVars, dispVars>>
      BY <2>3 DEF vars
    <3>2. FailuresFit' /\ ServedFit'
      BY <2>1, <3>1 DEF rowVars, dispVars, AnswersInv, FailuresFit, ServedFit, Current
    <3>3. ASSUME NEW c \in Conns PROVE StepFits(c)' /\ OutcomeFits(c)' /\ RepliesFit(c)'
      <4>1. StepFits(c) /\ OutcomeFits(c) /\ RepliesFit(c)
        BY <2>1 DEF AnswersInv
      <4>2. StepFits(c)'
        BY <3>1, <4>1 DEF connVars, rowVars, dispVars, StepFits, Lags, Even, Early, InStep, Answered
      <4>3. OutcomeFits(c)' /\ RepliesFit(c)'
        BY <3>1, <4>1 DEF connVars, rowVars, OutcomeFits, Nth, RepliesFit, Current
      <4>4. QED
        BY <4>2, <4>3
    <3>4. QED
      BY <3>2, <3>3 DEF AnswersInv
  <2>4. QED
    BY <2>1, <2>2, <2>3
<1>3. AnswersInv => ActionsAnswerTheirObservation
  BY DEF AnswersInv, RepliesFit, ActionsAnswerTheirObservation
<1>4. QED
  BY <1>1, <1>2, <1>3, EngineInvariant, PTL DEF Spec

=============================================================================

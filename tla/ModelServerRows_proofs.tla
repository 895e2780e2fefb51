------------------------ MODULE ModelServerRows_proofs ------------------------
(***************************************************************************)
(* Proofs about ModelServerRows, for any connections, number of slots,     *)
(* max_rows and bounds.                                                    *)
(***************************************************************************)
EXTENDS ModelServerRows, FiniteSetTheorems, TLAPS

-----------------------------------------------------------------------------
(* Counting.                                                               *)

\* What is below an element, and its rank: how many are.
Below(N, r) == {q \in N : q < r}
Rank(N, r) == Cardinality(Below(N, r))

\* Ranks tell the elements of a set apart, and are below its size.
LEMMA RankFacts ==
  ASSUME NEW N \in SUBSET Int, IsFiniteSet(N)
  PROVE  /\ Cardinality(N) \in Nat
         /\ \A r \in N : Rank(N, r) \in 0 .. Cardinality(N) - 1
         /\ \A r, p \in N : r # p => Rank(N, r) # Rank(N, p)
<1>1. Cardinality(N) \in Nat
  BY FS_CardinalityType
<1>2. ASSUME NEW r \in N
      PROVE  /\ IsFiniteSet(Below(N, r)) /\ Rank(N, r) \in Nat
             /\ Cardinality(Below(N, r) \cup {r}) = Rank(N, r) + 1
  <2>1. IsFiniteSet(Below(N, r))
    BY FS_Subset DEF Below
  <2>2. r \notin Below(N, r)
    BY DEF Below
  <2>3. Rank(N, r) \in Nat
    BY <2>1, FS_CardinalityType DEF Rank
  <2>4. QED
    BY <2>1, <2>2, <2>3, FS_AddElement DEF Rank
<1>3. ASSUME NEW r \in N
      PROVE  Rank(N, r) \in 0 .. Cardinality(N) - 1
  <2>1. Cardinality(Below(N, r) \cup {r}) <= Cardinality(N)
    <3>1. Below(N, r) \cup {r} \in SUBSET N
      BY DEF Below
    <3>2. QED
      BY <3>1, FS_Subset
  <2>2. Rank(N, r) \in Nat /\ Rank(N, r) + 1 <= Cardinality(N)
    BY <1>2, <2>1
  <2>3. QED
    BY <1>1, <2>2
<1>4. ASSUME NEW r \in N, NEW p \in N, r < p
      PROVE  Rank(N, r) < Rank(N, p)
  <2>1. Below(N, r) \cup {r} \in SUBSET Below(N, p)
    <3>1. r \in Int /\ p \in Int /\ \A q \in N : q \in Int
      OBVIOUS
    <3>2. \A q \in N : q < r => q < p
      BY <1>4, <3>1
    <3>3. QED
      BY <1>4, <3>2 DEF Below
  <2>2. Cardinality(Below(N, r) \cup {r}) <= Rank(N, p)
    BY <2>1, <1>2, FS_Subset DEF Rank
  <2>3. Rank(N, r) \in Nat /\ Rank(N, p) \in Nat
    BY <1>2
  <2>4. Rank(N, r) + 1 <= Rank(N, p)
    BY <1>2, <2>2
  <2>5. QED
    BY <2>3, <2>4
<1>5. ASSUME NEW r \in N, NEW p \in N, r # p
      PROVE  Rank(N, r) # Rank(N, p)
  <2>1. Rank(N, r) \in Nat /\ Rank(N, p) \in Nat
    BY <1>2
  <2>2. CASE r < p
    BY <1>4, <2>1, <2>2
  <2>3. CASE p < r
    BY <1>4, <2>1, <2>3
  <2>4. QED
    BY <1>5, <2>1, <2>2, <2>3
<1>6. QED
  BY <1>1, <1>3, <1>5

\* Every rank below the size of a set is some element's.
LEMMA RankTaken ==
  ASSUME NEW N \in SUBSET Int, IsFiniteSet(N), NEW i \in 0 .. Cardinality(N) - 1
  PROVE  \E r \in N : Rank(N, r) = i
<1> DEFINE g == [r \in N |-> Rank(N, r)]
           n == Cardinality(N)
<1>1. n \in Nat
  BY FS_CardinalityType
<1>2. IsFiniteSet(0 .. n - 1) /\ Cardinality(0 .. n - 1) = n
  <2> HIDE DEF n
  <2> QED
    BY <1>1, FS_Interval
<1>3. g \in Injection(N, 0 .. n - 1)
  <2>1. g \in [N -> 0 .. n - 1]
    BY RankFacts
  <2>2. \A a, b \in N : g[a] = g[b] => a = b
    BY RankFacts
  <2>3. QED
    BY <2>1, <2>2 DEF Injection, IsInjective
<1>4. g \in Surjection(N, 0 .. n - 1)
  <2> HIDE DEF g
  <2> QED
    BY <1>2, <1>3, FS_Injection
<1>5. PICK r \in N : g[r] = i
  BY <1>4 DEF Surjection
<1>6. QED
  BY <1>5

\* The k smallest elements of a set are k at most, and k when it has as many.
LEMMA SmallestFacts ==
  ASSUME NEW N \in SUBSET Int, IsFiniteSet(N), NEW k \in Nat,
         NEW F, F = {r \in N : Rank(N, r) < k}
  PROVE  /\ IsFiniteSet(F)
         /\ Cardinality(F) <= k
         /\ k <= Cardinality(N) => Cardinality(F) = k
<1>1. IsFiniteSet(F) /\ Cardinality(F) \in Nat /\ Cardinality(N) \in Nat
  BY FS_Subset, FS_CardinalityType
<1>2. IsFiniteSet(0 .. k - 1) /\ Cardinality(0 .. k - 1) = k
  BY FS_Interval
<1> DEFINE f == [r \in F |-> Rank(N, r)]
<1>3. f \in Injection(F, 0 .. k - 1)
  <2>1. \A r \in F : Rank(N, r) \in Nat /\ Rank(N, r) < k
    BY <1>1, RankFacts
  <2>2. f \in [F -> 0 .. k - 1]
    <3>1. \A r \in F : Rank(N, r) \in 0 .. k - 1
      BY <2>1
    <3>2. QED
      BY <3>1
  <2>3. \A a, b \in F : f[a] = f[b] => a = b
    BY RankFacts
  <2>4. QED
    BY <2>2, <2>3 DEF Injection, IsInjective
<1>4. Cardinality(F) <= k
  <2> HIDE DEF f
  <2> QED
    BY <1>2, <1>3, FS_Injection
<1>5. ASSUME k <= Cardinality(N)
      PROVE  Cardinality(F) = k
  <2>1. f \in Surjection(F, 0 .. k - 1)
    <3>1. ASSUME NEW i \in 0 .. k - 1
          PROVE  \E r \in F : f[r] = i
      <4>1. i \in 0 .. Cardinality(N) - 1 /\ i < k
        BY <1>1, <1>5
      <4>2. PICK r \in N : Rank(N, r) = i
        BY <4>1, RankTaken
      <4>3. r \in F /\ f[r] = i
        BY <4>1, <4>2
      <4>4. QED
        BY <4>3
    <3>2. f \in [F -> 0 .. k - 1]
      BY <1>3 DEF Injection
    <3>3. QED
      BY <3>1, <3>2 DEF Surjection
  <2>2. QED
    <3> HIDE DEF f
    <3> QED
      BY <1>2, <1>3, <2>1, FS_Injection
<1>6. QED
  BY <1>1, <1>4, <1>5

-----------------------------------------------------------------------------
(* Which rows a message's starts get.                                      *)

\* Rows with an episode, and rows without.
Used(tab) == {r \in Rows : tab[r] # None}
Unused(tab) == {r \in Rows : tab[r] = None}

\* Sets of rows and of slots are finite sets of integers.
LEMMA RowsAndSlotsFinite ==
  /\ \A S \in SUBSET Rows : IsFiniteSet(S) /\ S \in SUBSET Int
  /\ \A S \in SUBSET Slots : IsFiniteSet(S) /\ S \in SUBSET Int
<1> USE RowsAssumption
<1>1. IsFiniteSet(Rows) /\ Rows \in SUBSET Int
  BY FS_Interval DEF Rows
<1>2. IsFiniteSet(Slots) /\ Slots \in SUBSET Int
  BY FS_Interval DEF Slots
<1>3. QED
  BY <1>1, <1>2, FS_Subset

\* A row is used or unused.
LEMMA UsedAndUnused ==
  ASSUME NEW tab
  PROVE  /\ Cardinality(Used(tab)) \in Nat
         /\ Cardinality(Unused(tab)) = MaxEpisodes - Cardinality(Used(tab))
<1> USE RowsAssumption
<1>1. Used(tab) \in SUBSET Rows /\ Unused(tab) \in SUBSET Rows
  BY DEF Used, Unused
<1>2. /\ IsFiniteSet(Used(tab)) /\ Cardinality(Used(tab)) \in Nat
      /\ IsFiniteSet(Unused(tab)) /\ Cardinality(Unused(tab)) \in Nat
  BY <1>1, RowsAndSlotsFinite, FS_CardinalityType
<1>3. Used(tab) \cup Unused(tab) = Rows /\ Used(tab) \cap Unused(tab) = {}
  BY DEF Used, Unused
<1>4. Cardinality(Rows) = MaxEpisodes
  BY FS_Interval DEF Rows
<1>5. Cardinality({}) = 0
  BY FS_EmptySet
<1>6. Cardinality(Rows) = Cardinality(Used(tab)) + Cardinality(Unused(tab)) - 0
  BY <1>2, <1>3, <1>5, FS_Union
<1>7. QED
  BY <1>2, <1>4, <1>6

\* _alloc finds k free rows when there are as many.
LEMMA FreeRowsFacts ==
  ASSUME NEW tab, NEW k \in Nat, k <= Cardinality(Unused(tab))
  PROVE  /\ FreeRows(tab, k) \in SUBSET Unused(tab)
         /\ IsFiniteSet(FreeRows(tab, k)) /\ Cardinality(FreeRows(tab, k)) = k
<1> DEFINE F == {r \in Unused(tab) : Rank(Unused(tab), r) < k}
<1>1. FreeRows(tab, k) = F
  BY DEF FreeRows, Unused, Rank, Below
<1>2. Unused(tab) \in SUBSET Int /\ IsFiniteSet(Unused(tab))
  BY RowsAndSlotsFinite DEF Unused
<1>3. IsFiniteSet(F) /\ Cardinality(F) = k
  BY <1>2, SmallestFacts
<1>4. QED
  BY <1>1, <1>3

\* The admitted starts get a free row each, and no other slot gets one.
LEMMA NewRowsFacts ==
  ASSUME NEW tab, NEW A \in SUBSET Slots, Cardinality(A) <= Cardinality(Unused(tab)),
         NEW new, new = NewRows(tab, A)
  PROVE  /\ new \in [Slots -> Rows \cup {None}]
         /\ \A s \in A : new[s] \in Unused(tab)
         /\ \A s \in Slots \ A : new[s] = None
         /\ \A s, t \in A : s # t => new[s] # new[t]
<1> DEFINE k == Cardinality(A)
           F == FreeRows(tab, k)
<1>1. A \in SUBSET Int /\ IsFiniteSet(A) /\ k \in Nat
  BY RowsAndSlotsFinite, FS_CardinalityType
<1>2. F \in SUBSET Unused(tab) /\ IsFiniteSet(F) /\ Cardinality(F) = k
  BY <1>1, FreeRowsFacts
<1>3. F \in SUBSET Int
  BY <1>2, RowsAndSlotsFinite DEF Unused
<1>4. /\ DOMAIN new = Slots
      /\ \A s \in A : new[s] = CHOOSE r \in F : Rank(F, r) = Rank(A, s)
      /\ \A s \in Slots \ A : new[s] = None
  BY DEF NewRows, Rank, Below
<1> HIDE DEF F, k
<1>5. ASSUME NEW s \in A
      PROVE  new[s] \in F /\ Rank(F, new[s]) = Rank(A, s)
  <2>1. Rank(A, s) \in 0 .. Cardinality(F) - 1
    BY <1>1, <1>2, RankFacts DEF k
  <2>2. \E r \in F : Rank(F, r) = Rank(A, s)
    BY <1>2, <1>3, <2>1, RankTaken
  <2>3. QED
    BY <1>4, <2>2
<1>6. \A s, t \in A : s # t => new[s] # new[t]
  BY <1>1, <1>5, RankFacts
<1>7. new = [s \in Slots |-> new[s]]
  BY DEF NewRows
<1>8. \A s \in Slots : new[s] \in Rows \cup {None}
  BY <1>2, <1>4, <1>5 DEF Unused
<1>9. QED
  BY <1>2, <1>4, <1>5, <1>6, <1>7, <1>8

\* Their rows are as many as they are.
LEMMA NewRowsCount ==
  ASSUME NEW tab, NEW A \in SUBSET Slots, Cardinality(A) <= Cardinality(Unused(tab)),
         NEW R, R = RowsIn(NewRows(tab, A))
  PROVE  /\ R \in SUBSET Unused(tab)
         /\ IsFiniteSet(R) /\ Cardinality(R) = Cardinality(A)
         /\ A # {} => R # {}
<1> DEFINE new == NewRows(tab, A)
           g == [s \in A |-> new[s]]
<1>1. /\ new \in [Slots -> Rows \cup {None}]
      /\ \A s \in A : new[s] \in Unused(tab)
      /\ \A s \in Slots \ A : new[s] = None
      /\ \A s, t \in A : s # t => new[s] # new[t]
  BY NewRowsFacts
<1> HIDE DEF new
<1>2. None \notin Rows
  BY RowsAssumption DEF Rows, None
<1>3. R = {new[s] : s \in A}
  <2>1. R = {new[s] : s \in Slots} \cap Rows
    BY DEF new, RowsIn
  <2>2. \A s \in Slots : new[s] \in Rows <=> s \in A
    BY <1>1, <1>2 DEF Unused
  <2>3. QED
    BY <2>1, <2>2
<1>4. g \in Bijection(A, R)
  <2>1. g \in [A -> R] /\ \A a, b \in A : g[a] = g[b] => a = b
    BY <1>1, <1>3
  <2>2. \A r \in R : \E s \in A : g[s] = r
    BY <1>3
  <2>3. QED
    BY <2>1, <2>2 DEF Bijection, Injection, Surjection, IsInjective
<1>5. IsFiniteSet(A)
  BY RowsAndSlotsFinite
<1>6. QED
  BY <1>1, <1>3, <1>4, <1>5, FS_Bijection DEF ExistsBijection

\* The starts that are admitted fit in max_rows, with the rows in use.
LEMMA AdmittedFacts ==
  ASSUME NEW tab, NEW S \in SUBSET Slots, NEW A, A = Admitted(tab, S), A # {}
  PROVE  /\ A \in SUBSET S
         /\ Cardinality(Used(tab)) + Cardinality(A) <= MaxRows
         /\ Cardinality(A) <= Cardinality(S)
<1> USE RowsAssumption
<1> DEFINE n == Cardinality(Used(tab))
<1>1. n \in Nat
  BY UsedAndUnused
<1>2. S \in SUBSET Int /\ IsFiniteSet(S)
  BY RowsAndSlotsFinite
<1>3. A = {s \in S : n + Rank(S, s) < MaxRows}
  BY DEF Admitted, Used, Rank, Below
<1> HIDE DEF n
<1>4. \A s \in S : Rank(S, s) \in Nat
  BY <1>2, RankFacts
<1>5. n < MaxRows
  BY <1>1, <1>3, <1>4
<1>6. MaxRows - n \in Nat
  BY <1>1, <1>5
<1>7. A = {s \in S : Rank(S, s) < MaxRows - n}
  BY <1>1, <1>3, <1>4
<1>8. IsFiniteSet(A) /\ Cardinality(A) <= MaxRows - n
  BY <1>2, <1>6, <1>7, SmallestFacts
<1>9. Cardinality(A) \in Nat /\ Cardinality(A) <= Cardinality(S)
  BY <1>2, <1>3, <1>8, FS_CardinalityType, FS_Subset
<1>10. n + Cardinality(A) <= MaxRows
  BY <1>1, <1>8, <1>9
<1>11. QED
  BY <1>3, <1>9, <1>10 DEF n

\* Rows hold episodes that have been started, each a different one.
Tabled(tab, n) ==
  /\ tab \in [Rows -> Episodes \cup {None}]
  /\ \A r \in Rows : tab[r] # None => tab[r] <= n
  /\ \A q, r \in Rows : q # r /\ tab[q] # None => tab[q] # tab[r]

\* There are no more of them than episodes were started.
LEMMA UsedAreBorn ==
  ASSUME NEW tab, NEW n \in 0 .. MaxEpisodes, Tabled(tab, n)
  PROVE  Cardinality(Used(tab)) <= n
<1> USE RowsAssumption
<1> DEFINE g == [r \in Used(tab) |-> tab[r]]
<1>1. g \in Injection(Used(tab), 1 .. n)
  <2>1. \A r \in Used(tab) : tab[r] \in 1 .. n
    BY DEF Used, Tabled, Episodes
  <2>2. g \in [Used(tab) -> 1 .. n]
    BY <2>1
  <2>3. \A a, b \in Used(tab) : g[a] = g[b] => a = b
    BY DEF Used, Tabled
  <2>4. QED
    BY <2>2, <2>3 DEF Injection, IsInjective
<1>2. IsFiniteSet(1 .. n) /\ Cardinality(1 .. n) = n
  BY FS_Interval
<1> HIDE DEF g
<1>3. QED
  BY <1>1, <1>2, FS_Injection


-----------------------------------------------------------------------------
(* The inductive invariant, a connection at a time.                        *)

\* Arrays of rows, and what a message has left to do.
Arrays == [Slots -> Rows \cup {None, Absent}]
Batches == [Slots -> Rows \cup {None}]
Messages == [starts : SUBSET Slots, obs : SUBSET Slots]
Stands == {"read", "end", "start", "observe", "wait", "closing", "gone"}

\* What TypeOK and MessageInv say of one connection.
ConnTyped(c) ==
  /\ at[c] \in Stands /\ closed[c] \in BOOLEAN /\ live[c] \in BOOLEAN
  /\ own[c] \in Arrays /\ local[c] \in Arrays /\ batch[c] \in Batches
  /\ RowsIn(batch[c]) # {} <=> at[c] \in {"end", "start", "closing"}
  /\ at[c] \notin {"end", "start"} => todo[c] = Nothing
  /\ todo[c] \in Messages /\ obsNo[c] \in 0 .. MaxObs
  /\ at[c] # "end" => todo[c].starts = {}
  /\ todo[c].obs # {} => obsNo[c] < MaxObs

ConnInv(c) == ConnTyped(c) /\ ArraysAgree(c) /\ BatchFits(c)

\* ... and of the rows and of the observations.
RowsTyped ==
  /\ Tabled(table, born) /\ born \in 0 .. MaxEpisodes
  /\ gen \in [Rows -> Nat] /\ ending \in [Rows -> BOOLEAN] /\ failed \in [Rows -> BOOLEAN]
  /\ Cardinality(Used(table)) <= MaxRows

ObsTyped ==
  /\ \A a \in asks : a.conn \in Conns /\ a.row \in Rows /\ a.episode \in Episodes
  /\ answered \subseteq asks /\ acted \subseteq answered

RowsInv == TypeOK /\ MessageInv /\ EpisodesInv /\ HandlersInv /\ RowsWithinLimit

\* The variables of a connection are functions on the connections.
ConnsTyped ==
  /\ DOMAIN at = Conns /\ at = [c \in Conns |-> at[c]]
  /\ DOMAIN closed = Conns /\ closed = [c \in Conns |-> closed[c]]
  /\ DOMAIN live = Conns /\ live = [c \in Conns |-> live[c]]
  /\ DOMAIN own = Conns /\ own = [c \in Conns |-> own[c]]
  /\ DOMAIN local = Conns /\ local = [c \in Conns |-> local[c]]
  /\ DOMAIN batch = Conns /\ batch = [c \in Conns |-> batch[c]]
  /\ DOMAIN todo = Conns /\ todo = [c \in Conns |-> todo[c]]
  /\ DOMAIN obsNo = Conns /\ obsNo = [c \in Conns |-> obsNo[c]]

\* The invariant in parts.
InParts ==
  /\ ConnsTyped /\ RowsTyped /\ ObsTyped /\ KnownRowsInv
  /\ \A c \in Conns : ConnInv(c)
  /\ born + Reserved <= MaxEpisodes

LEMMA Parts == RowsInv <=> InParts
<1>1. EpisodesInv /\ RowsWithinLimit /\ TypeOK => RowsTyped /\ ObsTyped
  BY DEF EpisodesInv, RowsWithinLimit, TypeOK, RowsTyped, ObsTyped, Tabled, Used
<1>2. RowsTyped => EpisodesInv /\ RowsWithinLimit
  BY DEF EpisodesInv, RowsWithinLimit, RowsTyped, Tabled, Used
<1>3. TypeOK /\ MessageInv => ConnsTyped /\ \A c \in Conns : ConnTyped(c)
  BY DEF TypeOK, MessageInv, ConnsTyped, ConnTyped, Stands, Arrays, Batches, Messages
<1>4. ASSUME ConnsTyped, \A c \in Conns : ConnTyped(c)
      PROVE  /\ at \in [Conns -> Stands]
             /\ closed \in [Conns -> BOOLEAN] /\ live \in [Conns -> BOOLEAN]
             /\ own \in [Conns -> Arrays] /\ local \in [Conns -> Arrays]
             /\ batch \in [Conns -> Batches] /\ todo \in [Conns -> Messages]
             /\ obsNo \in [Conns -> 0 .. MaxObs]
  BY <1>4 DEF ConnsTyped, ConnTyped
<1>5. ASSUME RowsTyped, ObsTyped, ConnsTyped, \A c \in Conns : ConnTyped(c)
      PROVE  TypeOK
  BY <1>4, <1>5 DEF RowsTyped, Tabled, ObsTyped, ConnTyped, Arrays, Batches, Stands, TypeOK
<1>6. ASSUME ConnsTyped, \A c \in Conns : ConnTyped(c), born + Reserved <= MaxEpisodes
      PROVE  MessageInv
  BY <1>4, <1>6 DEF ConnTyped, Messages, MessageInv
<1>7. MessageInv => born + Reserved <= MaxEpisodes
  BY DEF MessageInv
<1>8. HandlersInv <=> (\A c \in Conns : ArraysAgree(c) /\ BatchFits(c)) /\ KnownRowsInv
  BY DEF HandlersInv
<1>9. (\A c \in Conns : ConnInv(c)) <=>
        (\A c \in Conns : ConnTyped(c)) /\ (\A c \in Conns : ArraysAgree(c) /\ BatchFits(c))
  BY DEF ConnInv
<1>10. QED
  BY <1>1, <1>2, <1>3, <1>5, <1>6, <1>7, <1>8, <1>9 DEF RowsInv, InParts

\* No other connection is touched.
Only(c) ==
  /\ at' = [at EXCEPT ![c] = at'[c]] /\ closed' = [closed EXCEPT ![c] = closed'[c]]
  /\ live' = [live EXCEPT ![c] = live'[c]] /\ own' = [own EXCEPT ![c] = own'[c]]
  /\ local' = [local EXCEPT ![c] = local'[c]] /\ batch' = [batch EXCEPT ![c] = batch'[c]]
  /\ todo' = [todo EXCEPT ![c] = todo'[c]] /\ obsNo' = [obsNo EXCEPT ![c] = obsNo'[c]]

LEMMA OthersKeep ==
  ASSUME ConnsTyped, NEW c \in Conns, Only(c)
  PROVE  /\ ConnsTyped'
         /\ \A d \in Conns \ {c} :
              /\ at'[d] = at[d] /\ closed'[d] = closed[d] /\ live'[d] = live[d]
              /\ own'[d] = own[d] /\ local'[d] = local[d] /\ batch'[d] = batch[d]
              /\ todo'[d] = todo[d] /\ obsNo'[d] = obsNo[d]
<1>1. DOMAIN at' = Conns /\ at' = [d \in Conns |-> at'[d]] /\ \A d \in Conns \ {c} : at'[d] = at[d]
  BY DEF ConnsTyped, Only
<1>2. DOMAIN closed' = Conns /\ closed' = [d \in Conns |-> closed'[d]] /\ \A d \in Conns \ {c} : closed'[d] = closed[d]
  BY DEF ConnsTyped, Only
<1>3. DOMAIN live' = Conns /\ live' = [d \in Conns |-> live'[d]] /\ \A d \in Conns \ {c} : live'[d] = live[d]
  BY DEF ConnsTyped, Only
<1>4. DOMAIN own' = Conns /\ own' = [d \in Conns |-> own'[d]] /\ \A d \in Conns \ {c} : own'[d] = own[d]
  BY DEF ConnsTyped, Only
<1>5. DOMAIN local' = Conns /\ local' = [d \in Conns |-> local'[d]] /\ \A d \in Conns \ {c} : local'[d] = local[d]
  BY DEF ConnsTyped, Only
<1>6. DOMAIN batch' = Conns /\ batch' = [d \in Conns |-> batch'[d]] /\ \A d \in Conns \ {c} : batch'[d] = batch[d]
  BY DEF ConnsTyped, Only
<1>7. DOMAIN todo' = Conns /\ todo' = [d \in Conns |-> todo'[d]] /\ \A d \in Conns \ {c} : todo'[d] = todo[d]
  BY DEF ConnsTyped, Only
<1>8. DOMAIN obsNo' = Conns /\ obsNo' = [d \in Conns |-> obsNo'[d]] /\ \A d \in Conns \ {c} : obsNo'[d] = obsNo[d]
  BY DEF ConnsTyped, Only
<1>9. QED
  BY <1>1, <1>2, <1>3, <1>4, <1>5, <1>6, <1>7, <1>8 DEF ConnsTyped

\* A connection comes to know only rows it knew or nobody did, and only rows with
\* an episode; rows it does not know keep theirs; a row whose end is under way is
\* another connection's still, or in the batch this one ends.
KnownStep(c) ==
  /\ \A r \in Known(c)' : table'[r] # None /\ (r \in Known(c) \/ table[r] = None)
  /\ \A r \in Rows \ Known(c) : table[r] # None => table'[r] # None
  /\ \A r \in Rows : ending'[r] =>
       \/ ending[r] /\ ~(at[c] \in {"end", "closing"} /\ r \in RowsIn(batch[c]))
       \/ at'[c] \in {"end", "closing"} /\ r \in RowsIn(batch[c])'

LEMMA KnownRowsStay ==
  ASSUME ConnsTyped, KnownRowsInv, NEW c \in Conns, Only(c), KnownStep(c)
  PROVE  KnownRowsInv'
<1>1. \A d \in Conns \ {c} : Known(d)' = Known(d)
  BY OthersKeep DEF Known, Held, RowsIn
<1>2. \A d \in Conns : Known(d) \in SUBSET Rows
  BY DEF Known, Held, RowsIn
<1>3. ASSUME NEW d \in Conns, NEW r \in Known(d)'
      PROVE  table'[r] # None
  <2>1. CASE d = c
    BY <1>3, <2>1 DEF KnownStep
  <2>2. CASE d # c
    <3>1. r \in Known(d) /\ r \in Rows
      BY <1>1, <1>2, <1>3, <2>2
    <3>2. r \notin Known(c) /\ table[r] # None
      BY <2>2, <3>1 DEF KnownRowsInv
    <3>3. QED
      BY <3>1, <3>2 DEF KnownStep
  <2>3. QED
    BY <2>1, <2>2
<1>4. ASSUME NEW d \in Conns \ {c}, NEW r \in Known(d)', r \in Known(c)'
      PROVE  FALSE
  <2>1. r \in Known(d) /\ r \in Rows
    BY <1>1, <1>2, <1>4
  <2>2. r \notin Known(c) /\ table[r] # None
    BY <2>1 DEF KnownRowsInv
  <2>3. QED
    BY <1>4, <2>2 DEF KnownStep
<1>5. ASSUME NEW d \in Conns, NEW e \in Conns, d # e
      PROVE  Known(d)' \cap Known(e)' = {}
  <2>1. CASE d = c
    BY <1>4, <1>5, <2>1
  <2>2. CASE e = c
    BY <1>4, <1>5, <2>2
  <2>3. CASE d # c /\ e # c
    BY <1>1, <1>5, <2>3 DEF KnownRowsInv
  <2>4. QED
    BY <2>1, <2>2, <2>3
<1>6. ASSUME NEW r \in Rows, ending'[r]
      PROVE  \E d \in Conns : at'[d] \in {"end", "closing"} /\ r \in RowsIn(batch[d])'
  <2>1. CASE at'[c] \in {"end", "closing"} /\ r \in RowsIn(batch[c])'
    BY <2>1
  <2>2. CASE ending[r] /\ ~(at[c] \in {"end", "closing"} /\ r \in RowsIn(batch[c]))
    <3>1. PICK d \in Conns : at[d] \in {"end", "closing"} /\ r \in RowsIn(batch[d])
      BY <2>2 DEF KnownRowsInv
    <3>2. d # c
      BY <2>2, <3>1
    <3>3. at'[d] = at[d] /\ RowsIn(batch[d])' = RowsIn(batch[d])
      BY <3>2, OthersKeep DEF RowsIn
    <3>4. QED
      BY <3>1, <3>3
  <2>3. QED
    BY <1>6, <2>1, <2>2 DEF KnownStep
<1>7. QED
  BY <1>3, <1>5, <1>6 DEF KnownRowsInv

\* A step of one connection keeps the invariant of the others.
LEMMA StepOfOne ==
  ASSUME RowsInv, NEW c \in Conns, Only(c), ConnInv(c)', RowsTyped', ObsTyped',
         KnownStep(c), (born + Reserved)' <= MaxEpisodes
  PROVE  RowsInv'
<1>1. /\ ConnsTyped /\ KnownRowsInv
      /\ \A d \in Conns : ConnInv(d)
  BY Parts DEF InParts
<1>2. /\ ConnsTyped'
      /\ \A d \in Conns \ {c} :
           /\ at'[d] = at[d] /\ closed'[d] = closed[d] /\ live'[d] = live[d]
           /\ own'[d] = own[d] /\ local'[d] = local[d] /\ batch'[d] = batch[d]
           /\ todo'[d] = todo[d] /\ obsNo'[d] = obsNo[d]
  BY <1>1, OthersKeep
<1>3. \A d \in Conns \ {c} : ConnInv(d)'
  BY <1>1, <1>2 DEF ConnInv, ConnTyped, ArraysAgree, BatchFits, RowsIn
<1>4. \A d \in Conns : ConnInv(d)'
  BY <1>3
<1>5. KnownRowsInv'
  BY <1>1, KnownRowsStay
<1>6. InParts'
  BY <1>2, <1>4, <1>5 DEF InParts
<1>7. QED
  BY <1>6, Parts, PTL

-----------------------------------------------------------------------------
(* Room for the episodes to be started.                                    *)

\* What a connection has yet to start, as Reserved counts it.
Due(c, T) == {p \in Conns \X Slots : p[1] = c /\ p[2] \in T}

LEMMA DueCount ==
  ASSUME NEW c \in Conns, NEW T \in SUBSET Slots
  PROVE  IsFiniteSet(Due(c, T)) /\ Cardinality(Due(c, T)) = Cardinality(T)
<1> DEFINE g == [s \in T |-> <<c, s>>]
<1>1. Due(c, T) = {<<c, s>> : s \in T}
  BY DEF Due
<1>2. g \in Bijection(T, Due(c, T))
  <2>1. g \in [T -> Due(c, T)] /\ \A a, b \in T : g[a] = g[b] => a = b
    BY <1>1
  <2>2. \A p \in Due(c, T) : \E s \in T : g[s] = p
    BY <1>1
  <2>3. QED
    BY <2>1, <2>2 DEF Bijection, Injection, Surjection, IsInjective
<1>3. IsFiniteSet(T)
  BY RowsAndSlotsFinite
<1>4. QED
  BY <1>2, <1>3, FS_Bijection DEF ExistsBijection

\* Reserved follows the starts of the one connection that moves.
LEMMA ReservedStep ==
  ASSUME ConnsTyped, \A d \in Conns : ConnTyped(d), NEW c \in Conns, ConnsTyped',
         \A d \in Conns \ {c} : todo'[d] = todo[d],
         todo'[c].starts \in SUBSET Slots
  PROVE  /\ Reserved \in Nat /\ Reserved' \in Nat
         /\ Cardinality(todo[c].starts) \in Nat /\ Cardinality(todo'[c].starts) \in Nat
         /\ Reserved' = Reserved - Cardinality(todo[c].starts) + Cardinality(todo'[c].starts)
<1> USE RowsAssumption
<1> DEFINE P == {p \in Conns \X Slots : p[1] # c /\ p[2] \in todo[p[1]].starts}
           Q == Due(c, todo[c].starts)
           R == Due(c, todo'[c].starts)
<1>1. todo[c].starts \in SUBSET Slots
  BY DEF ConnTyped, Messages
<1>2. IsFiniteSet(Conns \X Slots)
  BY RowsAndSlotsFinite, FS_Product
<1>3. IsFiniteSet(P) /\ Cardinality(P) \in Nat
  <2>1. P \in SUBSET (Conns \X Slots)
    OBVIOUS
  <2>2. QED
    BY <1>2, <2>1, FS_Subset, FS_CardinalityType
<1>4. /\ IsFiniteSet(Q) /\ Cardinality(Q) = Cardinality(todo[c].starts)
      /\ IsFiniteSet(R) /\ Cardinality(R) = Cardinality(todo'[c].starts)
  BY <1>1, DueCount
<1>5. /\ Cardinality(todo[c].starts) \in Nat /\ Cardinality(todo'[c].starts) \in Nat
  BY <1>4, FS_CardinalityType
<1>6. Reserved = Cardinality(P \cup Q) /\ P \cap Q = {}
  <2>1. {p \in Conns \X Slots : p[2] \in todo[p[1]].starts} = P \cup Q
    BY DEF Due
  <2>2. P \cap Q = {}
    BY DEF Due
  <2>3. QED
    BY <2>1, <2>2 DEF Reserved
<1>7. Reserved' = Cardinality(P \cup R) /\ P \cap R = {}
  <2>1. {p \in Conns \X Slots : p[2] \in todo'[p[1]].starts} = P \cup R
    BY DEF Due
  <2>2. P \cap R = {}
    BY DEF Due
  <2>3. QED
    BY <2>1, <2>2 DEF Reserved
<1> HIDE DEF P, Q, R
<1>8. Cardinality({}) = 0
  BY FS_EmptySet
<1>9. Reserved = Cardinality(P) + Cardinality(Q) - 0
  BY <1>3, <1>4, <1>6, <1>8, FS_Union
<1>10. Reserved' = Cardinality(P) + Cardinality(R) - 0
  BY <1>3, <1>4, <1>7, <1>8, FS_Union
<1>11. QED
  BY <1>3, <1>4, <1>5, <1>9, <1>10

\* What one connection has yet to start is part of it.
LEMMA DueIsReserved ==
  ASSUME NEW c \in Conns, ConnTyped(c)
  PROVE  /\ Reserved \in Nat /\ Cardinality(todo[c].starts) \in Nat
         /\ Cardinality(todo[c].starts) <= Reserved
<1> USE RowsAssumption
<1> DEFINE P == {p \in Conns \X Slots : p[2] \in todo[p[1]].starts}
<1>1. todo[c].starts \in SUBSET Slots
  BY DEF ConnTyped, Messages
<1>2. IsFiniteSet(Conns \X Slots)
  BY RowsAndSlotsFinite, FS_Product
<1>3. IsFiniteSet(P) /\ Cardinality(P) \in Nat
  <2>1. P \in SUBSET (Conns \X Slots)
    OBVIOUS
  <2>2. QED
    BY <1>2, <2>1, FS_Subset, FS_CardinalityType
<1>4. IsFiniteSet(Due(c, todo[c].starts)) /\ Cardinality(Due(c, todo[c].starts)) = Cardinality(todo[c].starts)
  BY <1>1, DueCount
<1>5. Due(c, todo[c].starts) \in SUBSET P
  BY DEF Due
<1> HIDE DEF P
<1>6. Cardinality(Due(c, todo[c].starts)) <= Cardinality(P)
  BY <1>3, <1>5, FS_Subset
<1>7. QED
  BY <1>3, <1>4, <1>6, FS_CardinalityType DEF Reserved, P

\* There is room still when a connection starts no more than it had to, and the
\* starts of a new message that fits.
LEMMA RoomLeft ==
  ASSUME RowsInv, NEW c \in Conns, Only(c), todo'[c].starts \in SUBSET Slots,
         born' \in Nat, NEW k \in Nat,
         k = 0 \/ born + Reserved + k <= MaxEpisodes,
         born' + Cardinality(todo'[c].starts) <= born + Cardinality(todo[c].starts) + k
  PROVE  (born + Reserved)' <= MaxEpisodes
<1> USE RowsAssumption
<1>1. /\ ConnsTyped /\ \A d \in Conns : ConnTyped(d)
      /\ born + Reserved <= MaxEpisodes /\ born \in Nat
  BY Parts DEF InParts, ConnInv, RowsTyped
<1>2. ConnsTyped' /\ \A d \in Conns \ {c} : todo'[d] = todo[d]
  BY <1>1, OthersKeep
<1>3. /\ Reserved \in Nat /\ Reserved' \in Nat
      /\ Cardinality(todo[c].starts) \in Nat /\ Cardinality(todo'[c].starts) \in Nat
      /\ Reserved' = Reserved - Cardinality(todo[c].starts) + Cardinality(todo'[c].starts)
  BY <1>1, <1>2, ReservedStep
<1>4. QED
  BY <1>1, <1>3

-----------------------------------------------------------------------------
(* Observations.                                                           *)

\* An observation step of connection c that leaves the array slots.
LEMMA ObserveEffect ==
  ASSUME ConnsTyped, ObsTyped, NEW c \in Conns, ConnTyped(c),
         NEW tab \in [Rows -> Episodes \cup {None}],
         NEW slots \in Arrays, NEW kept, NEW S \in SUBSET Slots,
         S # {} => obsNo[c] < MaxObs,
         \A s \in Slots : slots[s] \in Rows => tab[slots[s]] # None,
         Observe(c, tab, slots, S, kept)
  PROVE  /\ at' = [at EXCEPT ![c] = at'[c]] /\ at'[c] \in {"read", "observe", "wait"}
         /\ own' = [own EXCEPT ![c] = own'[c]] /\ own'[c] \in {slots, kept}
         /\ at'[c] = "read" => own'[c] = slots \/ live[c]
         /\ local' = [local EXCEPT ![c] = local'[c]] /\ local'[c] = slots
         /\ batch' = [batch EXCEPT ![c] = batch'[c]] /\ batch'[c] = NoRows
         /\ todo' = [todo EXCEPT ![c] = todo'[c]] /\ todo'[c] = Nothing
         /\ obsNo' = [obsNo EXCEPT ![c] = obsNo'[c]] /\ obsNo'[c] \in 0 .. MaxObs
         /\ ObsTyped'
<1> DEFINE running == {s \in S : slots[s] \in Rows}
           new == AsksOf(c, tab, slots, running)
           bad == {a \in new : failed[a.row]}
<1>1. CASE running = {}
  <2>1. DoneWith(c, slots) /\ UNCHANGED obsVars
    BY <1>1 DEF Observe
  <2>2. QED
    BY <2>1 DEF DoneWith, ConnsTyped, ConnTyped, ObsTyped, obsVars
<1>2. CASE running # {}
  <2>1. /\ asks' = asks \cup new
        /\ answered' = answered \cup bad
        /\ UNCHANGED acted
        /\ obsNo' = [obsNo EXCEPT ![c] = obsNo[c] + 1]
        /\ at' = [at EXCEPT ![c] = IF bad # new THEN "observe" ELSE IF live[c] THEN "read" ELSE "wait"]
        /\ own' = [own EXCEPT ![c] = kept]
        /\ local' = [local EXCEPT ![c] = slots]
        /\ todo' = [todo EXCEPT ![c] = Nothing]
        /\ batch' = [batch EXCEPT ![c] = NoRows]
    BY <1>2 DEF Observe
  <2>2. obsNo[c] \in 0 .. MaxObs /\ obsNo[c] < MaxObs
    BY <1>2 DEF ConnTyped
  <2>3. \A a \in new : a.conn \in Conns /\ a.row \in Rows /\ a.episode \in Episodes
    BY DEF AsksOf
  <2> HIDE DEF new, running
  <2>4. obsNo'[c] \in 0 .. MaxObs
    BY <2>1, <2>2, RowsAssumption DEF ConnsTyped
  <2>5. at'[c] \in {"read", "observe", "wait"} /\ (at'[c] = "read" => live[c])
    BY <2>1 DEF ConnsTyped
  <2>6. ObsTyped'
    BY <2>1, <2>3 DEF ObsTyped
  <2>7. QED
    BY <2>1, <2>4, <2>5, <2>6 DEF ConnsTyped
<1>3. QED
  BY <1>1, <1>2


-----------------------------------------------------------------------------
(* Starts.                                                                 *)

\* The new rows' episodes: the next ones, one each.
Booked(tab, R, n) == [r \in Rows |-> IF r \in R THEN n + 1 + Rank(R, r) ELSE tab[r]]

LEMMA BookedFacts ==
  ASSUME NEW n \in Nat, NEW tab, Tabled(tab, n), NEW R \in SUBSET Unused(tab),
         n + Cardinality(R) <= MaxEpisodes
  PROVE  /\ Tabled(Booked(tab, R, n), n + Cardinality(R))
         /\ Cardinality(R) \in Nat
         /\ Cardinality(Used(Booked(tab, R, n))) = Cardinality(Used(tab)) + Cardinality(R)
         /\ \A r \in R : Booked(tab, R, n)[r] # None
         /\ \A r \in Rows \ R : Booked(tab, R, n)[r] = tab[r]
<1> USE RowsAssumption
<1> DEFINE new == Booked(tab, R, n)
<1>1. R \in SUBSET Rows /\ R \in SUBSET Int /\ IsFiniteSet(R) /\ Cardinality(R) \in Nat
  BY RowsAndSlotsFinite, FS_CardinalityType DEF Unused
<1>2. /\ \A r \in R : Rank(R, r) \in 0 .. Cardinality(R) - 1
      /\ \A r, p \in R : r # p => Rank(R, r) # Rank(R, p)
  BY <1>1, RankFacts
<1>3. /\ DOMAIN new = Rows
      /\ \A r \in R : new[r] = n + 1 + Rank(R, r)
      /\ \A r \in Rows \ R : new[r] = tab[r]
      /\ new = [r \in Rows |-> new[r]]
  BY <1>1 DEF Booked
<1> HIDE DEF new
<1>4. \A r \in R : new[r] \in n + 1 .. n + Cardinality(R)
  BY <1>1, <1>2, <1>3
<1>5. \A r \in R : new[r] \in Episodes /\ new[r] # None /\ new[r] <= n + Cardinality(R)
  BY <1>1, <1>4 DEF Episodes, None
<1>6. \A r \in Rows \ R :
        /\ new[r] \in Episodes \cup {None}
        /\ new[r] # None => new[r] \in Nat /\ new[r] <= n
  BY <1>3 DEF Tabled, Episodes
<1>7. \A r \in Rows : new[r] # None => new[r] <= n + Cardinality(R)
  BY <1>1, <1>5, <1>6
<1>8. ASSUME NEW q \in Rows, NEW r \in Rows, q # r, new[q] # None
      PROVE  new[q] # new[r]
  <2>1. CASE q \in R /\ r \in R
    <3>1. Rank(R, q) # Rank(R, r) /\ Rank(R, q) \in Int /\ Rank(R, r) \in Int
      BY <1>2, <1>8, <2>1
    <3>2. QED
      BY <1>3, <2>1, <3>1
  <2>2. CASE q \in R /\ r \notin R
    <3>1. new[q] \in Nat /\ new[q] > n
      BY <1>1, <1>4, <2>2
    <3>2. new[r] = None \/ (new[r] \in Nat /\ new[r] <= n)
      BY <1>6, <2>2
    <3>3. QED
      BY <3>1, <3>2 DEF None
  <2>3. CASE q \notin R /\ r \in R
    <3>1. new[r] \in Nat /\ new[r] > n
      BY <1>1, <1>4, <2>3
    <3>2. new[q] = None \/ (new[q] \in Nat /\ new[q] <= n)
      BY <1>6, <2>3
    <3>3. QED
      BY <3>1, <3>2 DEF None
  <2>4. CASE q \notin R /\ r \notin R
    BY <1>3, <1>8, <2>4 DEF Tabled
  <2>5. QED
    BY <2>1, <2>2, <2>3, <2>4
<1>9. Tabled(new, n + Cardinality(R))
  <2>1. \A r \in Rows : new[r] \in Episodes \cup {None}
    BY <1>5, <1>6
  <2>2. new \in [Rows -> Episodes \cup {None}]
    BY <1>3, <2>1
  <2>3. QED
    BY <2>2, <1>7, <1>8 DEF Tabled
<1>10. Used(new) = Used(tab) \cup R /\ Used(tab) \cap R = {}
  BY <1>1, <1>3, <1>5 DEF Used, Unused
<1>11. IsFiniteSet(Used(tab)) /\ Cardinality(Used(tab)) \in Nat
  BY RowsAndSlotsFinite, FS_CardinalityType DEF Used
<1>12. Cardinality(Used(new)) = Cardinality(Used(tab)) + Cardinality(R) - 0
  BY <1>1, <1>10, <1>11, FS_Union, FS_EmptySet
<1>13. Cardinality(Used(new)) = Cardinality(Used(tab)) + Cardinality(R)
  BY <1>1, <1>11, <1>12
<1>14. QED
  BY <1>1, <1>3, <1>5, <1>9, <1>13 DEF new

\* What StartThenObserve needs: the array and the table fit each other, the
\* slots that start are free of rows, and there is room.
Ready(c, tab, slots, m) ==
  /\ Tabled(tab, born) /\ Cardinality(Used(tab)) <= MaxRows
  /\ slots \in Arrays /\ m \in Messages
  /\ \A s, t \in Slots : s # t /\ slots[s] \in Rows => slots[s] # slots[t]
  /\ \A s \in Slots : slots[s] \in Rows => tab[slots[s]] # None
  /\ c \notin VectorConns => \A s \in Slots : slots[s] # Absent
  /\ \A s \in m.starts : slots[s] \notin Rows
  /\ born + Cardinality(m.starts) <= MaxEpisodes
  /\ m.obs # {} => obsNo[c] < MaxObs

\* What it leaves: the connection's part of the invariant, the rows of the array
\* and newly booked ones, and no other row touched.
Begun(c, tab, slots, m) ==
  /\ ConnInv(c)' /\ Only(c) /\ ObsTyped'
  /\ Tabled(table', born') /\ Cardinality(Used(table')) <= MaxRows
  /\ born' \in 0 .. MaxEpisodes /\ born' <= born + Cardinality(m.starts)
  /\ gen' \in [Rows -> Nat]
  /\ at'[c] \notin {"end", "closing", "gone"} /\ todo'[c].starts = {}
  /\ \A r \in Known(c)' : table'[r] # None /\ (r \in RowsIn(slots) \/ tab[r] = None)
  /\ \A r \in Rows : tab[r] # None => table'[r] = tab[r]
  /\ \A r \in Rows : table'[r] # None => tab[r] # None \/ r \in Known(c)'
  /\ RowsIn(slots) \subseteq Known(c)'

\* A grown array has the rows of the old one, at their slots.
LEMMA GrownFacts ==
  ASSUME NEW slots \in Arrays, NEW S, NEW grown, grown = Grown(slots, S)
  PROVE  /\ grown \in Arrays
         /\ \A s \in Slots : \A r \in Rows : grown[s] = r <=> slots[s] = r
         /\ RowsIn(grown) = RowsIn(slots)
         /\ (\A s \in Slots : slots[s] # Absent) => grown = slots
<1>1. None \notin Rows /\ Absent \notin Rows
  BY RowsAssumption DEF Rows, None, Absent
<1>2. grown \in Arrays
  BY DEF Grown, Arrays
<1>3. \A s \in Slots : \A r \in Rows : grown[s] = r <=> slots[s] = r
  BY <1>1 DEF Grown, Arrays
<1>4. RowsIn(grown) = RowsIn(slots)
  BY <1>2, <1>3 DEF RowsIn
<1>5. (\A s \in Slots : slots[s] # Absent) => grown = slots
  BY DEF Grown, Arrays
<1>6. QED
  BY <1>2, <1>3, <1>4, <1>5

\* None of the message's starts is admitted, or it has none.
LEMMA StartsNone ==
  ASSUME RowsInv, NEW c \in Conns, NEW tab, NEW slots, NEW m, Ready(c, tab, slots, m),
         live' = [live EXCEPT ![c] = live'[c]], live'[c] \in BOOLEAN,
         c \in VectorConns => ~live'[c], UNCHANGED closed,
         Admitted(tab, m.starts) = {}, StartThenObserve(c, tab, slots, m)
  PROVE  Begun(c, tab, slots, m)
<1> USE RowsAssumption
<1> DEFINE grown == Grown(slots, m.starts)
<1>1. /\ ConnsTyped /\ RowsTyped /\ ObsTyped /\ ConnTyped(c) /\ ArraysAgree(c)
  BY Parts DEF InParts, ConnInv
<1>2. /\ grown \in Arrays /\ RowsIn(grown) = RowsIn(slots)
      /\ \A s \in Slots : \A r \in Rows : grown[s] = r <=> slots[s] = r
      /\ (\A s \in Slots : slots[s] # Absent) => grown = slots
  BY GrownFacts DEF Ready
<1>3. Observe(c, tab, grown, m.obs, slots) /\ table' = tab /\ UNCHANGED <<gen, born>>
  BY DEF StartThenObserve
<1> HIDE DEF grown
<1>4. /\ tab \in [Rows -> Episodes \cup {None}] /\ m.obs \in SUBSET Slots
      /\ \A s \in Slots : grown[s] \in Rows => tab[grown[s]] # None
  BY <1>2 DEF Ready, Tabled, Messages
<1>5. /\ at' = [at EXCEPT ![c] = at'[c]] /\ at'[c] \in {"read", "observe", "wait"}
      /\ own' = [own EXCEPT ![c] = own'[c]] /\ own'[c] \in {grown, slots}
      /\ at'[c] = "read" => own'[c] = grown \/ live[c]
      /\ local' = [local EXCEPT ![c] = local'[c]] /\ local'[c] = grown
      /\ batch' = [batch EXCEPT ![c] = batch'[c]] /\ batch'[c] = NoRows
      /\ todo' = [todo EXCEPT ![c] = todo'[c]] /\ todo'[c] = Nothing
      /\ obsNo' = [obsNo EXCEPT ![c] = obsNo'[c]] /\ obsNo'[c] \in 0 .. MaxObs
      /\ ObsTyped'
  BY <1>1, <1>2, <1>3, <1>4, ObserveEffect DEF Ready
<1>6. None \notin Rows
  BY DEF Rows, None
<1>7. RowsIn(batch[c])' = {} /\ batch'[c] \in Batches
  BY <1>5, <1>6 DEF RowsIn, NoRows, Batches
<1>8. RowsIn(own[c])' = RowsIn(slots) /\ RowsIn(local[c])' = RowsIn(slots)
  BY <1>2, <1>5 DEF RowsIn
<1>9. closed' = [closed EXCEPT ![c] = closed'[c]] /\ closed'[c] \in BOOLEAN
  BY <1>1 DEF ConnsTyped, ConnTyped
<1>10. Only(c)
  BY <1>5, <1>9 DEF Only
<1>11. ConnTyped(c)'
  BY <1>2, <1>5, <1>7, <1>9 DEF ConnTyped, Ready, Stands, Nothing, Messages
<1>12. ArraysAgree(c)'
  <2>1. \A s, t \in Slots : s # t /\ grown[s] \in Rows => grown[s] # grown[t]
    BY <1>2 DEF Ready
  <2>2. \A s \in Slots : own'[c][s] \in Rows => local'[c][s] = own'[c][s]
    BY <1>2, <1>5
  <2>3. c \notin VectorConns => grown = slots /\ \A s \in Slots : slots[s] # Absent
    BY <1>2 DEF Ready
  <2>4. live[c] => c \notin VectorConns
    BY <1>1 DEF ArraysAgree
  <2>5. QED
    BY <1>5, <2>1, <2>2, <2>3, <2>4 DEF ArraysAgree
<1>13. BatchFits(c)'
  BY <1>5, <1>6 DEF BatchFits, NoRows
<1>14. Known(c)' = RowsIn(slots)
  BY <1>7, <1>8 DEF Known, Held
<1>15. /\ \A r \in Known(c)' : table'[r] # None /\ (r \in RowsIn(slots) \/ tab[r] = None)
       /\ \A r \in Rows : tab[r] # None => table'[r] = tab[r]
       /\ \A r \in Rows : table'[r] # None => tab[r] # None \/ r \in Known(c)'
       /\ RowsIn(slots) \subseteq Known(c)'
  BY <1>3, <1>14 DEF Ready, RowsIn
<1>16. /\ Tabled(table', born') /\ Cardinality(Used(table')) <= MaxRows
       /\ born' \in 0 .. MaxEpisodes /\ gen' \in [Rows -> Nat]
  BY <1>1, <1>3 DEF Ready, RowsTyped
<1>17. born' <= born + Cardinality(m.starts)
  <2>1. Cardinality(m.starts) \in Nat /\ born \in Nat
    BY <1>1, RowsAndSlotsFinite, FS_CardinalityType DEF Ready, Messages, RowsTyped
  <2>2. QED
    BY <1>3, <2>1
<1>18. QED
  BY <1>5, <1>10, <1>11, <1>12, <1>13, <1>15, <1>16, <1>17 DEF Begun, ConnInv, Nothing

\* Some are admitted.
LEMMA StartsSome ==
  ASSUME RowsInv, NEW c \in Conns, NEW tab, NEW slots, NEW m, Ready(c, tab, slots, m),
         live' = [live EXCEPT ![c] = live'[c]], live'[c] \in BOOLEAN,
         c \in VectorConns => ~live'[c], UNCHANGED closed,
         Admitted(tab, m.starts) # {}, StartThenObserve(c, tab, slots, m)
  PROVE  Begun(c, tab, slots, m)
<1> USE RowsAssumption
<1> DEFINE grown == Grown(slots, m.starts)
           A == Admitted(tab, m.starts)
           new == NewRows(tab, A)
           R == RowsIn(new)
<1>1. ConnsTyped /\ RowsTyped /\ ObsTyped /\ ConnTyped(c) /\ ArraysAgree(c)
  BY Parts DEF InParts, ConnInv
<1>2. /\ grown \in Arrays /\ RowsIn(grown) = RowsIn(slots)
      /\ \A s \in Slots : \A r \in Rows : grown[s] = r <=> slots[s] = r
      /\ (\A s \in Slots : slots[s] # Absent) => grown = slots
  BY GrownFacts DEF Ready
<1>3. /\ table' = Booked(tab, R, born)
      /\ gen' = [r \in Rows |-> IF r \in R THEN gen[r] + 1 ELSE gen[r]]
      /\ born' = born + Cardinality(A)
      /\ batch' = [batch EXCEPT ![c] = new]
      /\ at' = [at EXCEPT ![c] = "start"]
      /\ own' = [own EXCEPT ![c] = slots]
      /\ local' = [local EXCEPT ![c] = grown]
      /\ todo' = [todo EXCEPT ![c] = [m EXCEPT !.starts = {}]]
      /\ UNCHANGED obsVars
  BY DEF StartThenObserve, Booked, Rank, Below
<1>4. A # {} /\ m.starts \in SUBSET Slots
  BY DEF Ready, Messages
<1> HIDE DEF grown, A
<1>5. /\ A \in SUBSET m.starts /\ Cardinality(A) <= Cardinality(m.starts)
      /\ Cardinality(Used(tab)) + Cardinality(A) <= MaxRows
  BY <1>4, AdmittedFacts DEF A
<1>6. /\ Cardinality(A) \in Nat /\ Cardinality(m.starts) \in Nat
  BY <1>4, <1>5, RowsAndSlotsFinite, FS_CardinalityType
<1>7. born \in 0 .. MaxEpisodes /\ born + Cardinality(A) <= MaxEpisodes
  BY <1>1, <1>5, <1>6 DEF RowsTyped, Ready
<1>8. Cardinality(A) <= Cardinality(Unused(tab))
  <2>1. /\ Cardinality(Used(tab)) \in Nat
        /\ Cardinality(Unused(tab)) = MaxEpisodes - Cardinality(Used(tab))
    BY UsedAndUnused
  <2>2. Cardinality(Used(tab)) <= born
    BY <1>7, UsedAreBorn DEF Ready
  <2>3. QED
    BY <1>6, <1>7, <2>1, <2>2
<1>9. A \in SUBSET Slots
  BY <1>4, <1>5
<1>10. /\ new \in [Slots -> Rows \cup {None}]
       /\ \A s \in A : new[s] \in Unused(tab)
       /\ \A s \in Slots \ A : new[s] = None
       /\ \A s, t \in A : s # t => new[s] # new[t]
  BY <1>8, <1>9, NewRowsFacts
<1>11. /\ R \in SUBSET Unused(tab) /\ Cardinality(R) = Cardinality(A) /\ R # {}
  BY <1>4, <1>8, <1>9, NewRowsCount
<1> HIDE DEF new
<1>12. RowsIn(batch[c])' = R /\ batch'[c] = new /\ local'[c] = grown /\ own'[c] = slots
       /\ at'[c] = "start" /\ todo'[c] = [m EXCEPT !.starts = {}]
  BY <1>1, <1>3 DEF RowsIn, ConnsTyped
<1> HIDE DEF R
<1>13. born \in Nat /\ born + Cardinality(R) <= MaxEpisodes
  BY <1>7, <1>11
<1>14. /\ Tabled(table', born + Cardinality(R))
       /\ Cardinality(Used(table')) = Cardinality(Used(tab)) + Cardinality(R)
       /\ \A r \in R : table'[r] # None
       /\ \A r \in Rows \ R : table'[r] = tab[r]
  BY <1>3, <1>11, <1>13, BookedFacts DEF Ready
<1>15. None \notin Rows /\ Absent \notin Rows
  BY DEF Rows, None, Absent
<1>16. Only(c)
  <2>1. closed' = [closed EXCEPT ![c] = closed'[c]]
    BY <1>1 DEF ConnsTyped
  <2>2. obsNo' = [obsNo EXCEPT ![c] = obsNo'[c]]
    BY <1>1, <1>3 DEF ConnsTyped, obsVars
  <2>3. QED
    BY <1>1, <1>3, <2>1, <2>2 DEF Only, ConnsTyped
<1>17. ConnTyped(c)'
  <2>1. /\ todo'[c] \in Messages /\ todo'[c].starts = {} /\ todo'[c].obs = m.obs
    BY <1>12 DEF Ready, Messages
  <2>2. closed'[c] \in BOOLEAN /\ obsNo'[c] = obsNo[c] /\ obsNo[c] \in 0 .. MaxObs
    BY <1>1, <1>3 DEF ConnTyped, obsVars
  <2>3. own'[c] \in Arrays /\ local'[c] \in Arrays /\ batch'[c] \in Batches
    BY <1>2, <1>10, <1>12 DEF Batches, Ready
  <2>4. QED
    BY <1>11, <1>12, <2>1, <2>2, <2>3 DEF ConnTyped, Stands, Ready
<1>18. ArraysAgree(c)'
  <2>1. \A s, t \in Slots : s # t /\ grown[s] \in Rows => grown[s] # grown[t]
    BY <1>2 DEF Ready
  <2>2. \A s \in Slots : (slots[s] \in Rows => grown[s] = slots[s]) /\ (grown[s] \in Rows => slots[s] = grown[s])
    BY <1>2
  <2>3. c \notin VectorConns => grown = slots /\ \A s \in Slots : slots[s] # Absent
    BY <1>2 DEF Ready
  <2>4. QED
    BY <1>12, <2>1, <2>2, <2>3 DEF ArraysAgree
<1>19. BatchFits(c)'
  <2>1. ASSUME NEW s \in Slots, new[s] \in Rows
        PROVE  s \in A /\ new[s] \in Unused(tab)
    BY <1>10, <1>15, <2>1
  <2>2. \A s, t \in Slots : s # t /\ new[s] \in Rows => new[s] # new[t]
    BY <1>10, <2>1
  <2>3. ASSUME NEW s \in Slots, new[s] \in Rows
        PROVE  grown[s] \notin Rows /\ \A t \in Slots : grown[t] # new[s]
    <3>1. s \in m.starts /\ tab[new[s]] = None
      BY <1>5, <2>1, <2>3 DEF Unused
    <3>2. slots[s] \notin Rows /\ \A t \in Slots : slots[t] # new[s]
      BY <2>3, <3>1 DEF Ready
    <3>3. QED
      BY <1>2, <2>3, <3>2
  <2>4. QED
    BY <1>12, <2>2, <2>3 DEF BatchFits
<1>20. Known(c)' = RowsIn(slots) \cup R
  <2>1. RowsIn(own[c])' = RowsIn(slots) /\ RowsIn(local[c])' = RowsIn(grown)
    BY <1>12 DEF RowsIn
  <2>2. QED
    BY <1>2, <1>12, <2>1 DEF Known, Held
<1>21. \A r \in RowsIn(slots) : r \in Rows /\ tab[r] # None
  BY DEF Ready, RowsIn
<1>22. \A r \in R : r \in Rows /\ tab[r] = None
  BY <1>11 DEF Unused
<1>23. /\ \A r \in Known(c)' : table'[r] # None /\ (r \in RowsIn(slots) \/ tab[r] = None)
       /\ \A r \in Rows : tab[r] # None => table'[r] = tab[r]
       /\ \A r \in Rows : table'[r] # None => tab[r] # None \/ r \in Known(c)'
       /\ RowsIn(slots) \subseteq Known(c)'
  BY <1>14, <1>20, <1>21, <1>22
<1>24. ObsTyped'
  BY <1>1, <1>3 DEF ObsTyped, obsVars
<1>25. gen' \in [Rows -> Nat]
  BY <1>1, <1>3 DEF RowsTyped
<1>26. /\ Tabled(table', born') /\ Cardinality(Used(table')) <= MaxRows
       /\ born' \in 0 .. MaxEpisodes /\ born' <= born + Cardinality(m.starts)
  BY <1>3, <1>5, <1>6, <1>7, <1>11, <1>14
<1>27. todo'[c].starts = {}
  BY <1>12 DEF Ready, Messages
<1>28. QED
  BY <1>12, <1>16, <1>17, <1>18, <1>19, <1>23, <1>24, <1>25, <1>26, <1>27 DEF Begun, ConnInv

\* Either way.
LEMMA Starting ==
  ASSUME RowsInv, NEW c \in Conns, NEW tab, NEW slots, NEW m, Ready(c, tab, slots, m),
         live' = [live EXCEPT ![c] = live'[c]], live'[c] \in BOOLEAN,
         c \in VectorConns => ~live'[c], UNCHANGED closed,
         StartThenObserve(c, tab, slots, m)
  PROVE  Begun(c, tab, slots, m)
BY StartsNone, StartsSome


-----------------------------------------------------------------------------
(* Ends.                                                                   *)

\* Releasing rows keeps what is said of the table.
LEMMA ReleaseFacts ==
  ASSUME NEW tab, NEW n, Tabled(tab, n), NEW R, Cardinality(Used(tab)) <= MaxRows
  PROVE  /\ Tabled(Released(tab, R), n) /\ Cardinality(Used(Released(tab, R))) <= MaxRows
         /\ \A r \in Rows : Released(tab, R)[r] = IF r \in R THEN None ELSE tab[r]
<1>1. /\ Released(tab, R) \in [Rows -> Episodes \cup {None}]
      /\ \A r \in Rows : Released(tab, R)[r] = IF r \in R THEN None ELSE tab[r]
  BY DEF Released, Tabled
<1>2. Tabled(Released(tab, R), n)
  BY <1>1 DEF Tabled
<1>3. Used(Released(tab, R)) \in SUBSET Used(tab)
  BY <1>1 DEF Used
<1>4. IsFiniteSet(Used(tab)) /\ IsFiniteSet(Used(Released(tab, R)))
  BY RowsAndSlotsFinite DEF Used
<1>5. /\ Cardinality(Used(tab)) \in Nat /\ Cardinality(Used(Released(tab, R))) \in Nat
      /\ Cardinality(Used(Released(tab, R))) <= Cardinality(Used(tab))
  BY <1>3, <1>4, FS_Subset, FS_CardinalityType
<1>6. QED
  BY <1>1, <1>2, <1>5, RowsAssumption

\* Rows of the array whose end begins have an episode and are in no other batch:
\* all of them are in the handler's batch now.
LEMMA EndBegins ==
  ASSUME RowsInv, NEW c \in Conns, at[c] \notin {"end", "closing"},
         NEW f, \A s \in Slots : f[s] \in Rows => own[c][s] = f[s],
         BeginEnd(c, f)
  PROVE  /\ ending' \in [Rows -> BOOLEAN] /\ gen' \in [Rows -> Nat]
         /\ \A r \in Rows : ending'[r] => ending[r] \/ r \in RowsIn(f)
         /\ batch' = [batch EXCEPT ![c] = batch'[c]] /\ batch'[c] \in Batches
         /\ \A s \in Slots : \A r \in Rows : batch'[c][s] = r <=> f[s] = r
         /\ RowsIn(batch[c])' = RowsIn(f)
         /\ \A r \in RowsIn(f) : ~ending[r]
         /\ \A r \in Rows : ending'[r] <=> ending[r] \/ r \in RowsIn(f)
         /\ \A r \in Rows : gen'[r] = IF r \in RowsIn(f) THEN gen[r] + 1 ELSE gen[r]
<1> USE RowsAssumption
<1> DEFINE R == {r \in RowsIn(f) : table[r] # None /\ ~ending[r]}
<1>1. ConnsTyped /\ RowsTyped /\ KnownRowsInv
  BY Parts DEF InParts
<1>2. RowsIn(f) \subseteq RowsIn(own[c])
  BY DEF RowsIn
<1>3. ASSUME NEW r \in RowsIn(f)
      PROVE  table[r] # None /\ ~ending[r]
  <2>1. r \in Known(c) /\ r \in Rows
    BY <1>2, <1>3 DEF Known, Held, RowsIn
  <2>2. table[r] # None
    BY <1>1, <2>1 DEF KnownRowsInv
  <2>3. ASSUME ending[r]
        PROVE  FALSE
    <3>1. PICK d \in Conns : at[d] \in {"end", "closing"} /\ r \in RowsIn(batch[d])
      BY <1>1, <2>1, <2>3 DEF KnownRowsInv
    <3>2. d # c /\ r \in Known(d)
      BY <3>1 DEF Known, Held
    <3>3. QED
      BY <1>1, <2>1, <3>2 DEF KnownRowsInv
  <2>4. QED
    BY <2>2, <2>3
<1>4. R = RowsIn(f)
  BY <1>3
<1>5. /\ ending' = [r \in Rows |-> ending[r] \/ r \in R]
      /\ gen' = [r \in Rows |-> IF r \in R THEN gen[r] + 1 ELSE gen[r]]
      /\ batch' = [batch EXCEPT ![c] = [s \in Slots |-> IF f[s] \in R THEN f[s] ELSE None]]
  BY DEF BeginEnd
<1> HIDE DEF R
<1>6. R \subseteq Rows /\ None \notin Rows
  BY <1>4 DEF RowsIn, Rows, None
<1>7. batch'[c] = [s \in Slots |-> IF f[s] \in R THEN f[s] ELSE None]
  BY <1>1, <1>5 DEF ConnsTyped
<1>8. batch'[c] \in Batches
  BY <1>6, <1>7 DEF Batches
<1>9. \A s \in Slots : f[s] \in Rows => f[s] \in R
  BY <1>4 DEF RowsIn
<1>10. \A s \in Slots : \A r \in Rows : batch'[c][s] = r <=> f[s] = r
  BY <1>6, <1>7, <1>9
<1>11. RowsIn(batch[c])' = RowsIn(f)
  BY <1>10 DEF RowsIn
<1>12. ending' \in [Rows -> BOOLEAN] /\ \A r \in Rows : ending'[r] <=> ending[r] \/ r \in RowsIn(f)
  BY <1>1, <1>4, <1>5 DEF RowsTyped
<1>13. gen' \in [Rows -> Nat]
  BY <1>1, <1>5 DEF RowsTyped
<1>14. batch' = [batch EXCEPT ![c] = batch'[c]]
  BY <1>5, <1>7
<1>15. \A r \in Rows : gen'[r] = IF r \in RowsIn(f) THEN gen[r] + 1 ELSE gen[r]
  BY <1>4, <1>5
<1>16. QED
  BY <1>3, <1>8, <1>10, <1>11, <1>12, <1>13, <1>14, <1>15

-----------------------------------------------------------------------------
(* Each step of a connection.                                              *)

\* What is shown of each: it keeps the invariant, and whether it loses no row.
OneStep(c) ==
  /\ Only(c) /\ ConnInv(c)' /\ RowsTyped' /\ ObsTyped' /\ KnownStep(c)
  /\ (born + Reserved)' <= MaxEpisodes

NothingLost(c) ==
  /\ at'[c] = "gone" => Known(c)' = {}
  /\ \A r \in Rows : table'[r] # None /\ (table[r] = None \/ r \in Known(c)) => r \in Known(c)'

\* A message of connection c is read.
LEMMA Handling ==
  ASSUME RowsInv, NEW c \in Conns, NEW m,
         m.starts \in SUBSET Slots, m.obs \in SUBSET Slots,
         live' = [live EXCEPT ![c] = live'[c]], live'[c] \in BOOLEAN,
         c \in VectorConns => ~live'[c], Handle(c, m)
  PROVE  OneStep(c) /\ NothingLost(c)
<1> USE RowsAssumption
<1> DEFINE f == [s \in Slots |-> IF s \in m.ends \cup m.starts THEN own[c][s] ELSE None]
           rest == [starts |-> m.starts, obs |-> m.obs]
           k == Cardinality(m.starts)
<1>1. /\ ConnsTyped /\ RowsTyped /\ ObsTyped /\ KnownRowsInv
      /\ ConnTyped(c) /\ ArraysAgree(c) /\ BatchFits(c)
      /\ born + Reserved <= MaxEpisodes
  BY Parts DEF InParts, ConnInv
<1>2. /\ at[c] = "read" /\ UNCHANGED closed
      /\ m.starts = {} \/ born + Reserved + k <= MaxEpisodes
      /\ m.obs = {} \/ obsNo[c] < MaxObs
  BY DEF Handle
<1>3. k \in Nat /\ Reserved \in Nat /\ born \in Nat /\ (m.starts = {} => k = 0)
  BY <1>1, RowsAndSlotsFinite, FS_CardinalityType, FS_EmptySet, DueIsReserved DEF RowsTyped
<1>4. k = 0 \/ born + Reserved + k <= MaxEpisodes
  BY <1>2, <1>3
<1>5. todo[c].starts = {} /\ Cardinality(todo[c].starts) = 0
  BY <1>1, <1>2, FS_EmptySet DEF ConnTyped
<1>6. None \notin Rows
  BY DEF Rows, None
<1>7. RowsIn(batch[c]) = {} /\ Known(c) = RowsIn(own[c]) /\ local[c] = own[c]
  BY <1>1, <1>2 DEF ConnTyped, ArraysAgree, Known, Held
<1>8. rest \in Messages
  BY DEF Messages
<1>9. \A s \in Slots : f[s] \in Rows => own[c][s] = f[s]
  BY <1>6
<1>10. CASE RowsIn(f) # {}
  <2>1. /\ BeginEnd(c, f)
        /\ at' = [at EXCEPT ![c] = "end"]
        /\ todo' = [todo EXCEPT ![c] = rest]
        /\ UNCHANGED <<table, failed, own, local, obsVars, born>>
    BY <1>10 DEF Handle
  <2>2. \A s \in m.starts : own[c][s] \in Rows => f[s] = own[c][s]
    OBVIOUS
  <2> HIDE DEF f, rest
  <2>3. /\ ending' \in [Rows -> BOOLEAN] /\ gen' \in [Rows -> Nat]
        /\ \A r \in Rows : ending'[r] => ending[r] \/ r \in RowsIn(f)
        /\ batch' = [batch EXCEPT ![c] = batch'[c]] /\ batch'[c] \in Batches
        /\ \A s \in Slots : \A r \in Rows : batch'[c][s] = r <=> f[s] = r
        /\ RowsIn(batch[c])' = RowsIn(f)
    BY <1>2, <1>9, <2>1, EndBegins
  <2>4. /\ at'[c] = "end" /\ todo'[c] = rest /\ closed'[c] = closed[c]
        /\ own'[c] = own[c] /\ local'[c] = local[c] /\ obsNo'[c] = obsNo[c]
    BY <1>1, <1>2, <2>1 DEF ConnsTyped, obsVars
  <2>5. Only(c)
    BY <1>1, <1>2, <2>1, <2>3, <2>4 DEF Only, ConnsTyped, obsVars
  <2>6. ConnTyped(c)'
    <3>1. rest.obs = m.obs /\ rest.starts = m.starts
      BY DEF rest
    <3>2. QED
      BY <1>1, <1>2, <1>8, <1>10, <2>3, <2>4, <3>1 DEF ConnTyped, Stands
  <2>7. ArraysAgree(c)'
    BY <1>1, <1>2, <1>7, <2>4 DEF ArraysAgree
  <2>8. BatchFits(c)'
    <3>1. \A s, t \in Slots : s # t /\ batch'[c][s] \in Rows => batch'[c][s] # batch'[c][t]
      BY <1>1, <1>7, <1>9, <2>3 DEF ArraysAgree
    <3>2. \A s \in Slots : batch'[c][s] \in Rows => own'[c][s] = batch'[c][s]
      BY <1>9, <2>3, <2>4
    <3>3. \A s \in Slots : own'[c][s] \in Rows /\ s \in todo'[c].starts => batch'[c][s] = own'[c][s]
      BY <2>2, <2>3, <2>4 DEF rest
    <3>4. QED
      BY <2>4, <3>1, <3>2, <3>3 DEF BatchFits
  <2>9. RowsTyped' /\ ObsTyped'
    BY <1>1, <2>1, <2>3 DEF RowsTyped, ObsTyped, obsVars
  <2>10. RowsIn(f) \subseteq RowsIn(own[c])
    BY <1>9 DEF RowsIn
  <2>11. Known(c)' = Known(c)
    BY <1>7, <2>3, <2>4, <2>10 DEF Known, Held, RowsIn
  <2>12. KnownStep(c)
    BY <1>1, <1>2, <2>1, <2>3, <2>4, <2>11 DEF KnownStep, KnownRowsInv
  <2>13. (born + Reserved)' <= MaxEpisodes
    <3>1. todo'[c].starts = m.starts
      BY <2>4 DEF rest
    <3>2. born' + Cardinality(todo'[c].starts) <= born + Cardinality(todo[c].starts) + k /\ born' \in Nat
      BY <1>3, <1>5, <2>1, <3>1
    <3>3. QED
      BY <1>3, <1>4, <2>5, <3>1, <3>2, RoomLeft
  <2>14. NothingLost(c)
    BY <2>1, <2>4, <2>11 DEF NothingLost
  <2>15. QED
    BY <2>5, <2>6, <2>7, <2>8, <2>9, <2>12, <2>13, <2>14 DEF OneStep, ConnInv
<1>11. CASE RowsIn(f) = {}
  <2>1. StartThenObserve(c, table, own[c], rest) /\ UNCHANGED <<ending, failed>>
    BY <1>11 DEF Handle
  <2>2. \A s \in m.starts : own[c][s] \notin Rows
    BY <1>11 DEF RowsIn
  <2>3. rest.starts = m.starts /\ rest.obs = m.obs
    OBVIOUS
  <2> HIDE DEF f, rest
  <2>4. Ready(c, table, own[c], rest)
    <3>1. \A s \in Slots : own[c][s] \in Rows => table[own[c][s]] # None
      BY <1>1, <1>7 DEF KnownRowsInv, RowsIn
    <3>2. born + Cardinality(rest.starts) <= MaxEpisodes
      BY <1>1, <1>3, <1>4, <2>3
    <3>3. QED
      BY <1>1, <1>2, <1>7, <1>8, <2>2, <2>3, <3>1, <3>2 DEF Ready, RowsTyped, ConnTyped, ArraysAgree
  <2>5. Begun(c, table, own[c], rest)
    BY <1>2, <2>1, <2>4, Starting
  <2>6. RowsTyped'
    BY <1>1, <2>1, <2>5 DEF Begun, RowsTyped
  <2>7. KnownStep(c)
    BY <1>1, <1>2, <1>7, <2>1, <2>5 DEF Begun, KnownStep
  <2>8. (born + Reserved)' <= MaxEpisodes
    <3>1. /\ todo'[c].starts = {} /\ born' \in Nat /\ Only(c)
          /\ born' <= born + Cardinality(m.starts)
      BY <2>3, <2>5 DEF Begun
    <3>2. born' + Cardinality(todo'[c].starts) <= born + Cardinality(todo[c].starts) + k
      BY <1>3, <1>5, <3>1
    <3>3. QED
      BY <1>3, <1>4, <3>1, <3>2, RoomLeft
  <2>9. NothingLost(c)
    <3>1. at'[c] # "gone"
      BY <2>5 DEF Begun
    <3>2. QED
      BY <1>7, <2>5, <3>1 DEF Begun, NothingLost
  <2>10. QED
    BY <2>5, <2>6, <2>7, <2>8, <2>9 DEF Begun, OneStep
<1>12. QED
  BY <1>10, <1>11


\* on_episode_end has returned: the array without the ended rows is ready for the
\* starts, which begin.
LEMMA EndedReady ==
  ASSUME RowsInv, NEW c \in Conns, EndReturned(c),
         NEW R, R = RowsIn(batch[c]),
         NEW tab, tab = Released(table, R),
         NEW slots, slots = [s \in Slots |-> IF own[c][s] \in R THEN None ELSE own[c][s]]
  PROVE  Ready(c, tab, slots, todo[c]) /\ Begun(c, tab, slots, todo[c])
<1> USE RowsAssumption
<1> DEFINE k == Cardinality(todo[c].starts)
<1>1. /\ ConnsTyped /\ RowsTyped /\ ObsTyped /\ KnownRowsInv
      /\ ConnTyped(c) /\ ArraysAgree(c) /\ BatchFits(c)
      /\ born + Reserved <= MaxEpisodes
  BY Parts DEF InParts, ConnInv
<1>2. /\ at[c] = "end" /\ UNCHANGED <<closed, live>>
      /\ ending' = Cleared(ending, R) /\ failed' = Cleared(failed, R)
      /\ StartThenObserve(c, tab, slots, todo[c])
  BY DEF EndReturned
<1>3. k \in Nat /\ Reserved \in Nat /\ k <= Reserved /\ born \in Nat
  BY <1>1, DueIsReserved DEF RowsTyped
<1>4. None \notin Rows /\ R \subseteq Rows
  BY DEF Rows, None, RowsIn
<1>5. R \subseteq Known(c) /\ \A s \in Slots : own[c][s] \in Rows => own[c][s] \in Known(c)
  BY DEF Known, Held, RowsIn
<1>6. /\ Tabled(tab, born) /\ Cardinality(Used(tab)) <= MaxRows
      /\ \A r \in Rows : tab[r] = IF r \in R THEN None ELSE table[r]
  BY <1>1, ReleaseFacts DEF RowsTyped
<1>7. slots \in Arrays /\ \A s \in Slots : slots[s] \in Rows => slots[s] = own[c][s] /\ slots[s] \notin R
  BY <1>1, <1>4 DEF ConnTyped, Arrays
<1>8. \A s \in Slots : slots[s] # None => slots[s] = own[c][s]
  OBVIOUS
<1>9. Ready(c, tab, slots, todo[c])
  <2>1. \A s, t \in Slots : s # t /\ slots[s] \in Rows => slots[s] # slots[t]
    BY <1>1, <1>2, <1>4, <1>7, <1>8 DEF ArraysAgree
  <2>2. \A s \in Slots : slots[s] \in Rows => tab[slots[s]] # None
    BY <1>1, <1>5, <1>6, <1>7 DEF KnownRowsInv
  <2>3. c \notin VectorConns => \A s \in Slots : slots[s] # Absent
    BY <1>1, <1>8 DEF ArraysAgree, None, Absent
  <2>4. ASSUME NEW s \in todo[c].starts
        PROVE  slots[s] \notin Rows
    <3>1. s \in Slots
      BY <1>1 DEF ConnTyped, Messages
    <3>2. own[c][s] \in Rows => batch[c][s] = own[c][s]
      BY <1>1, <1>2, <3>1 DEF BatchFits
    <3>3. own[c][s] \in Rows => own[c][s] \in R
      BY <3>1, <3>2 DEF RowsIn
    <3>4. QED
      BY <1>4, <1>7, <3>1, <3>3
  <2>5. born + Cardinality(todo[c].starts) <= MaxEpisodes
    BY <1>1, <1>3
  <2>6. QED
    BY <1>1, <1>6, <1>7, <2>1, <2>2, <2>3, <2>4, <2>5 DEF Ready, ConnTyped
<1>10. /\ live' = [live EXCEPT ![c] = live'[c]] /\ live'[c] \in BOOLEAN
       /\ c \in VectorConns => ~live'[c]
  BY <1>1, <1>2 DEF ConnsTyped, ConnTyped, ArraysAgree
<1>11. Begun(c, tab, slots, todo[c])
  BY <1>2, <1>9, <1>10, Starting
<1>12. QED
  BY <1>9, <1>11

\* ... and the step keeps the invariant.
LEMMA Ended ==
  ASSUME RowsInv, NEW c \in Conns, EndReturned(c)
  PROVE  OneStep(c) /\ NothingLost(c)
<1> USE RowsAssumption
<1> DEFINE R == RowsIn(batch[c])
           tab == Released(table, R)
           slots == [s \in Slots |-> IF own[c][s] \in R THEN None ELSE own[c][s]]
           k == Cardinality(todo[c].starts)
<1>1. /\ RowsTyped /\ ObsTyped /\ KnownRowsInv
      /\ ConnTyped(c) /\ ArraysAgree(c) /\ BatchFits(c)
  BY Parts DEF InParts, ConnInv
<1>2. /\ at[c] = "end" /\ ending' = Cleared(ending, R) /\ failed' = Cleared(failed, R)
  BY DEF EndReturned
<1>3. k \in Nat /\ born \in Nat
  BY <1>1, DueIsReserved DEF RowsTyped
<1>4. None \notin Rows /\ R \subseteq Rows
  BY DEF Rows, None, RowsIn
<1>5. R \subseteq Known(c) /\ \A s \in Slots : own[c][s] \in Rows => own[c][s] \in Known(c)
  BY DEF Known, Held, RowsIn
<1>6. \A r \in Rows : tab[r] = IF r \in R THEN None ELSE table[r]
  BY <1>1, ReleaseFacts DEF RowsTyped
<1>7. \A s \in Slots : slots[s] = IF own[c][s] \in R THEN None ELSE own[c][s]
  OBVIOUS
<1>11. Begun(c, tab, slots, todo[c])
  BY EndedReady
<1> HIDE DEF tab, slots
<1>12. RowsIn(slots) = RowsIn(own[c]) \ R
  BY <1>4, <1>7 DEF RowsIn
<1>13. RowsTyped'
  <2>1. ending' \in [Rows -> BOOLEAN] /\ failed' \in [Rows -> BOOLEAN]
    BY <1>1, <1>2 DEF RowsTyped, Cleared
  <2>2. QED
    BY <1>11, <2>1 DEF RowsTyped, Begun
<1>14. KnownStep(c)
  <2>1. \A r \in Known(c)' : table'[r] # None /\ (r \in RowsIn(slots) \/ tab[r] = None) /\ r \in Rows
    BY <1>11 DEF Begun, Known, Held, RowsIn
  <2>2. \A r \in Known(c)' : table'[r] # None /\ (r \in Known(c) \/ table[r] = None)
    BY <1>5, <1>6, <1>12, <2>1 DEF Known, Held
  <2>3. \A r \in Rows \ Known(c) : table[r] # None => table'[r] # None
    BY <1>5, <1>6, <1>11 DEF Begun
  <2>4. \A r \in Rows : ending'[r] => ending[r] /\ r \notin R
    BY <1>2 DEF Cleared
  <2>5. QED
    BY <2>2, <2>3, <2>4 DEF KnownStep
<1>15. (born + Reserved)' <= MaxEpisodes
  <2>1. /\ todo'[c].starts = {} /\ born' \in Nat /\ Only(c)
        /\ born' <= born + k
    BY <1>11 DEF Begun
  <2>2. Cardinality(todo'[c].starts) = 0
    BY <2>1, FS_EmptySet
  <2>3. born' + Cardinality(todo'[c].starts) <= born + Cardinality(todo[c].starts) + 0
    BY <1>3, <2>1, <2>2
  <2>4. QED
    BY <2>1, <2>3, RoomLeft
<1>16. NothingLost(c)
  <2>1. Known(c) = RowsIn(own[c]) \cup R
    BY <1>1, <1>2 DEF ArraysAgree, Known, Held
  <2>2. at'[c] # "gone"
    BY <1>11 DEF Begun
  <2>3. ASSUME NEW r \in Rows, table'[r] # None, table[r] = None \/ r \in Known(c)
        PROVE  r \in Known(c)'
    <3>1. CASE tab[r] = None
      BY <1>11, <2>3, <3>1 DEF Begun
    <3>2. CASE tab[r] # None
      <4>1. r \in RowsIn(own[c]) \ R
        BY <1>6, <2>1, <2>3, <3>2
      <4>2. QED
        BY <1>11, <1>12, <4>1 DEF Begun
    <3>3. QED
      BY <3>1, <3>2
  <2>4. QED
    BY <2>2, <2>3 DEF NothingLost
<1>17. QED
  BY <1>11, <1>13, <1>14, <1>15, <1>16 DEF Begun, OneStep

\* on_episode_start has returned.
LEMMA Started ==
  ASSUME RowsInv, NEW c \in Conns, StartReturned(c)
  PROVE  OneStep(c) /\ NothingLost(c)
<1> USE RowsAssumption
<1>1. /\ ConnsTyped /\ RowsTyped /\ ObsTyped /\ KnownRowsInv
      /\ ConnTyped(c) /\ ArraysAgree(c) /\ BatchFits(c)
      /\ born + Reserved <= MaxEpisodes
  BY Parts DEF InParts, ConnInv
<1>2. PICK bad \in SUBSET {s \in Slots : batch[c][s] \in Rows} :
       LET R == {batch[c][s] : s \in bad}
           good == {s \in Slots \ bad : batch[c][s] \in Rows}
           slots == [s \in Slots |-> IF s \in good THEN batch[c][s] ELSE local[c][s]]
           kept == IF own[c] = local[c] THEN slots ELSE own[c]
       IN /\ table' = Released(table, R)
          /\ failed' = Cleared(failed, R)
          /\ Observe(c, table', slots, todo[c].obs, kept)
  BY DEF StartReturned
<1> DEFINE R == {batch[c][s] : s \in bad}
           good == {s \in Slots \ bad : batch[c][s] \in Rows}
           slots == [s \in Slots |-> IF s \in good THEN batch[c][s] ELSE local[c][s]]
           kept == IF own[c] = local[c] THEN slots ELSE own[c]
<1>3. /\ table' = Released(table, R) /\ failed' = Cleared(failed, R)
      /\ Observe(c, table', slots, todo[c].obs, kept)
      /\ at[c] = "start" /\ UNCHANGED <<gen, ending, closed, live, born>>
  BY <1>2 DEF StartReturned
<1>4. None \notin Rows /\ Absent \notin Rows
  BY DEF Rows, None, Absent
<1>5. /\ R \subseteq Rows /\ \A r \in R : \E s \in bad : r = batch[c][s]
      /\ \A s \in Slots : s \in good <=> s \notin bad /\ batch[c][s] \in Rows
      /\ bad \in SUBSET Slots /\ \A s \in bad : batch[c][s] \in R /\ batch[c][s] \in Rows
  OBVIOUS
<1>6. /\ slots = [s \in Slots |-> slots[s]] /\ DOMAIN slots = Slots
      /\ \A s \in Slots : slots[s] = IF s \in good THEN batch[c][s] ELSE local[c][s]
      /\ kept = slots \/ (kept = own[c] /\ own[c] # local[c])
  OBVIOUS
<1> HIDE DEF R, good, slots, kept
<1>7. \A s, t \in Slots : s # t /\ batch[c][s] \in Rows => batch[c][s] # batch[c][t]
  BY <1>1 DEF BatchFits
<1>8. \A s \in Slots : batch[c][s] \in Rows =>
        local[c][s] \notin Rows /\ \A t \in Slots : local[c][t] # batch[c][s]
  BY <1>1, <1>3 DEF BatchFits
<1>9. slots \in Arrays
  <2>1. \A s \in Slots : slots[s] \in Rows \cup {None, Absent}
    BY <1>1, <1>5, <1>6 DEF ConnTyped, Arrays
  <2>2. QED
    BY <1>6, <2>1 DEF Arrays
<1>10. \A s \in Slots : slots[s] \in Rows => slots[s] \notin R /\ slots[s] \in Known(c)
  <2> SUFFICES ASSUME NEW s \in Slots, slots[s] \in Rows
               PROVE  slots[s] \notin R /\ slots[s] \in Known(c)
    OBVIOUS
  <2>1. CASE s \in good
    <3>1. slots[s] = batch[c][s] /\ s \notin bad
      BY <1>5, <1>6, <2>1
    <3>2. QED
      BY <1>5, <1>7, <3>1 DEF Known, Held, RowsIn
  <2>2. CASE s \notin good
    <3>1. slots[s] = local[c][s]
      BY <1>6, <2>2
    <3>2. QED
      BY <1>5, <1>8, <3>1 DEF Known, Held, RowsIn
  <2>3. QED
    BY <2>1, <2>2
<1>11. \A r \in Known(c) : r \in Rows /\ table[r] # None
  BY <1>1 DEF KnownRowsInv, Known, Held, RowsIn
<1>12. /\ Tabled(table', born) /\ Cardinality(Used(table')) <= MaxRows
       /\ \A r \in Rows : table'[r] = IF r \in R THEN None ELSE table[r]
  BY <1>1, <1>3, ReleaseFacts DEF RowsTyped
<1>13. \A s \in Slots : slots[s] \in Rows => table'[slots[s]] # None
  BY <1>10, <1>11, <1>12
<1>14. todo[c].obs \in SUBSET Slots /\ (todo[c].obs # {} => obsNo[c] < MaxObs)
  BY <1>1 DEF ConnTyped, Messages
<1>15. table' \in [Rows -> Episodes \cup {None}]
  BY <1>12 DEF Tabled
<1>16. /\ at' = [at EXCEPT ![c] = at'[c]] /\ at'[c] \in {"read", "observe", "wait"}
       /\ own' = [own EXCEPT ![c] = own'[c]] /\ own'[c] \in {slots, kept}
       /\ at'[c] = "read" => own'[c] = slots \/ live[c]
       /\ local' = [local EXCEPT ![c] = local'[c]] /\ local'[c] = slots
       /\ batch' = [batch EXCEPT ![c] = batch'[c]] /\ batch'[c] = NoRows
       /\ todo' = [todo EXCEPT ![c] = todo'[c]] /\ todo'[c] = Nothing
       /\ obsNo' = [obsNo EXCEPT ![c] = obsNo'[c]] /\ obsNo'[c] \in 0 .. MaxObs
       /\ ObsTyped'
  BY <1>1, <1>3, <1>9, <1>13, <1>14, <1>15, ObserveEffect
<1>17. live'[c] = live[c] /\ closed'[c] = closed[c]
  BY <1>3
<1>18. Only(c)
  BY <1>1, <1>3, <1>16 DEF Only, ConnsTyped
<1>19. \A s \in Slots : own[c][s] \in Rows => slots[s] = own[c][s]
  <2> SUFFICES ASSUME NEW s \in Slots, own[c][s] \in Rows
               PROVE  slots[s] = own[c][s]
    OBVIOUS
  <2>1. local[c][s] = own[c][s]
    BY <1>1 DEF ArraysAgree
  <2>2. s \notin good
    BY <1>5, <1>8, <2>1
  <2>3. QED
    BY <1>6, <2>1, <2>2
<1>20. RowsIn(batch[c])' = {} /\ batch'[c] \in Batches
  BY <1>4, <1>16 DEF RowsIn, NoRows, Batches
<1>21. own'[c] \in Arrays /\ \A s \in Slots : own'[c][s] \in Rows => slots[s] = own'[c][s]
  BY <1>1, <1>6, <1>9, <1>16, <1>19 DEF ConnTyped
<1>22. ConnTyped(c)'
  BY <1>1, <1>9, <1>16, <1>17, <1>20, <1>21 DEF ConnTyped, Stands, Nothing, Messages
<1>23. ArraysAgree(c)'
  <2>1. \A s, t \in Slots : s # t /\ slots[s] \in Rows => slots[s] # slots[t]
    <3> SUFFICES ASSUME NEW s \in Slots, NEW t \in Slots, s # t, slots[s] \in Rows
                 PROVE  slots[s] # slots[t]
      OBVIOUS
    <3>1. CASE s \in good /\ t \in good
      BY <1>5, <1>6, <1>7, <3>1
    <3>2. CASE s \in good /\ t \notin good
      BY <1>5, <1>6, <1>8, <3>2
    <3>3. CASE s \notin good /\ t \in good
      BY <1>5, <1>6, <1>8, <3>3
    <3>4. CASE s \notin good /\ t \notin good
      BY <1>1, <1>6, <3>4 DEF ArraysAgree
    <3>5. QED
      BY <3>1, <3>2, <3>3, <3>4
  <2>2. c \notin VectorConns => kept = slots /\ \A s \in Slots : slots[s] # Absent
    BY <1>1, <1>4, <1>5, <1>6 DEF ArraysAgree
  <2>3. live[c] => c \notin VectorConns
    BY <1>1 DEF ArraysAgree
  <2>4. QED
    BY <1>16, <1>17, <1>21, <2>1, <2>2, <2>3 DEF ArraysAgree
<1>24. BatchFits(c)'
  BY <1>4, <1>16 DEF BatchFits, NoRows
<1>25. RowsTyped'
  BY <1>1, <1>3, <1>12 DEF RowsTyped, Cleared
<1>26. Known(c)' = RowsIn(slots)
  <2>1. RowsIn(local[c])' = RowsIn(slots) /\ RowsIn(own[c])' \subseteq RowsIn(slots)
    BY <1>16, <1>21 DEF RowsIn
  <2>2. QED
    BY <1>20, <2>1 DEF Known, Held
<1>27. R \subseteq Known(c)
  BY <1>5 DEF Known, Held, RowsIn
<1>28. KnownStep(c)
  <2>1. \A r \in Known(c)' : table'[r] # None /\ r \in Known(c)
    BY <1>10, <1>13, <1>26 DEF RowsIn
  <2>2. \A r \in Rows \ Known(c) : table[r] # None => table'[r] # None
    BY <1>12, <1>27
  <2>3. QED
    BY <1>3, <2>1, <2>2 DEF KnownStep
<1>29. (born + Reserved)' <= MaxEpisodes
  <2>1. todo[c].starts = {} /\ todo'[c].starts = {} /\ born' = born /\ born \in Nat
    BY <1>1, <1>3, <1>16 DEF ConnTyped, Nothing, RowsTyped
  <2>2. born' + Cardinality(todo'[c].starts) <= born + Cardinality(todo[c].starts) + 0
    BY <2>1, FS_EmptySet
  <2>3. QED
    BY <1>18, <2>1, <2>2, RoomLeft
<1>30. NothingLost(c)
  <2>1. ASSUME NEW r \in Known(c), r \notin R
        PROVE  r \in RowsIn(slots)
    <3>1. CASE r \in RowsIn(batch[c])
      BY <1>5, <1>6, <2>1, <3>1 DEF RowsIn
    <3>2. CASE r \in RowsIn(local[c])
      BY <1>5, <1>6, <1>8, <3>2 DEF RowsIn
    <3>3. CASE r \in RowsIn(own[c])
      BY <1>19, <3>3 DEF RowsIn
    <3>4. QED
      BY <2>1, <3>1, <3>2, <3>3 DEF Known, Held
  <2>2. \A r \in Rows : table'[r] # None => r \notin R /\ table[r] # None
    BY <1>12
  <2>3. QED
    BY <1>16, <1>26, <2>1, <2>2 DEF NothingLost
<1>31. QED
  BY <1>16, <1>18, <1>22, <1>23, <1>24, <1>25, <1>28, <1>29, <1>30 DEF OneStep, ConnInv


\* A step that leaves the rows as they are and what connection c knows.
LEMMA Quiet ==
  ASSUME RowsInv, NEW c \in Conns, Only(c), UNCHANGED <<rowVars, born>>,
         own'[c] \in {own[c], local[c]}, local'[c] = local[c], at'[c] # "gone",
         RowsIn(batch[c])' = {}, RowsIn(batch[c]) = {},
         ~(at'[c] \in {"end", "closing"}), todo'[c].starts = {}, todo[c].starts = {}
  PROVE  RowsTyped' /\ KnownStep(c) /\ (born + Reserved)' <= MaxEpisodes /\ NothingLost(c)
<1>1. RowsTyped /\ KnownRowsInv /\ ArraysAgree(c)
  BY Parts DEF InParts, ConnInv
<1>2. RowsIn(own[c]) \subseteq RowsIn(local[c])
  BY <1>1 DEF RowsIn, ArraysAgree
<1>3. RowsIn(local[c])' = RowsIn(local[c]) /\ RowsIn(own[c])' \subseteq RowsIn(local[c])
  BY <1>2 DEF RowsIn
<1>4. Known(c)' = Known(c)
  BY <1>2, <1>3 DEF Known, Held
<1>5. RowsTyped'
  BY <1>1 DEF RowsTyped, rowVars
<1>6. KnownStep(c)
  BY <1>1, <1>4 DEF KnownStep, KnownRowsInv, rowVars
<1>7. NothingLost(c)
  BY <1>4 DEF NothingLost, rowVars
<1>8. (born + Reserved)' <= MaxEpisodes
  <2>1. born' \in Nat /\ born' = born
    BY <1>1 DEF RowsTyped
  <2>2. born' + Cardinality(todo'[c].starts) <= born + Cardinality(todo[c].starts) + 0
    BY <2>1, FS_EmptySet
  <2>3. QED
    BY <2>1, <2>2, RoomLeft
<1>9. QED
  BY <1>5, <1>6, <1>7, <1>8

\* on_observation has returned or raised, or the wait is over.
LEMMA Observed ==
  ASSUME RowsInv, NEW c \in Conns,
         ObserveReturned(c) \/ ObserveRaised(c) \/ WaitDone(c)
  PROVE  OneStep(c) /\ NothingLost(c)
<1> USE RowsAssumption
<1>1. /\ ConnsTyped /\ RowsTyped /\ ObsTyped /\ KnownRowsInv
      /\ ConnTyped(c) /\ ArraysAgree(c) /\ BatchFits(c)
  BY Parts DEF InParts, ConnInv
<1>2. None \notin Rows
  BY DEF Rows, None
<1>3. RowsIn(NoRows) = {} /\ NoRows \in Batches
  BY <1>2 DEF RowsIn, NoRows, Batches
<1>4. /\ at[c] \in {"observe", "wait"} /\ RowsIn(batch[c]) = {}
      /\ todo[c] = Nothing /\ todo[c].starts = {}
      /\ UNCHANGED <<rowVars, born, closed, live, obsNo>>
  BY <1>1 DEF ObserveReturned, ObserveRaised, WaitDone, ConnTyped, obsVars
<1>5. ObsTyped'
  BY <1>1 DEF ObsTyped, ObserveReturned, ObserveRaised, WaitDone, obsVars, Unanswered
<1>6. CASE ObserveReturned(c) \/ ObserveRaised(c)
  <2>1. /\ at' = [at EXCEPT ![c] = IF live[c] THEN "read" ELSE "wait"]
        /\ UNCHANGED <<own, local, batch, todo>>
    BY <1>6 DEF ObserveReturned, ObserveRaised
  <2>2. at'[c] = IF live[c] THEN "read" ELSE "wait"
    BY <1>1, <2>1 DEF ConnsTyped
  <2>3. Only(c)
    BY <1>1, <1>4, <2>1 DEF Only, ConnsTyped
  <2>4. ConnTyped(c)'
    BY <1>1, <1>4, <2>1, <2>2 DEF ConnTyped, Stands
  <2>5. ArraysAgree(c)'
    BY <1>1, <1>4, <2>1, <2>2 DEF ArraysAgree
  <2>6. BatchFits(c)'
    BY <1>1, <2>1, <2>2 DEF BatchFits
  <2>7. RowsTyped' /\ KnownStep(c) /\ (born + Reserved)' <= MaxEpisodes /\ NothingLost(c)
    <3>1. /\ own'[c] = own[c] /\ local'[c] = local[c] /\ todo'[c].starts = {}
          /\ RowsIn(batch[c])' = {}
      BY <1>4, <2>1 DEF RowsIn
    <3>2. at'[c] # "gone" /\ at'[c] \notin {"end", "closing"}
      BY <2>2
    <3>3. QED
      BY <1>4, <2>3, <3>1, <3>2, Quiet
  <2>8. QED
    BY <1>5, <2>3, <2>4, <2>5, <2>6, <2>7 DEF OneStep, ConnInv
<1>7. CASE WaitDone(c)
  <2>1. DoneWith(c, local[c])
    BY <1>7 DEF WaitDone
  <2>2. /\ at'[c] = "read" /\ own'[c] = local[c] /\ local'[c] = local[c]
        /\ todo'[c] = Nothing /\ batch'[c] = NoRows
    BY <1>1, <2>1 DEF DoneWith, ConnsTyped
  <2>3. Only(c)
    BY <1>1, <1>4, <2>1, <2>2 DEF Only, ConnsTyped, DoneWith
  <2>4. RowsIn(batch[c])' = {}
    BY <1>3, <2>2 DEF RowsIn
  <2>5. ConnTyped(c)'
    BY <1>1, <1>3, <1>4, <2>2, <2>4 DEF ConnTyped, Stands, Nothing, Messages
  <2>6. ArraysAgree(c)'
    BY <1>1, <1>4, <2>2 DEF ArraysAgree
  <2>7. BatchFits(c)'
    BY <1>2, <2>2 DEF BatchFits, NoRows
  <2>8. RowsTyped' /\ KnownStep(c) /\ (born + Reserved)' <= MaxEpisodes /\ NothingLost(c)
    <3>1. todo'[c].starts = {}
      BY <2>2 DEF Nothing
    <3>2. QED
      BY <1>4, <2>2, <2>3, <2>4, <3>1, Quiet
  <2>9. QED
    BY <1>5, <2>3, <2>5, <2>6, <2>7, <2>8 DEF OneStep, ConnInv
<1>8. QED
  BY <1>6, <1>7

\* The handler goes to its finally, having released rows its array does not hold.
LEMMA Leaves ==
  ASSUME RowsInv, NEW c \in Conns, at[c] \in {"read", "observe", "wait", "start"},
         NEW R, R \subseteq Known(c), R \cap RowsIn(own[c]) = {},
         table' = Released(table, R), failed' = Cleared(failed, R), Leaving(c)
  PROVE  /\ OneStep(c)
         /\ RowsIn(local[c]) \subseteq RowsIn(own[c]) /\ RowsIn(batch[c]) \subseteq R
              => NothingLost(c)
<1> USE RowsAssumption
<1>1. /\ ConnsTyped /\ RowsTyped /\ ObsTyped /\ KnownRowsInv
      /\ ConnTyped(c) /\ ArraysAgree(c) /\ BatchFits(c)
  BY Parts DEF InParts, ConnInv
<1>2. None \notin Rows
  BY DEF Rows, None
<1>3. RowsIn(NoRows) = {} /\ NoRows \in Batches /\ NoRows \in Arrays
  BY <1>2 DEF RowsIn, NoRows, Batches, Arrays
<1>4. /\ todo' = [todo EXCEPT ![c] = Nothing] /\ UNCHANGED <<closed, live, obsVars, born>>
      /\ todo[c].starts = {}
  BY <1>1 DEF Leaving, ConnTyped
<1>5. todo'[c] = Nothing /\ todo'[c] \in Messages /\ todo'[c].starts = {} /\ todo'[c].obs = {}
  BY <1>1, <1>4 DEF ConnsTyped, Nothing, Messages
<1>6. /\ Tabled(table', born') /\ Cardinality(Used(table')) <= MaxRows
      /\ \A r \in Rows : table'[r] = IF r \in R THEN None ELSE table[r]
  BY <1>1, <1>4, ReleaseFacts DEF RowsTyped
<1>7. failed' \in [Rows -> BOOLEAN] /\ born' \in 0 .. MaxEpisodes /\ ObsTyped'
  BY <1>1, <1>4 DEF RowsTyped, Cleared, ObsTyped, obsVars
<1>8. \A r \in Known(c) : r \in Rows /\ table[r] # None
  BY <1>1 DEF KnownRowsInv, Known, Held, RowsIn
<1>9. \A r \in Rows \ Known(c) : table[r] # None => table'[r] # None
  BY <1>6
<1>10. CASE RowsIn(own[c]) = {}
  <2>1. Gone(c) /\ UNCHANGED <<gen, ending>>
    BY <1>10 DEF Leaving
  <2>2. at'[c] = "gone" /\ own'[c] = NoRows /\ local'[c] = NoRows /\ batch'[c] = NoRows
    BY <1>1, <2>1 DEF ConnsTyped, Gone
  <2>3. Only(c)
    BY <1>1, <1>4, <1>5, <2>1, <2>2 DEF Only, ConnsTyped, Gone, obsVars
  <2>4. RowsIn(batch[c])' = {} /\ RowsIn(own[c])' = {} /\ RowsIn(local[c])' = {}
    BY <1>3, <2>2 DEF RowsIn
  <2>5. ConnTyped(c)'
    BY <1>1, <1>3, <1>4, <1>5, <2>2, <2>4 DEF ConnTyped, Stands, obsVars
  <2>6. ArraysAgree(c)'
    BY <1>1, <1>2, <1>4, <2>2 DEF ArraysAgree, NoRows, None, Absent
  <2>7. BatchFits(c)'
    BY <1>2, <2>2 DEF BatchFits, NoRows
  <2>8. Known(c)' = {}
    BY <2>4 DEF Known, Held
  <2>9. KnownStep(c)
    BY <1>9, <2>1, <2>8 DEF KnownStep
  <2>10. RowsTyped'
    BY <1>1, <1>6, <1>7, <2>1 DEF RowsTyped
  <2>11. (born + Reserved)' <= MaxEpisodes
    <3>1. born' \in Nat /\ born' = born
      BY <1>1, <1>4 DEF RowsTyped
    <3>2. born' + Cardinality(todo'[c].starts) <= born + Cardinality(todo[c].starts) + 0
      BY <1>4, <1>5, <3>1, FS_EmptySet
    <3>3. QED
      BY <1>5, <2>3, <3>1, <3>2, RoomLeft
  <2>12. RowsIn(local[c]) \subseteq RowsIn(own[c]) /\ RowsIn(batch[c]) \subseteq R => NothingLost(c)
    BY <1>6, <1>10, <2>8 DEF NothingLost, Known, Held
  <2>13. QED
    BY <1>7, <2>3, <2>5, <2>6, <2>7, <2>9, <2>10, <2>11, <2>12 DEF OneStep, ConnInv
<1>11. CASE RowsIn(own[c]) # {}
  <2>1. /\ BeginEnd(c, own[c])
        /\ at' = [at EXCEPT ![c] = "closing"]
        /\ local' = [local EXCEPT ![c] = own[c]]
        /\ UNCHANGED own
    BY <1>11 DEF Leaving
  <2>2. at'[c] = "closing" /\ local'[c] = own[c] /\ own'[c] = own[c]
    BY <1>1, <2>1 DEF ConnsTyped
  <2>3. /\ ending' \in [Rows -> BOOLEAN] /\ gen' \in [Rows -> Nat]
        /\ \A r \in Rows : ending'[r] => ending[r] \/ r \in RowsIn(own[c])
        /\ batch' = [batch EXCEPT ![c] = batch'[c]] /\ batch'[c] \in Batches
        /\ \A s \in Slots : \A r \in Rows : batch'[c][s] = r <=> own[c][s] = r
        /\ RowsIn(batch[c])' = RowsIn(own[c])
    BY <2>1, EndBegins
  <2>4. Only(c)
    BY <1>1, <1>4, <1>5, <2>1, <2>2, <2>3 DEF Only, ConnsTyped, obsVars
  <2>5. ConnTyped(c)'
    BY <1>1, <1>4, <1>5, <1>11, <2>2, <2>3 DEF ConnTyped, Stands, obsVars
  <2>6. \A s, t \in Slots : s # t /\ own[c][s] \in Rows => own[c][s] # own[c][t]
    <3> SUFFICES ASSUME NEW s \in Slots, NEW t \in Slots, s # t, own[c][s] \in Rows,
                        own[c][s] = own[c][t]
                 PROVE  FALSE
      OBVIOUS
    <3>1. local[c][s] = own[c][s] /\ local[c][t] = own[c][t]
      BY <1>1 DEF ArraysAgree
    <3>2. QED
      BY <1>1, <3>1 DEF ArraysAgree
  <2>7. ArraysAgree(c)'
    BY <1>1, <1>4, <2>2, <2>6 DEF ArraysAgree
  <2>8. BatchFits(c)'
    BY <2>2, <2>3, <2>6 DEF BatchFits
  <2>9. Known(c)' = RowsIn(own[c])
    <3>1. RowsIn(own[c])' = RowsIn(own[c]) /\ RowsIn(local[c])' = RowsIn(own[c])
      BY <2>2 DEF RowsIn
    <3>2. QED
      BY <2>3, <3>1 DEF Known, Held
  <2>10. KnownStep(c)
    <3>1. \A r \in Known(c)' : r \in Known(c) /\ r \notin R
      BY <2>9 DEF Known, Held
    <3>2. \A r \in Known(c)' : table'[r] # None
      BY <1>6, <1>8, <3>1
    <3>3. QED
      BY <1>9, <2>2, <2>3, <3>1, <3>2 DEF KnownStep
  <2>11. RowsTyped'
    BY <1>6, <1>7, <2>3 DEF RowsTyped
  <2>12. (born + Reserved)' <= MaxEpisodes
    <3>1. born' \in Nat /\ born' = born
      BY <1>1, <1>4 DEF RowsTyped
    <3>2. born' + Cardinality(todo'[c].starts) <= born + Cardinality(todo[c].starts) + 0
      BY <1>4, <1>5, <3>1, FS_EmptySet
    <3>3. QED
      BY <1>5, <2>4, <3>1, <3>2, RoomLeft
  <2>13. RowsIn(local[c]) \subseteq RowsIn(own[c]) /\ RowsIn(batch[c]) \subseteq R => NothingLost(c)
    BY <1>6, <2>2, <2>9 DEF NothingLost, Known, Held
  <2>14. QED
    BY <1>7, <2>4, <2>5, <2>7, <2>8, <2>10, <2>11, <2>12, <2>13 DEF OneStep, ConnInv
<1>12. QED
  BY <1>10, <1>11

\* on_episode_end has returned, and the handler with it.
LEMMA Closed ==
  ASSUME RowsInv, NEW c \in Conns, ClosingReturned(c)
  PROVE  OneStep(c) /\ NothingLost(c)
<1> USE RowsAssumption
<1> DEFINE R == RowsIn(batch[c])
<1>1. /\ ConnsTyped /\ RowsTyped /\ ObsTyped /\ KnownRowsInv
      /\ ConnTyped(c) /\ ArraysAgree(c) /\ BatchFits(c)
  BY Parts DEF InParts, ConnInv
<1>2. /\ at[c] = "closing" /\ table' = Released(table, R)
      /\ ending' = Cleared(ending, R) /\ failed' = Cleared(failed, R)
      /\ Gone(c) /\ UNCHANGED <<gen, closed, live, todo, obsVars, born>>
  BY DEF ClosingReturned
<1>3. None \notin Rows
  BY DEF Rows, None
<1>4. RowsIn(NoRows) = {} /\ NoRows \in Batches /\ NoRows \in Arrays
  BY <1>3 DEF RowsIn, NoRows, Batches, Arrays
<1>5. RowsIn(own[c]) \subseteq R /\ RowsIn(local[c]) \subseteq R
  BY <1>1, <1>2 DEF BatchFits, ArraysAgree, RowsIn
<1>6. Known(c) = R
  BY <1>5 DEF Known, Held
<1> HIDE DEF R
<1>7. /\ Tabled(table', born') /\ Cardinality(Used(table')) <= MaxRows
      /\ \A r \in Rows : table'[r] = IF r \in R THEN None ELSE table[r]
  BY <1>1, <1>2, ReleaseFacts DEF RowsTyped
<1>8. at'[c] = "gone" /\ own'[c] = NoRows /\ local'[c] = NoRows /\ batch'[c] = NoRows
  BY <1>1, <1>2 DEF ConnsTyped, Gone
<1>9. Only(c)
  BY <1>1, <1>2, <1>8 DEF Only, ConnsTyped, Gone, obsVars
<1>10. RowsIn(batch[c])' = {} /\ RowsIn(own[c])' = {} /\ RowsIn(local[c])' = {}
  BY <1>4, <1>8 DEF RowsIn
<1>11. todo[c] = Nothing /\ todo[c].starts = {}
  BY <1>1, <1>2 DEF ConnTyped
<1>12. ConnTyped(c)'
  BY <1>1, <1>2, <1>4, <1>8, <1>10, <1>11 DEF ConnTyped, Stands, obsVars
<1>13. ArraysAgree(c)'
  BY <1>1, <1>2, <1>3, <1>8 DEF ArraysAgree, NoRows, None, Absent
<1>14. BatchFits(c)'
  BY <1>3, <1>8 DEF BatchFits, NoRows
<1>15. Known(c)' = {}
  BY <1>10 DEF Known, Held
<1>16. KnownStep(c)
  <2>1. \A r \in Rows : ending'[r] => ending[r] /\ r \notin R
    BY <1>2 DEF Cleared
  <2>2. QED
    BY <1>6, <1>7, <1>15, <2>1 DEF KnownStep, R
<1>17. RowsTyped' /\ ObsTyped'
  BY <1>1, <1>2, <1>7 DEF RowsTyped, Cleared, ObsTyped, obsVars
<1>18. (born + Reserved)' <= MaxEpisodes
  <2>1. born' \in Nat /\ born' = born /\ todo'[c].starts = {}
    BY <1>1, <1>2, <1>11 DEF RowsTyped
  <2>2. born' + Cardinality(todo'[c].starts) <= born + Cardinality(todo[c].starts) + 0
    BY <1>11, <2>1, FS_EmptySet
  <2>3. QED
    BY <1>9, <2>1, <2>2, RoomLeft
<1>19. NothingLost(c)
  BY <1>6, <1>7, <1>15 DEF NothingLost
<1>20. QED
  BY <1>9, <1>12, <1>13, <1>14, <1>16, <1>17, <1>18, <1>19 DEF OneStep, ConnInv


\* A connection closes.
LEMMA Disconnects ==
  ASSUME RowsInv, NEW c \in Conns, Disconnect(c)
  PROVE  OneStep(c) /\ NothingLost(c)
<1>1. /\ ConnsTyped /\ RowsTyped /\ ObsTyped /\ KnownRowsInv
      /\ ConnTyped(c) /\ ArraysAgree(c) /\ BatchFits(c)
  BY Parts DEF InParts, ConnInv
<1>2. /\ at[c] # "gone" /\ closed' = [closed EXCEPT ![c] = TRUE]
      /\ UNCHANGED <<rowVars, at, live, own, local, batch, todo, obsVars, born>>
  BY DEF Disconnect
<1>3. Only(c) /\ closed'[c] \in BOOLEAN
  BY <1>1, <1>2 DEF Only, ConnsTyped, obsVars
<1>4. Known(c)' = Known(c) /\ RowsIn(batch[c])' = RowsIn(batch[c])
  BY <1>2 DEF Known, Held, RowsIn
<1>5. ConnTyped(c)' /\ ArraysAgree(c)' /\ BatchFits(c)'
  BY <1>1, <1>2, <1>3, <1>4 DEF ConnTyped, ArraysAgree, BatchFits, obsVars
<1>6. RowsTyped' /\ ObsTyped'
  BY <1>1, <1>2 DEF RowsTyped, ObsTyped, rowVars, obsVars
<1>7. at[c] \in {"end", "closing"} <=> at'[c] \in {"end", "closing"}
  BY <1>2
<1>8. KnownStep(c)
  BY <1>1, <1>2, <1>4, <1>7 DEF KnownStep, KnownRowsInv, rowVars
<1>9. (born + Reserved)' <= MaxEpisodes
  <2>1. Reserved' = Reserved /\ born' = born
    BY <1>2 DEF Reserved
  <2>2. born + Reserved <= MaxEpisodes
    BY Parts DEF InParts
  <2>3. QED
    BY <2>1, <2>2
<1>10. NothingLost(c)
  BY <1>2, <1>4 DEF NothingLost, rowVars
<1>11. QED
  BY <1>3, <1>5, <1>6, <1>8, <1>9, <1>10 DEF OneStep, ConnInv

\* The handler goes to its finally, by any of the ways there. Rows are lost only
\* where a vector client's handler is cancelled or raises.
LEMMA LeavesAnyhow ==
  ASSUME RowsInv, NEW c \in Conns,
         Leave(c) \/ Cancel(c) \/ CancelStart(c) \/ ReplyRaises(c)
  PROVE  /\ OneStep(c)
         /\ VectorConns \cap (Cancellable \cup Unfit) = {} => NothingLost(c)
<1> USE RowsAssumption
<1>1. /\ ConnsTyped /\ RowsTyped /\ ObsTyped /\ KnownRowsInv
      /\ ConnTyped(c) /\ ArraysAgree(c) /\ BatchFits(c)
  BY Parts DEF InParts, ConnInv
<1>2. (at[c] = "read" \/ c \notin VectorConns) => RowsIn(local[c]) \subseteq RowsIn(own[c])
  BY <1>1 DEF ArraysAgree, RowsIn
<1>3. CASE Leave(c) \/ Cancel(c) \/ ReplyRaises(c)
  <2>1. at[c] \in {"read", "observe", "wait"} /\ Leaving(c) /\ UNCHANGED <<table, failed>>
    BY <1>3 DEF Leave, Cancel, ReplyRaises
  <2>2. table' = Released(table, {}) /\ failed' = Cleared(failed, {})
    BY <1>1, <2>1 DEF RowsTyped, Tabled, Released, Cleared
  <2>3. RowsIn(batch[c]) \subseteq {}
    BY <1>1, <2>1 DEF ConnTyped
  <2>4. /\ OneStep(c)
        /\ RowsIn(local[c]) \subseteq RowsIn(own[c]) /\ RowsIn(batch[c]) \subseteq {} => NothingLost(c)
    BY <2>1, <2>2, Leaves
  <2>5. VectorConns \cap (Cancellable \cup Unfit) = {} => at[c] = "read" \/ c \notin VectorConns
    BY <1>3 DEF Leave, Cancel, ReplyRaises
  <2>6. QED
    BY <1>2, <2>3, <2>4, <2>5
<1>4. CASE CancelStart(c)
  <2> DEFINE R == RowsIn(batch[c])
  <2>1. /\ c \in Cancellable /\ at[c] = "start" /\ Leaving(c)
        /\ table' = Released(table, R) /\ failed' = Cleared(failed, R)
    BY <1>4 DEF CancelStart
  <2>2. R \subseteq Known(c)
    BY DEF Known, Held
  <2>3. R \cap RowsIn(own[c]) = {}
    BY <1>1, <2>1 DEF RowsIn, BatchFits, ArraysAgree
  <2> HIDE DEF R
  <2>4. /\ OneStep(c)
        /\ RowsIn(local[c]) \subseteq RowsIn(own[c]) /\ RowsIn(batch[c]) \subseteq R => NothingLost(c)
    BY <2>1, <2>2, <2>3, Leaves
  <2>5. VectorConns \cap (Cancellable \cup Unfit) = {} => c \notin VectorConns
    BY <2>1
  <2>6. QED
    BY <1>2, <2>4, <2>5 DEF R
<1>5. QED
  BY <1>3, <1>4

\* A message is read, which decides whether the handler is live.
MessageRead(c, m) ==
  /\ m.starts \in SUBSET Slots /\ m.obs \in SUBSET Slots
  /\ live' = [live EXCEPT ![c] = live'[c]] /\ live'[c] \in BOOLEAN
  /\ c \in VectorConns => ~live'[c]
  /\ Handle(c, m)

\* A message of any kind is read as Handle reads one.
LEMMA AnyMessage ==
  ASSUME RowsInv, NEW c \in Conns,
         ReadStart(c) \/ ReadObservation(c) \/ ReadEnd(c) \/ ReadVectorStep(c)
  PROVE  \E m : MessageRead(c, m)
<1> USE RowsAssumption
<1>1. ConnsTyped /\ ConnTyped(c) /\ ArraysAgree(c)
  BY Parts DEF InParts, ConnInv
<1>2. 0 \in Slots
  BY DEF Slots
<1>3. UNCHANGED live => /\ live' = [live EXCEPT ![c] = live'[c]] /\ live'[c] \in BOOLEAN
                        /\ c \in VectorConns => ~live'[c]
  BY <1>1 DEF ConnsTyped, ConnTyped, ArraysAgree
<1>4. CASE ReadStart(c)
  <2>1. PICK l \in BOOLEAN : live' = [live EXCEPT ![c] = l]
    BY <1>4 DEF ReadStart
  <2>2. live' = [live EXCEPT ![c] = live'[c]] /\ live'[c] \in BOOLEAN
    BY <1>1, <2>1 DEF ConnsTyped
  <2> DEFINE m == [ends |-> {0}, starts |-> {0}, obs |-> {}]
  <2>3. Handle(c, m) /\ c \notin VectorConns
    BY <1>4 DEF ReadStart
  <2>4. m.starts \in SUBSET Slots /\ m.obs \in SUBSET Slots
    BY <1>2
  <2> HIDE DEF m
  <2>5. QED
    BY <2>2, <2>3, <2>4 DEF MessageRead
<1>5. CASE ReadObservation(c)
  <2>1. live' = [live EXCEPT ![c] = live[c] /\ own[c][0] # None]
    BY <1>5 DEF ReadObservation
  <2>2. live' = [live EXCEPT ![c] = live'[c]] /\ live'[c] \in BOOLEAN
    BY <1>1, <2>1 DEF ConnsTyped, ConnTyped
  <2> DEFINE m == [ends |-> {}, starts |-> IF own[c][0] = None THEN {0} ELSE {}, obs |-> {0}]
  <2>3. Handle(c, m) /\ c \notin VectorConns
    BY <1>5 DEF ReadObservation
  <2>4. m.starts \in SUBSET Slots /\ m.obs \in SUBSET Slots
    BY <1>2
  <2> HIDE DEF m
  <2>5. QED
    BY <2>2, <2>3, <2>4 DEF MessageRead
<1>6. CASE ReadEnd(c)
  <2> DEFINE m == [ends |-> {0}, starts |-> {}, obs |-> {}]
  <2>1. Handle(c, m) /\ UNCHANGED live
    BY <1>6 DEF ReadEnd
  <2>2. m.starts \in SUBSET Slots /\ m.obs \in SUBSET Slots
    OBVIOUS
  <2> HIDE DEF m
  <2>3. QED
    BY <1>3, <2>1, <2>2 DEF MessageRead
<1>7. CASE ReadVectorStep(c)
  <2>1. PICK S \in SUBSET Slots, O \in SUBSET Slots :
          \E E \in SUBSET {s \in Slots \ S : own[c][s] \in Rows} :
            Handle(c, [ends |-> E, starts |-> S, obs |-> O])
    BY <1>7 DEF ReadVectorStep
  <2>2. PICK E \in SUBSET {s \in Slots \ S : own[c][s] \in Rows} :
          Handle(c, [ends |-> E, starts |-> S, obs |-> O])
    BY <2>1
  <2> DEFINE m == [ends |-> E, starts |-> S, obs |-> O]
  <2>3. Handle(c, m) /\ UNCHANGED live
    BY <1>7, <2>2 DEF ReadVectorStep
  <2>4. m.starts \in SUBSET Slots /\ m.obs \in SUBSET Slots
    OBVIOUS
  <2> HIDE DEF m
  <2>5. QED
    BY <1>3, <2>3, <2>4 DEF MessageRead
<1>8. QED
  BY <1>4, <1>5, <1>6, <1>7

LEMMA Reads ==
  ASSUME RowsInv, NEW c \in Conns,
         ReadStart(c) \/ ReadObservation(c) \/ ReadEnd(c) \/ ReadVectorStep(c)
  PROVE  OneStep(c) /\ NothingLost(c)
<1>1. PICK m : MessageRead(c, m)
  BY AnyMessage
<1>2. QED
  BY <1>1, Handling DEF MessageRead

\* The steps of a connection, as Next has them.
ConnSteps(c) ==
  \/ ReadStart(c) \/ ReadObservation(c) \/ ReadEnd(c) \/ ReadVectorStep(c)
  \/ Handler(c)
  \/ Disconnect(c) \/ Cancel(c) \/ CancelStart(c) \/ ReplyRaises(c)

LEMMA ConnStepsKeep ==
  ASSUME RowsInv, NEW c \in Conns, ConnSteps(c)
  PROVE  /\ OneStep(c)
         /\ VectorConns \cap (Cancellable \cup Unfit) = {} => NothingLost(c)
<1>1. CASE ReadStart(c) \/ ReadObservation(c) \/ ReadEnd(c) \/ ReadVectorStep(c)
  BY <1>1, Reads
<1>2. CASE EndReturned(c)
  BY <1>2, Ended
<1>3. CASE StartReturned(c)
  BY <1>3, Started
<1>4. CASE ObserveReturned(c) \/ ObserveRaised(c) \/ WaitDone(c)
  BY <1>4, Observed
<1>5. CASE Leave(c) \/ Cancel(c) \/ CancelStart(c) \/ ReplyRaises(c)
  BY <1>5, LeavesAnyhow
<1>6. CASE ClosingReturned(c)
  BY <1>6, Closed
<1>7. CASE Disconnect(c)
  BY <1>7, Disconnects
<1>8. QED
  BY <1>1, <1>2, <1>3, <1>4, <1>5, <1>6, <1>7 DEF ConnSteps, Handler

-----------------------------------------------------------------------------
(* The server's steps, and all of them.                                    *)

\* An answer or a failed episode leaves the connections and the table alone.
LEMMA ServerSteps ==
  ASSUME RowsInv, (\E a \in asks : Answer(a)) \/ (\E r \in Rows : FailEpisode(r))
  PROVE  RowsInv' /\ UNCHANGED <<connVars, table, obsNo, born>>
<1> USE RowsAssumption
<1>1. /\ ConnsTyped /\ RowsTyped /\ ObsTyped /\ KnownRowsInv
      /\ \A c \in Conns : ConnInv(c)
      /\ born + Reserved <= MaxEpisodes
  BY Parts DEF InParts
<1>2. /\ UNCHANGED <<connVars, table, obsNo, born>> /\ UNCHANGED <<asks, ending>>
  BY DEF Answer, FailEpisode, rowVars
<1>3. ConnsTyped' /\ \A c \in Conns : ConnInv(c)'
  BY <1>1, <1>2 DEF connVars, ConnsTyped, ConnInv, ConnTyped, ArraysAgree, BatchFits, RowsIn
<1>4. KnownRowsInv'
  BY <1>1, <1>2 DEF connVars, KnownRowsInv, Known, Held, RowsIn
<1>5. gen' \in [Rows -> Nat] /\ failed' \in [Rows -> BOOLEAN]
  <2>1. CASE \E a \in asks : Answer(a)
    BY <1>1, <2>1 DEF RowsTyped, Answer, rowVars
  <2>2. CASE \E r \in Rows : FailEpisode(r)
    <3>1. PICK r \in Rows : /\ failed' = [failed EXCEPT ![r] = TRUE]
                            /\ gen' = [gen EXCEPT ![r] = gen[r] + 1]
      BY <2>2 DEF FailEpisode
    <3>2. QED
      BY <1>1, <3>1 DEF RowsTyped
  <2>3. QED
    BY <2>1, <2>2
<1>6. RowsTyped'
  BY <1>1, <1>2, <1>5 DEF RowsTyped
<1>7. answered' \subseteq asks /\ answered \subseteq answered' /\ acted' \subseteq answered'
  BY <1>1 DEF ObsTyped, Answer, FailEpisode, Unanswered, Claimable
<1>8. ObsTyped'
  BY <1>1, <1>2, <1>7 DEF ObsTyped
<1>9. (born + Reserved <= MaxEpisodes)'
  BY <1>1, <1>2 DEF Reserved, connVars
<1>10. InParts'
  BY <1>3, <1>4, <1>6, <1>8, <1>9 DEF InParts
<1>11. QED
  BY <1>2, <1>10, Parts, PTL

LEMMA RowsInvInit == Init => RowsInv /\ NoRowLost
<1> SUFFICES ASSUME Init
             PROVE  RowsInv /\ NoRowLost
  OBVIOUS
<1> USE RowsAssumption
<1>1. None \notin Rows /\ Absent \notin Rows
  BY DEF Rows, None, Absent
<1>2. \A c \in Conns : Known(c) = {} /\ RowsIn(batch[c]) = {}
  BY <1>1 DEF Init, Known, Held, RowsIn, NoRows
<1>3. Used(table) = {}
  BY DEF Used, Init
<1>4. RowsTyped
  BY <1>3, FS_EmptySet DEF RowsTyped, Tabled, Init
<1>5. {p \in Conns \X Slots : p[2] \in todo[p[1]].starts} = {}
  BY DEF Init, Nothing
<1>6. born + Reserved <= MaxEpisodes
  <2>1. Reserved = 0
    BY <1>5, FS_EmptySet DEF Reserved
  <2>2. QED
    BY <2>1 DEF Init
<1>7. ConnsTyped
  BY DEF ConnsTyped, Init
<1>8. ASSUME NEW c \in Conns
      PROVE  ConnInv(c)
  <2>1. own[c] \in Arrays /\ local[c] = own[c] /\ \A s \in Slots : own[c][s] \notin Rows
    BY <1>1 DEF Init, Arrays
  <2>2. batch[c] \in Batches /\ todo[c] \in Messages /\ \A s \in Slots : batch[c][s] \notin Rows
    BY <1>1 DEF Init, NoRows, Nothing, Batches, Messages
  <2>3. ConnTyped(c)
    BY <1>2, <2>1, <2>2 DEF ConnTyped, Init, Nothing, Stands
  <2>4. ArraysAgree(c)
    BY <2>1 DEF ArraysAgree, Init, None, Absent
  <2>5. BatchFits(c)
    BY <2>2 DEF BatchFits, Init
  <2>6. QED
    BY <2>3, <2>4, <2>5 DEF ConnInv
<1>9. KnownRowsInv
  BY <1>2 DEF KnownRowsInv, Init
<1>10. ObsTyped
  BY DEF ObsTyped, Init
<1>11. RowsInv
  BY <1>4, <1>6, <1>7, <1>8, <1>9, <1>10, Parts DEF InParts
<1>12. NoRowLost
  BY <1>2 DEF NoRowLost, Init
<1>13. QED
  BY <1>11, <1>12

LEMMA RowsInvNext == RowsInv /\ [Next]_vars => RowsInv'
<1> SUFFICES ASSUME RowsInv, [Next]_vars
             PROVE  RowsInv'
  OBVIOUS
<1>1. CASE \E c \in Conns : ConnSteps(c)
  <2>1. PICK c \in Conns : ConnSteps(c)
    BY <1>1
  <2>2. OneStep(c)
    BY <2>1, ConnStepsKeep
  <2>3. QED
    BY <2>2, StepOfOne DEF OneStep
<1>2. CASE (\E a \in asks : Answer(a)) \/ (\E r \in Rows : FailEpisode(r))
  BY <1>2, ServerSteps
<1>3. CASE UNCHANGED vars
  BY <1>3 DEF vars, rowVars, connVars, obsVars, RowsInv, TypeOK, MessageInv, EpisodesInv,
              HandlersInv, RowsWithinLimit, Reserved, ArraysAgree, BatchFits, KnownRowsInv,
              Known, Held, RowsIn
<1>4. QED
  BY <1>1, <1>2, <1>3 DEF Next, ConnSteps

\* Where no vector client's handler is cancelled or raises, no step loses a row.
LEMMA NoRowLostNext ==
  ASSUME VectorConns \cap (Cancellable \cup Unfit) = {}, RowsInv, NoRowLost, [Next]_vars
  PROVE  NoRowLost'
<1>1. CASE \E c \in Conns : ConnSteps(c)
  <2>1. PICK c \in Conns : ConnSteps(c)
    BY <1>1
  <2>2. OneStep(c) /\ NothingLost(c)
    BY <2>1, ConnStepsKeep
  <2>3. \A d \in Conns \ {c} : at'[d] = at[d] /\ Known(d)' = Known(d)
    <3>1. ConnsTyped
      BY Parts DEF InParts
    <3>2. QED
      BY <2>2, <3>1, OthersKeep DEF OneStep, Known, Held, RowsIn
  <2>4. \A d \in Conns : at'[d] = "gone" => Known(d)' = {}
    BY <2>2, <2>3 DEF NothingLost, NoRowLost
  <2>5. ASSUME NEW r \in Rows, table'[r] # None
        PROVE  \E d \in Conns : r \in Known(d)'
    <3>1. CASE table[r] = None \/ r \in Known(c)
      BY <2>2, <2>5, <3>1 DEF NothingLost
    <3>2. CASE table[r] # None /\ r \notin Known(c)
      <4>1. PICK d \in Conns : r \in Known(d)
        BY <3>2 DEF NoRowLost
      <4>2. QED
        BY <2>3, <3>2, <4>1
    <3>3. QED
      BY <3>1, <3>2
  <2>6. QED
    BY <2>4, <2>5 DEF NoRowLost
<1>2. CASE (\E a \in asks : Answer(a)) \/ (\E r \in Rows : FailEpisode(r))
  <2>1. UNCHANGED <<connVars, table>>
    BY <1>2, ServerSteps
  <2>2. QED
    BY <2>1 DEF NoRowLost, connVars, Known, Held, RowsIn
<1>3. CASE UNCHANGED vars
  BY <1>3 DEF vars, rowVars, connVars, NoRowLost, Known, Held, RowsIn
<1>4. QED
  BY <1>1, <1>2, <1>3 DEF Next, ConnSteps

-----------------------------------------------------------------------------
(* The theorems.                                                           *)

\* The inductive invariant holds for any connections, clients that close, are
\* cancelled or send what they like, and any failures: every array and batch of
\* _handle_connection and _vector_step has rows of its own, whose episodes are
\* running or being ended by its handler only.
THEOREM RowsInvariant == Spec => []RowsInv
<1>1. Init => RowsInv
  BY RowsInvInit
<1>2. RowsInv /\ [Next]_vars => RowsInv'
  BY RowsInvNext
<1>3. QED
  BY <1>1, <1>2, PTL DEF Spec

\* Every variable of the rows and the handlers keeps its type, a batch is of a
\* callback being awaited, and a message has something left only while its ends or
\* starts are under way (_vector_step, _handle_connection, serve.py).
THEOREM TypeCorrect == Spec => []TypeOK
<1>1. RowsInv => TypeOK
  BY DEF RowsInv
<1>2. QED
  BY <1>1, RowsInvariant, PTL

\* No more than max_rows episodes run at once, though the slots of a message start
\* together and ends and starts await callbacks in between (_start_episodes, base.py).
THEOREM WithinLimit == Spec => []RowsWithinLimit
<1>1. RowsInv => RowsWithinLimit
  BY DEF RowsInv
<1>2. QED
  BY <1>1, RowsInvariant, PTL

\* The rows are not lost track of either, where no vector client's handler is
\* cancelled or raises on its replies.
LEMMA NoneLost ==
  VectorConns \cap (Cancellable \cup Unfit) = {} /\ Spec => []NoRowLost
<1> SUFFICES ASSUME VectorConns \cap (Cancellable \cup Unfit) = {}
             PROVE  Spec => []NoRowLost
  OBVIOUS
<1>1. Init => NoRowLost
  BY RowsInvInit
<1>2. RowsInv /\ NoRowLost /\ [Next]_vars => NoRowLost'
  BY NoRowLostNext
<1>3. QED
  BY <1>1, <1>2, RowsInvariant, PTL DEF Spec

\* A row with an episode is known to one handler, once, and a handler knows of no
\* free row, where no vector client's handler is cancelled or raises on its replies
\* (rows are handed out again while other handlers await callbacks: _alloc, _release,
\* base.py; _vector_step, serve.py).
THEOREM OneOwner ==
  VectorConns \cap (Cancellable \cup Unfit) = {} /\ Spec => []RowsHaveOneOwner
<1> SUFFICES ASSUME RowsInv, NoRowLost
             PROVE  RowsHaveOneOwner
  BY NoneLost, RowsInvariant, PTL
<1>1. KnownRowsInv /\ \A c \in Conns : ArraysAgree(c)
  BY Parts DEF InParts, ConnInv
<1>2. ASSUME NEW r \in Rows
      PROVE  Cardinality({c \in Conns : r \in Known(c)}) = (IF table[r] = None THEN 0 ELSE 1)
  <2>1. CASE table[r] = None
    <3>1. {c \in Conns : r \in Known(c)} = {}
      BY <1>1, <2>1 DEF KnownRowsInv
    <3>2. QED
      BY <2>1, <3>1, FS_EmptySet
  <2>2. CASE table[r] # None
    <3>1. PICK c \in Conns : r \in Known(c)
      BY <2>2 DEF NoRowLost
    <3>2. {d \in Conns : r \in Known(d)} = {c}
      BY <1>1, <3>1 DEF KnownRowsInv
    <3>3. QED
      BY <2>2, <3>2, FS_Singleton
  <2>3. QED
    BY <2>1, <2>2
<1>3. ASSUME NEW c \in Conns, NEW s \in Slots, NEW t \in Slots, s # t
      PROVE  /\ own[c][s] \in Rows => own[c][s] # own[c][t]
             /\ local[c][s] \in Rows => local[c][s] # local[c][t]
  <2>1. local[c][s] \in Rows => local[c][s] # local[c][t]
    BY <1>1, <1>3 DEF ArraysAgree
  <2>2. ASSUME own[c][s] \in Rows, own[c][s] = own[c][t]
        PROVE  FALSE
    <3>1. local[c][s] = own[c][s] /\ local[c][t] = own[c][t]
      BY <1>1, <2>2 DEF ArraysAgree
    <3>2. QED
      BY <2>1, <2>2, <3>1
  <2>3. QED
    BY <2>1, <2>2
<1>4. QED
  BY <1>2, <1>3 DEF RowsHaveOneOwner

\* Under the same condition a disconnect ends its episodes: a row with an episode
\* is one that a handler still there will end. rows_lost shows the condition needed
\* (_vector_step's longer array, serve.py).
THEOREM DisconnectEnds ==
  VectorConns \cap (Cancellable \cup Unfit) = {} /\ Spec => []DisconnectEndsItsEpisodes
<1> SUFFICES ASSUME NoRowLost
             PROVE  DisconnectEndsItsEpisodes
  BY NoneLost, PTL
<1>1. QED
  BY DEF NoRowLost, DisconnectEndsItsEpisodes


-----------------------------------------------------------------------------
(* What a step does to rows and observations, as the callbacks see it.     *)

\* The rows in on_episode_start for connection c.
StartBatch(c) == IF at[c] = "start" THEN RowsIn(batch[c]) ELSE {}

\* A step of connection c releases the rows Rel, books the rows New, and begins
\* the end of the rows End.
RowMoves(c, Rel, New, End) ==
  /\ Rel \subseteq Known(c) /\ End \subseteq Known(c) \ Rel /\ New \subseteq Rows \ End
  /\ \A r \in Rel : ending[r] \/ r \in StartBatch(c)
  /\ \A r \in End : ~ending[r] /\ r \notin StartBatch(c)
  /\ \A r \in New : table[r] = None \/ r \in Rel
  /\ \A r \in New : table'[r] \in born + 1 .. born'
  /\ \A e \in born + 1 .. born' : \E r \in New : table'[r] = e
  /\ \A r \in Rows \ New : table'[r] = IF r \in Rel THEN None ELSE table[r]
  /\ \A r \in Rows : ending'[r] <=> (ending[r] /\ r \notin Rel) \/ r \in End
  /\ \A r \in Rows : failed'[r] <=> failed[r] /\ r \notin Rel
  /\ \A r \in Rows : gen'[r] = IF r \in New \cup End THEN gen[r] + 1 ELSE gen[r]
  /\ StartBatch(c)' = New
  /\ at'[c] \in {"end", "closing"} => RowsIn(batch[c])' = End
  /\ born <= born'

\* Connection c observes on rows of R, those of failed episodes answered at once.
AskedOf(c, R) ==
  /\ asks \subseteq asks' /\ answered \subseteq answered'
  /\ obsNo'[c] \in {obsNo[c], obsNo[c] + 1}
  /\ \A a \in asks' \ asks :
       /\ a.conn = c /\ a.no = obsNo'[c] /\ obsNo'[c] = obsNo[c] + 1
       /\ a.row \in R /\ a.episode = table'[a.row] /\ a.gen = gen'[a.row]
       /\ failed[a.row] => a \in answered'
       /\ at'[c] \in {"read", "observe", "wait"}
  /\ \A a \in answered' \ answered : a \in asks' \ asks /\ failed[a.row]

\* What a step of connection c does to the observations.
AsksStep(c) ==
  /\ asks \subseteq asks' /\ answered \subseteq answered'
  /\ obsNo'[c] \in {obsNo[c], obsNo[c] + 1}
  /\ \A a \in asks' \ asks :
       /\ a.conn = c /\ a.no = obsNo'[c]
       /\ a.row \in Known(c)' /\ a.episode = table'[a.row] /\ a.gen = gen'[a.row]
       /\ failed'[a.row] => a \in answered'
       /\ at'[c] \in {"read", "observe", "wait"}
  /\ \A a \in answered' \ answered :
       /\ a \in asks'
       /\ a \in asks => Claimable(a)
       /\ a \notin asks => failed'[a.row]

\* The observations of a step that leaves the table it has made.
LEMMA ObserveAsks ==
  ASSUME ConnsTyped, ObsTyped, AsksInv, NEW c \in Conns, ConnTyped(c),
         NEW slots \in Arrays, NEW kept, NEW S \in SUBSET Slots,
         gen' = gen, Observe(c, table', slots, S, kept)
  PROVE  AskedOf(c, RowsIn(slots)) /\ StartBatch(c)' = {}
<1> DEFINE running == {s \in S : slots[s] \in Rows}
           new == AsksOf(c, table', slots, running)
           bad == {a \in new : failed[a.row]}
<1>1. CASE running = {}
  <2>1. DoneWith(c, slots) /\ UNCHANGED obsVars
    BY <1>1 DEF Observe
  <2>2. at'[c] = "read"
    BY <2>1 DEF DoneWith, ConnsTyped
  <2>3. QED
    BY <2>1, <2>2 DEF AskedOf, obsVars, StartBatch
<1>2. CASE running # {}
  <2>1. /\ asks' = asks \cup new
        /\ answered' = answered \cup bad
        /\ obsNo' = [obsNo EXCEPT ![c] = obsNo[c] + 1]
        /\ at' = [at EXCEPT ![c] = IF bad # new THEN "observe" ELSE IF live[c] THEN "read" ELSE "wait"]
    BY <1>2 DEF Observe
  <2>2. \A a \in new : /\ a.conn = c /\ a.no = obsNo[c] + 1
                      /\ a.row \in RowsIn(slots) /\ a.episode = table'[a.row] /\ a.gen = gen[a.row]
    BY DEF AsksOf, RowsIn
  <2> HIDE DEF new, running
  <2>3. obsNo'[c] = obsNo[c] + 1 /\ obsNo[c] \in Nat /\ at'[c] \in {"read", "observe", "wait"}
    BY <2>1, RowsAssumption DEF ConnsTyped, ConnTyped
  <2>4. \A a \in new : a \notin asks
    BY <2>2, <2>3 DEF AsksInv
  <2>5. \A a \in asks' \ asks : a \in new
    BY <2>1
  <2>6. \A a \in answered' \ answered : a \in asks' \ asks /\ failed[a.row]
    BY <2>1, <2>4
  <2>7. \A a \in new : failed[a.row] => a \in answered'
    BY <2>1
  <2>8. asks \subseteq asks' /\ answered \subseteq answered'
    BY <2>1
  <2>9. AskedOf(c, RowsIn(slots))
    BY <2>2, <2>3, <2>5, <2>6, <2>7, <2>8 DEF AskedOf
  <2>10. QED
    BY <2>3, <2>9 DEF StartBatch
<1>3. QED
  BY <1>1, <1>2

\* A step that starts or observes books free rows for the next episodes, or
\* observes on the rows of its array.
LEMMA StartMoves ==
  ASSUME RowsInv, AsksInv, NEW c \in Conns, NEW tab, NEW slots, NEW m, Ready(c, tab, slots, m),
         StartThenObserve(c, tab, slots, m)
  PROVE  \E New \in SUBSET Unused(tab) :
           /\ \A r \in New : table'[r] \in born + 1 .. born'
           /\ \A e \in born + 1 .. born' : \E r \in New : table'[r] = e
           /\ \A r \in Rows \ New : table'[r] = tab[r]
           /\ \A r \in Rows : gen'[r] = IF r \in New THEN gen[r] + 1 ELSE gen[r]
           /\ StartBatch(c)' = New
           /\ born <= born'
           /\ AskedOf(c, RowsIn(slots))
<1> USE RowsAssumption
<1> DEFINE grown == Grown(slots, m.starts)
           A == Admitted(tab, m.starts)
           new == NewRows(tab, A)
           R == RowsIn(new)
<1>1. ConnsTyped /\ RowsTyped /\ ObsTyped /\ ConnTyped(c)
  BY Parts DEF InParts, ConnInv
<1>2. grown \in Arrays /\ RowsIn(grown) = RowsIn(slots)
  BY GrownFacts DEF Ready
<1>3. born \in Nat /\ m.starts \in SUBSET Slots /\ m.obs \in SUBSET Slots
  BY <1>1 DEF RowsTyped, Ready, Messages
<1>4. CASE A = {}
  <2>1. Observe(c, tab, grown, m.obs, slots) /\ table' = tab /\ UNCHANGED <<gen, born>>
    BY <1>4 DEF StartThenObserve
  <2> HIDE DEF grown
  <2>2. AskedOf(c, RowsIn(slots)) /\ StartBatch(c)' = {}
    BY <1>1, <1>2, <1>3, <2>1, ObserveAsks
  <2>3. born + 1 .. born' = {}
    BY <1>3, <2>1
  <2>4. WITNESS {} \in SUBSET Unused(tab)
  <2>5. QED
    BY <1>3, <2>1, <2>2, <2>3
<1>5. CASE A # {}
  <2>1. /\ table' = Booked(tab, R, born)
        /\ gen' = [r \in Rows |-> IF r \in R THEN gen[r] + 1 ELSE gen[r]]
        /\ born' = born + Cardinality(A)
        /\ batch' = [batch EXCEPT ![c] = new]
        /\ at' = [at EXCEPT ![c] = "start"]
        /\ UNCHANGED obsVars
    BY <1>5 DEF StartThenObserve, Booked, Rank, Below
  <2>2. at'[c] = "start" /\ RowsIn(batch[c])' = R
    BY <1>1, <2>1 DEF ConnsTyped, RowsIn
  <2> HIDE DEF A
  <2>3. /\ A \in SUBSET m.starts /\ Cardinality(A) <= Cardinality(m.starts)
    BY <1>3, <1>5, AdmittedFacts DEF A
  <2>4. Cardinality(A) \in Nat /\ Cardinality(m.starts) \in Nat
    BY <1>3, <2>3, RowsAndSlotsFinite, FS_CardinalityType
  <2>5. born \in 0 .. MaxEpisodes /\ born + Cardinality(A) <= MaxEpisodes
    BY <1>1, <2>3, <2>4 DEF RowsTyped, Ready
  <2>6. Cardinality(A) <= Cardinality(Unused(tab))
    <3>1. /\ Cardinality(Used(tab)) \in Nat
          /\ Cardinality(Unused(tab)) = MaxEpisodes - Cardinality(Used(tab))
      BY UsedAndUnused
    <3>2. Cardinality(Used(tab)) <= born
      BY <2>5, UsedAreBorn DEF Ready
    <3>3. QED
      BY <2>4, <2>5, <3>1, <3>2
  <2>7. R \in SUBSET Unused(tab) /\ IsFiniteSet(R) /\ Cardinality(R) = Cardinality(A)
    <3>1. A \in SUBSET Slots
      BY <1>3, <2>3
    <3>2. QED
      BY <2>6, <3>1, NewRowsCount
  <2> HIDE DEF R, new
  <2>8. R \in SUBSET Int /\ R \in SUBSET Rows
    BY <2>7, RowsAndSlotsFinite DEF Unused
  <2>9. /\ \A r \in R : table'[r] = born + 1 + Rank(R, r)
        /\ \A r \in Rows \ R : table'[r] = tab[r]
    BY <2>1, <2>8 DEF Booked
  <2>10. \A r \in R : table'[r] \in born + 1 .. born'
    <3>1. \A r \in R : Rank(R, r) \in 0 .. Cardinality(A) - 1
      BY <2>7, <2>8, RankFacts
    <3>2. QED
      BY <1>3, <2>1, <2>4, <2>9, <3>1
  <2>11. ASSUME NEW e \in born + 1 .. born'
         PROVE  \E r \in R : table'[r] = e
    <3>1. e - born - 1 \in 0 .. Cardinality(R) - 1
      BY <1>3, <2>1, <2>4, <2>7
    <3>2. PICK r \in R : Rank(R, r) = e - born - 1
      BY <2>7, <2>8, <3>1, RankTaken
    <3>3. table'[r] = e
      BY <1>3, <2>9, <3>1, <3>2
    <3>4. QED
      BY <3>3
  <2>12. \A r \in Rows : gen'[r] = IF r \in R THEN gen[r] + 1 ELSE gen[r]
    BY <2>1
  <2>13. StartBatch(c)' = R
    BY <2>2 DEF StartBatch
  <2>14. born <= born'
    BY <1>3, <2>1, <2>4
  <2>15. AskedOf(c, RowsIn(slots))
    BY <2>1 DEF AskedOf, obsVars
  <2>16. QED
    BY <2>7, <2>9, <2>10, <2>11, <2>12, <2>13, <2>14, <2>15
<1>6. QED
  BY <1>4, <1>5

\* The observations are of rows that stay the connection's.
LEMMA AskedRows ==
  ASSUME NEW c \in Conns, NEW R, R \subseteq Known(c)', AskedOf(c, R), ObsTyped, ObsTyped',
         \A r \in R : failed'[r] <=> failed[r]
  PROVE  AsksStep(c)
BY DEF AskedOf, AsksStep, ObsTyped


\* The step is one of rows released, booked and ended, and of observations.
Seen(c) ==
  /\ AsksStep(c)
  /\ \E Rel, New, End \in SUBSET Rows : RowMoves(c, Rel, New, End)

\* A step that touches no observation.
LEMMA NoAsks ==
  ASSUME NEW c \in Conns, UNCHANGED <<asks, answered, obsNo>>
  PROVE  AsksStep(c)
BY DEF AsksStep

\* A message is read.
LEMMA HandlingSeen ==
  ASSUME RowsInv, FlagsInv, AsksInv, NEW c \in Conns, NEW m,
         m.starts \in SUBSET Slots, m.obs \in SUBSET Slots,
         live' = [live EXCEPT ![c] = live'[c]], live'[c] \in BOOLEAN,
         c \in VectorConns => ~live'[c], Handle(c, m)
  PROVE  Seen(c)
<1> USE RowsAssumption
<1> DEFINE f == [s \in Slots |-> IF s \in m.ends \cup m.starts THEN own[c][s] ELSE None]
           rest == [starts |-> m.starts, obs |-> m.obs]
<1>1. /\ ConnsTyped /\ RowsTyped /\ ObsTyped /\ KnownRowsInv
      /\ ConnTyped(c) /\ ArraysAgree(c) /\ BatchFits(c)
      /\ born + Reserved <= MaxEpisodes
  BY Parts DEF InParts, ConnInv
<1>2. /\ at[c] = "read" /\ UNCHANGED closed
      /\ m.starts = {} \/ born + Reserved + Cardinality(m.starts) <= MaxEpisodes
      /\ m.obs = {} \/ obsNo[c] < MaxObs
  BY DEF Handle
<1>3. None \notin Rows
  BY DEF Rows, None
<1>4. \A s \in Slots : f[s] \in Rows => own[c][s] = f[s]
  BY <1>3
<1>5. StartBatch(c) = {} /\ born \in Nat
  BY <1>1, <1>2 DEF StartBatch, RowsTyped
<1>6. ObsTyped' /\ OneStep(c)
  BY Handling DEF OneStep
<1>7. CASE RowsIn(f) # {}
  <2>1. /\ BeginEnd(c, f)
        /\ at' = [at EXCEPT ![c] = "end"]
        /\ UNCHANGED <<table, failed, obsVars, born>>
    BY <1>7 DEF Handle
  <2> HIDE DEF f, rest
  <2> DEFINE End == RowsIn(f)
  <2>2. /\ RowsIn(batch[c])' = End
        /\ \A r \in End : ~ending[r]
        /\ \A r \in Rows : ending'[r] <=> ending[r] \/ r \in End
        /\ \A r \in Rows : gen'[r] = IF r \in End THEN gen[r] + 1 ELSE gen[r]
    BY <1>2, <1>4, <2>1, EndBegins
  <2>3. End \subseteq Rows /\ End \subseteq Known(c)
    BY <1>4 DEF RowsIn, Known, Held
  <2>4. at'[c] = "end" /\ StartBatch(c)' = {}
    BY <1>1, <2>1 DEF ConnsTyped, StartBatch
  <2>5. born' = born /\ born + 1 .. born = {}
    BY <1>5, <2>1
  <2> HIDE DEF End
  <2>6. RowMoves(c, {}, {}, End)
    BY <1>5, <2>1, <2>2, <2>3, <2>4, <2>5 DEF RowMoves
  <2>7. AsksStep(c)
    BY <2>1, NoAsks DEF obsVars
  <2>8. QED
    BY <2>3, <2>6, <2>7 DEF Seen
<1>8. CASE RowsIn(f) = {}
  <2>1. StartThenObserve(c, table, own[c], rest) /\ UNCHANGED <<ending, failed>>
    BY <1>8 DEF Handle
  <2>2. \A s \in m.starts : own[c][s] \notin Rows
    BY <1>8 DEF RowsIn
  <2>3. rest.starts = m.starts /\ rest.obs = m.obs /\ rest \in Messages
    BY DEF Messages
  <2> HIDE DEF f, rest
  <2>4. Ready(c, table, own[c], rest)
    <3>1. \A s \in Slots : own[c][s] \in Rows => table[own[c][s]] # None
      BY <1>1 DEF KnownRowsInv, RowsIn, Known, Held
    <3>2. born + Cardinality(rest.starts) <= MaxEpisodes
      <4>1. Reserved \in Nat /\ Cardinality(m.starts) \in Nat /\ (m.starts = {} => Cardinality(m.starts) = 0)
        BY <1>1, RowsAndSlotsFinite, FS_CardinalityType, FS_EmptySet, DueIsReserved
      <4>2. QED
        BY <1>1, <1>2, <1>5, <2>3, <4>1
    <3>3. local[c] = own[c]
      BY <1>1, <1>2 DEF ArraysAgree
    <3>4. QED
      BY <1>1, <1>2, <2>2, <2>3, <3>1, <3>2, <3>3 DEF Ready, RowsTyped, ConnTyped, ArraysAgree
  <2>5. Begun(c, table, own[c], rest)
    BY <1>2, <2>1, <2>4, Starting
  <2>6. PICK New \in SUBSET Unused(table) :
           /\ \A r \in New : table'[r] \in born + 1 .. born'
           /\ \A e \in born + 1 .. born' : \E r \in New : table'[r] = e
           /\ \A r \in Rows \ New : table'[r] = table[r]
           /\ \A r \in Rows : gen'[r] = IF r \in New THEN gen[r] + 1 ELSE gen[r]
           /\ StartBatch(c)' = New
           /\ born <= born'
           /\ AskedOf(c, RowsIn(own[c]))
    BY <2>1, <2>4, StartMoves
  <2>7. at'[c] \notin {"end", "closing"} /\ RowsIn(own[c]) \subseteq Known(c)'
    BY <2>5 DEF Begun
  <2>8. \A r \in New : r \in Rows /\ table[r] = None
    BY DEF Unused
  <2>9. RowMoves(c, {}, New, {})
    BY <1>5, <2>1, <2>6, <2>7, <2>8 DEF RowMoves
  <2>10. AsksStep(c)
    <3>1. \A r \in RowsIn(own[c]) : failed'[r] <=> failed[r]
      BY <2>1
    <3>2. QED
      BY <1>1, <1>6, <2>6, <2>7, <3>1, AskedRows
  <2>11. New \subseteq Rows
    BY <2>8
  <2>12. QED
    BY <2>9, <2>10, <2>11 DEF Seen
<1>9. QED
  BY <1>7, <1>8

\* on_episode_end has returned.
LEMMA EndedSeen ==
  ASSUME RowsInv, FlagsInv, AsksInv, NEW c \in Conns, EndReturned(c)
  PROVE  Seen(c)
<1> USE RowsAssumption
<1> DEFINE R == RowsIn(batch[c])
           tab == Released(table, R)
           slots == [s \in Slots |-> IF own[c][s] \in R THEN None ELSE own[c][s]]
<1>1. /\ RowsTyped /\ ObsTyped /\ KnownRowsInv
  BY Parts DEF InParts, ConnInv
<1>2. /\ at[c] = "end"
      /\ ending' = Cleared(ending, R) /\ failed' = Cleared(failed, R)
      /\ StartThenObserve(c, tab, slots, todo[c])
  BY DEF EndReturned
<1>3. R \subseteq Known(c) /\ R \subseteq Rows /\ None \notin Rows
  BY DEF Known, Held, RowsIn, Rows, None
<1>4. \A r \in Rows : tab[r] = IF r \in R THEN None ELSE table[r]
  BY <1>1, ReleaseFacts DEF RowsTyped
<1>5. Ready(c, tab, slots, todo[c]) /\ Begun(c, tab, slots, todo[c]) /\ ObsTyped'
  BY EndedReady DEF Begun
<1>6. RowsIn(slots) \cap R = {}
  BY <1>3 DEF RowsIn
<1> HIDE DEF tab, slots, R
<1>7. PICK New \in SUBSET Unused(tab) :
        /\ \A r \in New : table'[r] \in born + 1 .. born'
        /\ \A e \in born + 1 .. born' : \E r \in New : table'[r] = e
        /\ \A r \in Rows \ New : table'[r] = tab[r]
        /\ \A r \in Rows : gen'[r] = IF r \in New THEN gen[r] + 1 ELSE gen[r]
        /\ StartBatch(c)' = New
        /\ born <= born'
        /\ AskedOf(c, RowsIn(slots))
  BY <1>2, <1>5, StartMoves
<1>8. at'[c] \notin {"end", "closing"} /\ RowsIn(slots) \subseteq Known(c)'
  BY <1>5 DEF Begun
<1>9. \A r \in New : r \in Rows /\ (table[r] = None \/ r \in R)
  BY <1>4 DEF Unused
<1>10. \A r \in R : ending[r]
  BY <1>2 DEF FlagsInv, R
<1>11. /\ \A r \in Rows : ending'[r] <=> ending[r] /\ r \notin R
       /\ \A r \in Rows : failed'[r] <=> failed[r] /\ r \notin R
  BY <1>2 DEF Cleared
<1>12. RowMoves(c, R, New, {})
  BY <1>3, <1>4, <1>7, <1>8, <1>9, <1>10, <1>11 DEF RowMoves
<1>13. AsksStep(c)
  <2>1. \A r \in RowsIn(slots) : failed'[r] <=> failed[r]
    BY <1>6, <1>11 DEF RowsIn
  <2>2. QED
    BY <1>1, <1>5, <1>7, <1>8, <2>1, AskedRows
<1>14. New \subseteq Rows
  BY <1>9
<1>15. QED
  BY <1>3, <1>12, <1>13, <1>14 DEF Seen


\* A row in on_episode_start is not in on_episode_end.
LEMMA StartingIsNotEnding ==
  ASSUME RowsInv, NEW c \in Conns, NEW r \in StartBatch(c)
  PROVE  ~ending[r]
<1> SUFFICES ASSUME ending[r]
             PROVE  FALSE
  OBVIOUS
<1>1. KnownRowsInv
  BY Parts DEF InParts
<1>2. at[c] = "start" /\ r \in RowsIn(batch[c]) /\ r \in Rows
  BY DEF StartBatch, RowsIn
<1>3. PICK d \in Conns : at[d] \in {"end", "closing"} /\ r \in RowsIn(batch[d])
  BY <1>1, <1>2 DEF KnownRowsInv
<1>4. d # c /\ r \in Known(d) /\ r \in Known(c)
  BY <1>2, <1>3 DEF Known, Held
<1>5. QED
  BY <1>1, <1>4 DEF KnownRowsInv

\* on_episode_start has returned or raised.
LEMMA StartedSeen ==
  ASSUME RowsInv, FlagsInv, AsksInv, NEW c \in Conns, StartReturned(c)
  PROVE  Seen(c)
<1> USE RowsAssumption
<1>1. /\ ConnsTyped /\ RowsTyped /\ ObsTyped /\ KnownRowsInv
      /\ ConnTyped(c) /\ BatchFits(c)
  BY Parts DEF InParts, ConnInv
<1>2. PICK bad \in SUBSET {s \in Slots : batch[c][s] \in Rows} :
       LET R == {batch[c][s] : s \in bad}
           good == {s \in Slots \ bad : batch[c][s] \in Rows}
           slots == [s \in Slots |-> IF s \in good THEN batch[c][s] ELSE local[c][s]]
           kept == IF own[c] = local[c] THEN slots ELSE own[c]
       IN /\ table' = Released(table, R)
          /\ failed' = Cleared(failed, R)
          /\ Observe(c, table', slots, todo[c].obs, kept)
  BY DEF StartReturned
<1> DEFINE R == {batch[c][s] : s \in bad}
           good == {s \in Slots \ bad : batch[c][s] \in Rows}
           slots == [s \in Slots |-> IF s \in good THEN batch[c][s] ELSE local[c][s]]
           kept == IF own[c] = local[c] THEN slots ELSE own[c]
<1>3. /\ table' = Released(table, R) /\ failed' = Cleared(failed, R)
      /\ Observe(c, table', slots, todo[c].obs, kept)
      /\ at[c] = "start" /\ UNCHANGED <<gen, ending, closed, live, born>>
  BY <1>2 DEF StartReturned
<1>4. /\ R \subseteq Rows /\ \A r \in R : \E s \in bad : r = batch[c][s]
      /\ \A s \in Slots : s \in good <=> s \notin bad /\ batch[c][s] \in Rows
      /\ bad \in SUBSET Slots /\ \A s \in bad : batch[c][s] \in R /\ batch[c][s] \in Rows
  OBVIOUS
<1>5. /\ slots = [s \in Slots |-> slots[s]] /\ DOMAIN slots = Slots
      /\ \A s \in Slots : slots[s] = IF s \in good THEN batch[c][s] ELSE local[c][s]
  OBVIOUS
<1> HIDE DEF R, good, slots, kept
<1>6. \A s, t \in Slots : s # t /\ batch[c][s] \in Rows => batch[c][s] # batch[c][t]
  BY <1>1 DEF BatchFits
<1>7. \A s \in Slots : batch[c][s] \in Rows => \A t \in Slots : local[c][t] # batch[c][s]
  BY <1>1, <1>3 DEF BatchFits
<1>8. slots \in Arrays
  <2>1. \A s \in Slots : slots[s] \in Rows \cup {None, Absent}
    BY <1>1, <1>4, <1>5 DEF ConnTyped, Arrays
  <2>2. QED
    BY <1>5, <2>1 DEF Arrays
<1>9. \A s \in Slots : slots[s] \in Rows => slots[s] \notin R /\ slots[s] \in Known(c)
  <2> SUFFICES ASSUME NEW s \in Slots, slots[s] \in Rows
               PROVE  slots[s] \notin R /\ slots[s] \in Known(c)
    OBVIOUS
  <2>1. CASE s \in good
    <3>1. slots[s] = batch[c][s] /\ s \notin bad
      BY <1>4, <1>5, <2>1
    <3>2. QED
      BY <1>4, <1>6, <3>1 DEF Known, Held, RowsIn
  <2>2. CASE s \notin good
    <3>1. slots[s] = local[c][s]
      BY <1>5, <2>2
    <3>2. QED
      BY <1>4, <1>7, <3>1 DEF Known, Held, RowsIn
  <2>3. QED
    BY <2>1, <2>2
<1>10. R \subseteq StartBatch(c) /\ R \subseteq Known(c)
  BY <1>3, <1>4 DEF StartBatch, Known, Held, RowsIn
<1>11. \A r \in Rows : table'[r] = IF r \in R THEN None ELSE table[r]
  BY <1>1, <1>3, ReleaseFacts DEF RowsTyped
<1>12. AskedOf(c, RowsIn(slots)) /\ StartBatch(c)' = {}
  <2>1. todo[c].obs \in SUBSET Slots /\ gen' = gen
    BY <1>1, <1>3 DEF ConnTyped, Messages
  <2>2. QED
    BY <1>1, <1>3, <1>8, <2>1, ObserveAsks
<1>13. OneStep(c) /\ NothingLost(c)
  BY Started
<1>14. ObsTyped' /\ RowsIn(slots) \subseteq Known(c)'
  <2>1. \A r \in RowsIn(slots) : r \in Rows /\ r \notin R /\ r \in Known(c)
    BY <1>9 DEF RowsIn
  <2>2. \A r \in RowsIn(slots) : table'[r] # None
    BY <1>1, <1>11, <2>1 DEF KnownRowsInv
  <2>3. QED
    BY <1>13, <2>1, <2>2 DEF OneStep, NothingLost
<1>15. \A r \in Rows : failed'[r] <=> failed[r] /\ r \notin R
  BY <1>3 DEF Cleared
<1>16. AsksStep(c)
  <2>1. \A r \in RowsIn(slots) : failed'[r] <=> failed[r]
    BY <1>9, <1>15 DEF RowsIn
  <2>2. QED
    BY <1>1, <1>12, <1>14, <2>1, AskedRows
<1>17. at'[c] \notin {"end", "closing"}
  <2>1. todo[c].obs \in SUBSET Slots /\ (todo[c].obs # {} => obsNo[c] < MaxObs)
    BY <1>1 DEF ConnTyped, Messages
  <2>2. \A s \in Slots : slots[s] \in Rows => table'[slots[s]] # None
    BY <1>1, <1>9, <1>11 DEF KnownRowsInv
  <2>3. table' \in [Rows -> Episodes \cup {None}]
    BY <1>1, <1>3, ReleaseFacts DEF RowsTyped, Tabled
  <2>4. at'[c] \in {"read", "observe", "wait"}
    BY <1>1, <1>3, <1>8, <2>1, <2>2, <2>3, ObserveEffect
  <2>5. QED
    BY <2>4
<1>18. born \in Nat /\ born + 1 .. born = {}
  BY <1>1 DEF RowsTyped
<1>19. \A r \in Rows : ending[r] => r \notin R
  BY <1>10, StartingIsNotEnding
<1>20. RowMoves(c, R, {}, {})
  BY <1>3, <1>10, <1>11, <1>12, <1>15, <1>17, <1>18, <1>19 DEF RowMoves
<1>21. QED
  BY <1>4, <1>16, <1>20 DEF Seen

\* on_observation has returned or raised, or the wait is over.
LEMMA ObservedSeen ==
  ASSUME RowsInv, FlagsInv, AsksInv, NEW c \in Conns,
         ObserveReturned(c) \/ ObserveRaised(c) \/ WaitDone(c)
  PROVE  Seen(c)
<1>1. ConnsTyped /\ RowsTyped
  BY Parts DEF InParts
<1>2. /\ at[c] \in {"observe", "wait"} /\ at'[c] \in {"read", "wait"}
      /\ UNCHANGED <<rowVars, born>>
  BY <1>1 DEF ObserveReturned, ObserveRaised, WaitDone, DoneWith, ConnsTyped
<1>3. AsksStep(c)
  <2>1. CASE ObserveReturned(c) \/ WaitDone(c)
    BY <2>1, NoAsks DEF ObserveReturned, WaitDone, obsVars
  <2>2. CASE ObserveRaised(c)
    <3>1. /\ answered' = answered \cup {a \in Unanswered(c) : Claimable(a)}
          /\ asks' = asks /\ obsNo' = obsNo
      BY <2>2 DEF ObserveRaised
    <3>2. \A a \in answered' \ answered : a \in asks /\ Claimable(a)
      BY <3>1 DEF Unanswered
    <3>3. QED
      BY <3>1, <3>2 DEF AsksStep
  <2>3. QED
    BY <2>1, <2>2
<1>4. RowMoves(c, {}, {}, {})
  <2>1. born \in Nat /\ born + 1 .. born = {}
    BY <1>1 DEF RowsTyped
  <2>2. StartBatch(c) = {} /\ StartBatch(c)' = {} /\ at'[c] \notin {"end", "closing"}
    BY <1>2 DEF StartBatch
  <2>3. QED
    BY <1>1, <1>2, <2>1, <2>2 DEF RowMoves, rowVars, RowsTyped
<1>5. QED
  BY <1>3, <1>4 DEF Seen


\* The handler goes to its finally, having released the batch that was starting.
LEMMA LeavesSeen ==
  ASSUME RowsInv, FlagsInv, AsksInv, NEW c \in Conns,
         at[c] \in {"read", "observe", "wait", "start"},
         NEW R, R = StartBatch(c), R \cap RowsIn(own[c]) = {},
         table' = Released(table, R), failed' = Cleared(failed, R), Leaving(c)
  PROVE  Seen(c)
<1>1. ConnsTyped /\ RowsTyped
  BY Parts DEF InParts
<1>2. UNCHANGED <<obsVars, born>>
  BY DEF Leaving
<1>3. AsksStep(c)
  BY <1>2, NoAsks DEF obsVars
<1>4. R \subseteq Known(c) /\ R \subseteq Rows
  BY DEF StartBatch, Known, Held, RowsIn
<1>5. \A r \in R : ~ending[r]
  BY StartingIsNotEnding
<1>6. \A r \in Rows : table'[r] = IF r \in R THEN None ELSE table[r]
  BY <1>1, ReleaseFacts DEF RowsTyped
<1>7. \A r \in Rows : failed'[r] <=> failed[r] /\ r \notin R
  BY DEF Cleared
<1>8. born' = born /\ born \in Nat /\ born + 1 .. born = {}
  BY <1>1, <1>2 DEF RowsTyped
<1>9. CASE RowsIn(own[c]) = {}
  <2>1. Gone(c) /\ UNCHANGED <<gen, ending>>
    BY <1>9 DEF Leaving
  <2>2. at'[c] = "gone" /\ StartBatch(c)' = {}
    BY <1>1, <2>1 DEF ConnsTyped, Gone, StartBatch
  <2>3. RowMoves(c, R, {}, {})
    BY <1>4, <1>5, <1>6, <1>7, <1>8, <2>1, <2>2 DEF RowMoves
  <2>4. QED
    BY <1>3, <1>4, <2>3 DEF Seen
<1>10. CASE RowsIn(own[c]) # {}
  <2> DEFINE End == RowsIn(own[c])
  <2>1. BeginEnd(c, own[c]) /\ at' = [at EXCEPT ![c] = "closing"]
    BY <1>10 DEF Leaving
  <2>2. /\ RowsIn(batch[c])' = End
        /\ \A r \in End : ~ending[r]
        /\ \A r \in Rows : ending'[r] <=> ending[r] \/ r \in End
        /\ \A r \in Rows : gen'[r] = IF r \in End THEN gen[r] + 1 ELSE gen[r]
    BY <2>1, EndBegins
  <2>3. at'[c] = "closing" /\ StartBatch(c)' = {}
    BY <1>1, <2>1 DEF ConnsTyped, StartBatch
  <2>4. End \subseteq Rows /\ End \subseteq Known(c) \ R
    BY DEF RowsIn, Known, Held
  <2> HIDE DEF End
  <2>5. RowMoves(c, R, {}, End)
    BY <1>4, <1>5, <1>6, <1>7, <1>8, <2>2, <2>3, <2>4 DEF RowMoves
  <2>6. QED
    BY <1>3, <1>4, <2>4, <2>5 DEF Seen
<1>11. QED
  BY <1>9, <1>10

LEMMA LeavesAnyhowSeen ==
  ASSUME RowsInv, FlagsInv, AsksInv, NEW c \in Conns,
         Leave(c) \/ Cancel(c) \/ CancelStart(c) \/ ReplyRaises(c)
  PROVE  Seen(c)
<1>1. RowsTyped /\ ArraysAgree(c) /\ BatchFits(c)
  BY Parts DEF InParts, ConnInv
<1>2. CASE Leave(c) \/ Cancel(c) \/ ReplyRaises(c)
  <2>1. at[c] \in {"read", "observe", "wait"} /\ Leaving(c) /\ UNCHANGED <<table, failed>>
    BY <1>2 DEF Leave, Cancel, ReplyRaises
  <2>2. table' = Released(table, {}) /\ failed' = Cleared(failed, {})
    BY <1>1, <2>1 DEF RowsTyped, Tabled, Released, Cleared
  <2>3. StartBatch(c) = {}
    BY <2>1 DEF StartBatch
  <2>4. QED
    BY <2>1, <2>2, <2>3, LeavesSeen
<1>3. CASE CancelStart(c)
  <2> DEFINE R == RowsIn(batch[c])
  <2>1. /\ at[c] = "start" /\ Leaving(c)
        /\ table' = Released(table, R) /\ failed' = Cleared(failed, R)
    BY <1>3 DEF CancelStart
  <2>2. R \cap RowsIn(own[c]) = {}
    BY <1>1, <2>1 DEF RowsIn, BatchFits, ArraysAgree
  <2>3. R = StartBatch(c)
    BY <2>1 DEF StartBatch
  <2> HIDE DEF R
  <2>4. QED
    BY <2>1, <2>2, <2>3, LeavesSeen
<1>4. QED
  BY <1>2, <1>3

\* on_episode_end has returned, and the handler with it.
LEMMA ClosedSeen ==
  ASSUME RowsInv, FlagsInv, AsksInv, NEW c \in Conns, ClosingReturned(c)
  PROVE  Seen(c)
<1> DEFINE R == RowsIn(batch[c])
<1>1. ConnsTyped /\ RowsTyped
  BY Parts DEF InParts
<1>2. /\ at[c] = "closing" /\ table' = Released(table, R)
      /\ ending' = Cleared(ending, R) /\ failed' = Cleared(failed, R)
      /\ Gone(c) /\ UNCHANGED <<gen, obsVars, born>>
  BY DEF ClosingReturned
<1>3. R \subseteq Known(c) /\ R \subseteq Rows
  BY DEF Known, Held, RowsIn
<1>4. \A r \in R : ending[r]
  BY <1>2 DEF FlagsInv
<1> HIDE DEF R
<1>5. \A r \in Rows : table'[r] = IF r \in R THEN None ELSE table[r]
  BY <1>1, <1>2, ReleaseFacts DEF RowsTyped
<1>6. /\ \A r \in Rows : failed'[r] <=> failed[r] /\ r \notin R
      /\ \A r \in Rows : ending'[r] <=> ending[r] /\ r \notin R
  BY <1>2 DEF Cleared
<1>7. at'[c] = "gone" /\ StartBatch(c)' = {}
  BY <1>1, <1>2 DEF ConnsTyped, Gone, StartBatch
<1>8. born' = born /\ born \in Nat /\ born + 1 .. born = {}
  BY <1>1, <1>2 DEF RowsTyped
<1>9. RowMoves(c, R, {}, {})
  BY <1>2, <1>3, <1>4, <1>5, <1>6, <1>7, <1>8 DEF RowMoves
<1>10. AsksStep(c)
  BY <1>2, NoAsks DEF obsVars
<1>11. QED
  BY <1>3, <1>9, <1>10 DEF Seen

\* A message of any kind is read.
LEMMA ReadsSeen ==
  ASSUME RowsInv, FlagsInv, AsksInv, NEW c \in Conns,
         ReadStart(c) \/ ReadObservation(c) \/ ReadEnd(c) \/ ReadVectorStep(c)
  PROVE  Seen(c)
<1>1. PICK m : MessageRead(c, m)
  BY AnyMessage
<1>2. QED
  BY <1>1, HandlingSeen DEF MessageRead


-----------------------------------------------------------------------------
(* The episodes of EpisodeCallbacks, by the rows they are on.              *)

\* The phase of the episode on row r.
RowPhase(r) ==
  IF ending[r] THEN "ending"
  ELSE IF failed[r] THEN "failed"
  ELSE IF \E c \in Conns : r \in StartBatch(c) THEN "starting"
  ELSE "running"

PhaseFacts ==
  \A e \in Episodes :
    /\ \A r \in Rows : table[r] = e => RowOf(e) = r /\ Phase(e) = RowPhase(r) /\ e <= born
    /\ (\A r \in Rows : table[r] # e) =>
         RowOf(e) = None /\ Phase(e) = (IF e > born THEN "new" ELSE "over")

LEMMA PhaseOf == RowsInv => PhaseFacts
<1> SUFFICES ASSUME RowsInv, NEW e \in Episodes
             PROVE  /\ \A r \in Rows : table[r] = e =>
                         RowOf(e) = r /\ Phase(e) = RowPhase(r) /\ e <= born
                    /\ (\A r \in Rows : table[r] # e) =>
                         RowOf(e) = None /\ Phase(e) = (IF e > born THEN "new" ELSE "over")
  BY DEF PhaseFacts
<1>1. EpisodesInv
  BY DEF RowsInv
<1>2. None \notin Rows /\ e # None
  BY RowsAssumption DEF Rows, None, Episodes
<1>3. ASSUME NEW r \in Rows, table[r] = e
      PROVE  RowOf(e) = r /\ Phase(e) = RowPhase(r) /\ e <= born
  <2>1. \A q \in Rows : table[q] = e => q = r
    BY <1>1, <1>2, <1>3 DEF EpisodesInv
  <2>2. RowOf(e) = r
    BY <1>3, <2>1 DEF RowOf
  <2>3. \A c \in Conns : r \in StartBatch(c) <=>
          at[c] = "start" /\ \E s \in Slots : batch[c][s] = r
    BY DEF StartBatch, RowsIn
  <2>4. Phase(e) = RowPhase(r)
    BY <1>2, <2>2, <2>3 DEF Phase, RowPhase
  <2>5. QED
    BY <1>1, <1>2, <1>3, <2>2, <2>4 DEF EpisodesInv
<1>4. ASSUME \A r \in Rows : table[r] # e
      PROVE  RowOf(e) = None /\ Phase(e) = (IF e > born THEN "new" ELSE "over")
  BY <1>4 DEF RowOf, Phase
<1>5. QED
  BY <1>3, <1>4

\* An episode has a row while its phase says so, and the row is its own.
EpisodesApart ==
  /\ \A e \in Episodes : Phase(e) \in {"new", "over"} <=> RowOf(e) = None
  /\ \A e, f \in Episodes : e # f /\ RowOf(e) = RowOf(f) => RowOf(e) = None

LEMMA RowsKeepApart == RowsInv => EpisodesApart
<1> SUFFICES ASSUME RowsInv
             PROVE  EpisodesApart
  OBVIOUS
<1>1. None \notin Rows
  BY RowsAssumption DEF Rows, None
<1>2. PhaseFacts
  BY PhaseOf
<1>3. \A e \in Episodes : \A r \in Rows : table[r] = e =>
        RowOf(e) # None /\ Phase(e) \notin {"new", "over"}
  BY <1>1, <1>2 DEF PhaseFacts, RowPhase
<1>4. \A e \in Episodes : RowOf(e) # None => RowOf(e) \in Rows /\ table[RowOf(e)] = e
  BY <1>2 DEF PhaseFacts
<1>5. QED
  BY <1>2, <1>3, <1>4 DEF PhaseFacts, EpisodesApart

\* The starts of other connections go on.
LEMMA StartsGoOn ==
  ASSUME RowsInv, NEW c \in Conns, Only(c)
  PROVE  \A d \in Conns \ {c} :
           /\ StartBatch(d)' = StartBatch(d) /\ at'[d] = at[d] /\ batch'[d] = batch[d]
           /\ obsNo'[d] = obsNo[d] /\ Known(d)' = Known(d)
<1>1. ConnsTyped
  BY Parts DEF InParts
<1>2. QED
  BY <1>1, OthersKeep DEF StartBatch, Known, Held, RowsIn

\* A row one handler knows is in no other's batch.
LEMMA InNoOtherBatch ==
  ASSUME KnownRowsInv, NEW c \in Conns, NEW r \in Known(c), NEW d \in Conns \ {c}
  PROVE  r \notin StartBatch(d) /\ r \notin RowsIn(batch[d])
BY DEF KnownRowsInv, Known, Held, StartBatch

\* A step of connection c moves every episode as EpisodeCallbacks has it.
LEMMA EpisodesSeen ==
  ASSUME RowsInv, RowsInv', FlagsInv, NEW c \in Conns, Only(c),
         NEW Rel \in SUBSET Rows, NEW New \in SUBSET Rows, NEW End \in SUBSET Rows,
         RowMoves(c, Rel, New, End), NEW e \in Episodes
  PROVE  /\ Phase(e)' = Phase(e) \/ <<Phase(e), Phase(e)'>> \in Callbacks!Moves
         /\ RowOf(e) # None /\ RowOf(e)' # None => RowOf(e)' = RowOf(e)
<1> USE RowsAssumption
<1>1. PhaseFacts /\ PhaseFacts'
  BY PhaseOf, PTL
<1>2. /\ KnownRowsInv /\ born \in Nat /\ born' \in Nat /\ born <= born'
      /\ \A r \in Rows : table[r] \in Episodes \cup {None}
  <2>1. InParts /\ InParts'
    BY Parts, PTL
  <2>2. QED
    BY <2>1 DEF InParts, RowsTyped, RowMoves, Tabled
<1>3. e \in Nat \ {0}
  BY DEF Episodes
<1>4. \A d \in Conns \ {c} : StartBatch(d)' = StartBatch(d)
  BY StartsGoOn
<1>5. \A r \in New : table'[r] > born /\ (table[r] = None \/ r \in Rel)
  BY <1>2 DEF RowMoves
<1>6. \A r \in Rows \ New : table'[r] = IF r \in Rel THEN None ELSE table[r]
  BY DEF RowMoves
<1>7. CASE \E r \in Rows : table[r] = e
  <2>1. PICK r \in Rows : table[r] = e
    BY <1>7
  <2>2. RowOf(e) = r /\ Phase(e) = RowPhase(r) /\ e <= born
    BY <1>1, <2>1 DEF PhaseFacts
  <2>3. \A q \in Rows : table[q] = e => q = r
    BY <1>1, <2>1, <2>2 DEF PhaseFacts
  <2>4. CASE r \in Rel
    <3>1. \A q \in Rows : table'[q] # e
      BY <1>2, <1>3, <1>5, <1>6, <2>2, <2>3, <2>4 DEF None
    <3>2. RowOf(e)' = None /\ Phase(e)' = "over"
      BY <1>1, <1>2, <1>3, <2>2, <3>1 DEF PhaseFacts
    <3>3. RowPhase(r) \in {"ending", "failed", "starting"}
      BY <2>4 DEF RowMoves, RowPhase
    <3>4. QED
      BY <2>2, <3>2, <3>3 DEF Callbacks!Moves
  <2>5. CASE r \notin Rel
    <3>1. r \notin New /\ table'[r] = e
      BY <1>3, <1>5, <1>6, <2>1, <2>5 DEF None
    <3>2. RowOf(e)' = r /\ Phase(e)' = RowPhase(r)'
      BY <1>1, <3>1 DEF PhaseFacts
    <3>3. /\ ending'[r] <=> ending[r] \/ r \in End
          /\ failed'[r] <=> failed[r]
          /\ StartBatch(c)' = New
      BY <2>5 DEF RowMoves
    <3>4. (\E d \in Conns : r \in StartBatch(d)') => \E d \in Conns : r \in StartBatch(d)
      BY <1>4, <3>1, <3>3
    <3>5. r \in End => ~ending[r] /\ \A d \in Conns : r \notin StartBatch(d)
      <4>1. r \in End => r \in Known(c) /\ ~ending[r] /\ r \notin StartBatch(c)
        BY DEF RowMoves
      <4>2. QED
        BY <1>2, <4>1, InNoOtherBatch
    <3>6. CASE r \in End
      <4>1. RowPhase(r) \in {"failed", "running"} /\ RowPhase(r)' = "ending"
        BY <3>3, <3>5, <3>6 DEF RowPhase
      <4>2. QED
        BY <2>2, <3>2, <4>1 DEF Callbacks!Moves
    <3>7. CASE r \notin End
      <4>1. RowPhase(r)' = RowPhase(r) \/ (RowPhase(r) = "starting" /\ RowPhase(r)' = "running")
        BY <3>3, <3>4, <3>7 DEF RowPhase
      <4>2. QED
        BY <2>2, <3>2, <4>1 DEF Callbacks!Moves
    <3>8. QED
      BY <3>6, <3>7
  <2>6. QED
    BY <2>4, <2>5
<1>8. CASE \A r \in Rows : table[r] # e
  <2>1. RowOf(e) = None /\ Phase(e) = (IF e > born THEN "new" ELSE "over")
    BY <1>1, <1>8 DEF PhaseFacts
  <2>2. CASE e \in born + 1 .. born'
    <3>1. PICK r \in New : table'[r] = e
      BY <2>2 DEF RowMoves
    <3>2. ~ending'[r] /\ ~failed'[r] /\ r \in StartBatch(c)'
      BY <1>5, <3>1 DEF RowMoves, FlagsInv
    <3>3. Phase(e)' = "starting"
      BY <1>1, <3>1, <3>2 DEF PhaseFacts, RowPhase
    <3>4. Phase(e) = "new"
      BY <1>2, <1>3, <2>1, <2>2
    <3>5. QED
      BY <2>1, <3>3, <3>4 DEF Callbacks!Moves
  <2>3. CASE e \notin born + 1 .. born'
    <3>1. \A q \in Rows : table'[q] # e
      <4>1. \A q \in New : table'[q] # e
        BY <2>3 DEF RowMoves
      <4>2. \A q \in Rows \ New : table'[q] # e
        BY <1>3, <1>6, <1>8 DEF None
      <4>3. QED
        BY <4>1, <4>2
    <3>2. RowOf(e)' = None /\ Phase(e)' = (IF e > born' THEN "new" ELSE "over")
      BY <1>1, <3>1 DEF PhaseFacts
    <3>3. e > born <=> e > born'
      BY <1>2, <1>3, <2>3
    <3>4. QED
      BY <2>1, <3>2, <3>3
  <2>4. QED
    BY <2>2, <2>3
<1>9. QED
  BY <1>7, <1>8


\* A row that an observing handler knows is of an episode that neither starts nor
\* ends.
AskedRowRuns ==
  \A c \in Conns : \A r \in Known(c) : at[c] \in {"read", "observe", "wait"} =>
    /\ r \in Rows /\ ~ending[r] /\ \A d \in Conns : r \notin StartBatch(d)
    /\ RowPhase(r) = (IF failed[r] THEN "failed" ELSE "running")

LEMMA AskedRunsOn == RowsInv => AskedRowRuns
<1> SUFFICES ASSUME RowsInv, NEW c \in Conns, NEW r \in Known(c),
                    at[c] \in {"read", "observe", "wait"}
             PROVE  /\ r \in Rows /\ ~ending[r] /\ \A d \in Conns : r \notin StartBatch(d)
                    /\ RowPhase(r) = (IF failed[r] THEN "failed" ELSE "running")
  BY DEF AskedRowRuns
<1>1. KnownRowsInv
  BY Parts DEF InParts
<1>2. r \in Rows
  BY DEF Known, Held, RowsIn
<1>3. \A d \in Conns : r \notin StartBatch(d)
  BY <1>1, InNoOtherBatch DEF StartBatch
<1>4. ~ending[r]
  BY <1>1, <1>2, InNoOtherBatch DEF KnownRowsInv
<1>5. QED
  BY <1>2, <1>3, <1>4 DEF RowPhase

\* A claimable observation's episode runs.
LEMMA ClaimableRuns ==
  ASSUME RowsInv, AsksInv, NEW a, Claimable(a)
  PROVE  /\ a \in asks /\ a.row \in Rows /\ table[a.row] = a.episode
         /\ ~ending[a.row] /\ ~failed[a.row] /\ \A c \in Conns : a.row \notin StartBatch(c)
         /\ Phase(a.episode) = "running"
<1>1. ObsTyped
  BY Parts DEF InParts
<1>2. a \in asks \ answered /\ a.gen = gen[a.row]
  BY DEF Claimable
<1>3. a.row \in Rows /\ a.episode \in Episodes
  BY <1>1, <1>2 DEF ObsTyped
<1>4. /\ table[a.row] = a.episode /\ ~ending[a.row] /\ ~failed[a.row]
      /\ \A c \in Conns : a.row \notin StartBatch(c)
  BY <1>2 DEF AsksInv, StartBatch
<1>5. PhaseFacts
  BY PhaseOf
<1>6. QED
  BY <1>2, <1>3, <1>4, <1>5 DEF PhaseFacts, RowPhase

\* A step of connection c keeps the marks of the rows as they should be.
LEMMA FlagsKept ==
  ASSUME RowsInv, FlagsInv, NEW c \in Conns, Only(c),
         NEW Rel \in SUBSET Rows, NEW New \in SUBSET Rows, NEW End \in SUBSET Rows,
         RowMoves(c, Rel, New, End)
  PROVE  FlagsInv'
<1>1. KnownRowsInv /\ born \in Nat
  BY Parts DEF InParts, RowsTyped
<1>2. \A d \in Conns \ {c} : at'[d] = at[d] /\ batch'[d] = batch[d]
  BY StartsGoOn
<1>3. \A r \in New : table'[r] # None
  BY <1>1 DEF RowMoves, None
<1>4. ASSUME NEW r \in Rows, table'[r] = None
      PROVE  ~ending'[r] /\ ~failed'[r]
  <2>1. r \notin New /\ (r \in Rel \/ table[r] = None)
    BY <1>3, <1>4 DEF RowMoves
  <2>2. r \notin End
    BY <1>1, <2>1 DEF RowMoves, KnownRowsInv
  <2>3. QED
    BY <2>1, <2>2 DEF RowMoves, FlagsInv
<1>5. ASSUME NEW d \in Conns, at'[d] \in {"end", "closing"}, NEW r \in RowsIn(batch[d])'
      PROVE  ending'[r]
  <2>1. r \in Rows
    BY DEF RowsIn
  <2>2. CASE d = c
    BY <1>5, <2>1, <2>2 DEF RowMoves
  <2>3. CASE d # c
    <3>1. at[d] \in {"end", "closing"} /\ r \in RowsIn(batch[d])
      BY <1>2, <1>5, <2>3 DEF RowsIn
    <3>2. ending[r] /\ r \in Known(d)
      BY <3>1 DEF FlagsInv, Known, Held
    <3>3. r \notin Rel
      BY <1>1, <2>3, <3>2 DEF RowMoves, KnownRowsInv
    <3>4. QED
      BY <2>1, <3>2, <3>3 DEF RowMoves
  <2>4. QED
    BY <2>2, <2>3
<1>6. QED
  BY <1>4, <1>5 DEF FlagsInv

\* A step of connection c takes and answers observations as EpisodeCallbacks has it,
\* and those that can be claimed after it are of episodes that run.
LEMMA AsksSeen ==
  ASSUME RowsInv, RowsInv', AsksInv, NEW c \in Conns, Only(c), AsksStep(c),
         NEW Rel \in SUBSET Rows, NEW New \in SUBSET Rows, NEW End \in SUBSET Rows,
         RowMoves(c, Rel, New, End)
  PROVE  AsksInv' /\ Callbacks!ObservationsOnce
<1> USE RowsAssumption
<1>1. PhaseFacts' /\ AskedRowRuns'
  BY PhaseOf, AskedRunsOn, PTL
<1>2. InParts /\ InParts'
  BY Parts, PTL
<1>3. /\ ObsTyped /\ ObsTyped' /\ gen \in [Rows -> Nat] /\ gen' \in [Rows -> Nat]
      /\ obsNo[c] \in Nat /\ obsNo'[c] \in Nat /\ KnownRowsInv'
  BY <1>2 DEF InParts, RowsTyped, ConnInv, ConnTyped
<1>4. \A d \in Conns \ {c} : obsNo'[d] = obsNo[d] /\ StartBatch(d)' = StartBatch(d)
  BY StartsGoOn
<1>5. \A r \in Rows : gen[r] <= gen'[r] /\ (gen'[r] = gen[r] => r \notin New \cup End)
  BY <1>3 DEF RowMoves
<1>6. ASSUME NEW a \in asks' \ asks
      PROVE  /\ a.row \in Rows /\ a.episode = table'[a.row] /\ ~ending'[a.row]
             /\ failed'[a.row] => a \in answered'
             /\ \A d \in Conns : a.row \notin StartBatch(d)'
             /\ Phase(a.episode)' = (IF failed'[a.row] THEN "failed" ELSE "running")
             /\ a.conn = c /\ a.no = obsNo'[c] /\ a.gen = gen'[a.row]
  <2>1. /\ a.row \in Known(c)' /\ a.episode = table'[a.row] /\ at'[c] \in {"read", "observe", "wait"}
        /\ failed'[a.row] => a \in answered'
        /\ a.conn = c /\ a.no = obsNo'[c] /\ a.gen = gen'[a.row]
    BY DEF AsksStep
  <2>2. /\ a.row \in Rows /\ ~ending'[a.row] /\ \A d \in Conns : a.row \notin StartBatch(d)'
        /\ RowPhase(a.row)' = (IF failed'[a.row] THEN "failed" ELSE "running")
    BY <1>1, <2>1 DEF AskedRowRuns
  <2>3. a.episode \in Episodes
    BY <1>3 DEF ObsTyped
  <2>4. Phase(a.episode)' = RowPhase(a.row)'
    BY <1>1, <2>1, <2>2, <2>3 DEF PhaseFacts
  <2>5. QED
    BY <2>1, <2>2, <2>4
<1>7. Callbacks!ObservationsOnce
  <2>1. \A a \in answered' \ answered : a \in asks => Phase(a.episode) = "running"
    BY ClaimableRuns DEF AsksStep
  <2>2. \A a \in answered' \ answered : a \notin asks => a \in asks' \ asks /\ failed'[a.row]
    BY DEF AsksStep
  <2>3. asks \subseteq asks' /\ answered \subseteq answered' /\ answered' \subseteq asks'
    BY <1>3 DEF AsksStep, ObsTyped
  <2>4. \A a \in asks' : a.episode \in Episodes
    BY <1>3 DEF ObsTyped
  <2>5. \A a \in asks : a.episode \in Episodes
    BY <1>3 DEF ObsTyped
  <2>6. QED
    BY <1>6, <2>1, <2>2, <2>3, <2>4, <2>5 DEF Callbacks!ObservationsOnce
<1>8. ASSUME NEW a \in asks'
      PROVE  a.no \in Nat /\ a.no <= obsNo'[a.conn] /\ a.gen \in Nat /\ a.gen <= gen'[a.row]
  <2>1. CASE a \in asks
    <3>1. /\ a.no \in Nat /\ a.no <= obsNo[a.conn] /\ a.gen \in Nat /\ a.gen <= gen[a.row]
          /\ a.conn \in Conns /\ a.row \in Rows
      BY <1>3, <2>1 DEF AsksInv, ObsTyped
    <3>2. a.gen <= gen'[a.row]
      BY <1>3, <1>5, <3>1
    <3>3. a.no <= obsNo'[a.conn]
      <4>1. CASE a.conn = c
        <5>1. CASE obsNo'[c] = obsNo[c]
          BY <3>1, <4>1, <5>1
        <5>2. CASE obsNo'[c] = obsNo[c] + 1
          BY <1>3, <3>1, <4>1, <5>2 DEF AsksInv
        <5>3. QED
          BY <5>1, <5>2 DEF AsksStep
      <4>2. CASE a.conn # c
        BY <1>4, <3>1, <4>2
      <4>3. QED
        BY <4>1, <4>2
    <3>4. QED
      BY <3>1, <3>2, <3>3
  <2>2. CASE a \notin asks
    BY <1>3, <1>6, <2>2
  <2>3. QED
    BY <2>1, <2>2
<1>9. ASSUME NEW a \in asks' \ answered', a.gen = gen'[a.row]
      PROVE  /\ table'[a.row] = a.episode /\ ~ending'[a.row] /\ ~failed'[a.row]
             /\ \A d \in Conns : a.row \notin StartBatch(d)'
  <2>1. CASE a \in asks
    <3>1. a \in asks \ answered /\ a.gen \in Nat /\ a.gen <= gen[a.row] /\ a.row \in Rows
      BY <1>3, <2>1 DEF AsksInv, ObsTyped, AsksStep
    <3>2. a.gen = gen[a.row] /\ a.row \notin New \cup End
      BY <1>3, <1>5, <1>9, <3>1
    <3>3. /\ table[a.row] = a.episode /\ ~ending[a.row] /\ ~failed[a.row]
          /\ \A d \in Conns : a.row \notin StartBatch(d)
      BY <3>1, <3>2, ClaimableRuns DEF Claimable
    <3>4. a.row \notin Rel
      BY <3>3 DEF RowMoves
    <3>5. /\ table'[a.row] = table[a.row] /\ ~ending'[a.row] /\ ~failed'[a.row]
          /\ a.row \notin StartBatch(c)'
      BY <3>1, <3>2, <3>3, <3>4 DEF RowMoves
    <3>6. QED
      BY <1>4, <3>3, <3>5
  <2>2. CASE a \notin asks
    BY <1>6, <1>9, <2>2
  <2>3. QED
    BY <2>1, <2>2
<1>10. AsksInv'
  BY <1>8, <1>9 DEF AsksInv, StartBatch
<1>11. QED
  BY <1>7, <1>10


LEMMA NextApart ==
  ASSUME RowsInv'
  PROVE  EpisodesApart'
BY RowsKeepApart, PTL

\* What there is to show of each step.
CallbacksKept == FlagsInv' /\ AsksInv' /\ [Callbacks!Next]_(Callbacks!callbackVars)

\* A step that leaves the episodes' rows and marks, and the observations, alone.
LEMMA NothingSeen ==
  ASSUME FlagsInv, AsksInv, UNCHANGED <<table, gen, ending, failed, at, batch, asks, answered, obsNo, born>>
  PROVE  CallbacksKept
<1>1. FlagsInv'
  BY DEF FlagsInv, RowsIn
<1>2. AsksInv'
  BY DEF AsksInv, RowsIn
<1>3. \A e \in Episodes : RowOf(e)' = RowOf(e) /\ Phase(e)' = Phase(e)
  BY DEF RowOf, Phase
<1>4. UNCHANGED Callbacks!callbackVars
  BY <1>3 DEF Callbacks!callbackVars
<1>5. QED
  BY <1>1, <1>2, <1>4 DEF CallbacksKept

\* A step of a connection, and what it does as EpisodeCallbacks sees it.
LEMMA ConnStepsSeen ==
  ASSUME RowsInv, RowsInv', FlagsInv, AsksInv, NEW c \in Conns, ConnSteps(c)
  PROVE  CallbacksKept
<1>1. CASE Disconnect(c)
  BY <1>1, NothingSeen DEF Disconnect, rowVars, obsVars
<1>2. CASE ~Disconnect(c)
  <2>1. Seen(c)
    BY <1>2, ReadsSeen, EndedSeen, StartedSeen, ObservedSeen, LeavesAnyhowSeen, ClosedSeen
       DEF ConnSteps, Handler
  <2>2. Only(c)
    BY ConnStepsKeep DEF OneStep
  <2>3. PICK Rel \in SUBSET Rows, New \in SUBSET Rows, End \in SUBSET Rows : RowMoves(c, Rel, New, End)
    BY <2>1 DEF Seen
  <2>4. FlagsInv'
    BY <2>2, <2>3, FlagsKept
  <2>5. AsksInv' /\ Callbacks!ObservationsOnce
    BY <2>1, <2>2, <2>3, AsksSeen DEF Seen
  <2>6. \A e \in Episodes : /\ Phase(e)' = Phase(e) \/ <<Phase(e), Phase(e)'>> \in Callbacks!Moves
                            /\ RowOf(e) # None /\ RowOf(e)' # None => RowOf(e)' = RowOf(e)
    BY <2>2, <2>3, EpisodesSeen
  <2>7. Callbacks!EpisodesMove
    BY <2>6 DEF Callbacks!EpisodesMove
  <2>8. Callbacks!RowsStayApart
    BY <2>6, NextApart DEF Callbacks!RowsStayApart, Callbacks!Idle, EpisodesApart
  <2>9. QED
    BY <2>4, <2>5, <2>7, <2>8 DEF CallbacksKept, Callbacks!Next
<1>3. QED
  BY <1>1, <1>2

\* The server answers an observation.
LEMMA AnswerSeen ==
  ASSUME RowsInv, RowsInv', FlagsInv, AsksInv, NEW a \in asks, Answer(a)
  PROVE  CallbacksKept
<1>1. /\ Claimable(a) /\ answered' = answered \cup {a}
      /\ UNCHANGED <<table, gen, ending, failed, at, batch, asks, obsNo, born>>
  BY DEF Answer, rowVars, connVars
<1>2. FlagsInv'
  BY <1>1 DEF FlagsInv, RowsIn
<1>3. AsksInv'
  BY <1>1 DEF AsksInv, RowsIn
<1>4. \A e \in Episodes : RowOf(e)' = RowOf(e) /\ Phase(e)' = Phase(e)
  BY <1>1 DEF RowOf, Phase
<1>5. Callbacks!EpisodesMove
  BY <1>4 DEF Callbacks!EpisodesMove
<1>6. Callbacks!RowsStayApart
  BY <1>4, NextApart DEF Callbacks!RowsStayApart, Callbacks!Idle, EpisodesApart
<1>7. Callbacks!ObservationsOnce
  <2>1. Phase(a.episode) = "running" /\ a.episode \in Episodes
    <3>1. ObsTyped
      BY Parts DEF InParts
    <3>2. QED
      BY <1>1, <3>1, ClaimableRuns DEF ObsTyped
  <2>2. answered' \subseteq asks
    <3>1. InParts
      BY Parts
    <3>2. QED
      BY <1>1, <3>1 DEF InParts, ObsTyped
  <2>3. QED
    BY <1>1, <2>1, <2>2 DEF Callbacks!ObservationsOnce
<1>8. QED
  BY <1>2, <1>3, <1>5, <1>6, <1>7 DEF CallbacksKept, Callbacks!Next

\* The server fails the episode on a row.
LEMMA FailureSeen ==
  ASSUME RowsInv, RowsInv', FlagsInv, AsksInv, NEW r \in Rows, FailEpisode(r)
  PROVE  CallbacksKept
<1> DEFINE open == {c \in Conns : at[c] \in {"observe", "wait"} /\ ~live[c]}
           told == {a \in UNION {Unanswered(c) : c \in open} : a.row = r /\ a.gen = gen[r]}
<1>1. /\ table[r] # None /\ ~ending[r] /\ ~failed[r]
      /\ failed' = [failed EXCEPT ![r] = TRUE]
      /\ gen' = [gen EXCEPT ![r] = gen[r] + 1]
      /\ answered' = answered \cup told
      /\ UNCHANGED <<table, ending, at, batch, asks, obsNo, born>>
  BY DEF FailEpisode, connVars
<1>2. \A a \in told : Claimable(a)
  BY DEF Unanswered, Claimable
<1> HIDE DEF told
<1>3. InParts /\ PhaseFacts /\ PhaseFacts'
  BY Parts, PhaseOf, PTL
<1>4. gen \in [Rows -> Nat] /\ failed \in [Rows -> BOOLEAN] /\ ObsTyped
  BY <1>3 DEF InParts, RowsTyped
<1>5. \A q \in Rows : gen'[q] = (IF q = r THEN gen[q] + 1 ELSE gen[q]) /\ (failed'[q] <=> failed[q] \/ q = r)
  BY <1>1, <1>4
<1>6. FlagsInv'
  BY <1>1, <1>5 DEF FlagsInv, RowsIn
<1>7. AsksInv'
  <2>1. ASSUME NEW a \in asks
        PROVE  /\ a.no \in Nat /\ a.no <= obsNo'[a.conn]
               /\ a.gen \in Nat /\ a.gen <= gen'[a.row]
               /\ a.row \in Rows /\ (a.row = r => a.gen # gen'[a.row])
    <3>1. /\ a.no \in Nat /\ a.no <= obsNo[a.conn]
          /\ a.gen \in Nat /\ a.gen <= gen[a.row] /\ a.row \in Rows
      BY <1>4, <2>1 DEF AsksInv, ObsTyped
    <3>2. gen[a.row] \in Nat
      BY <1>4, <3>1
    <3>3. QED
      BY <1>1, <1>5, <3>1, <3>2
  <2>2. ASSUME NEW a \in asks \ answered', a.gen = gen'[a.row]
        PROVE  /\ table'[a.row] = a.episode /\ ~ending'[a.row] /\ ~failed'[a.row]
               /\ \A c \in Conns : at'[c] = "start" => a.row \notin RowsIn(batch[c])'
    <3>1. a.row \in Rows /\ a.row # r /\ a \in asks \ answered
      BY <1>1, <2>1, <2>2
    <3>2. gen'[a.row] = gen[a.row] /\ (failed'[a.row] <=> failed[a.row])
      BY <1>5, <3>1
    <3>3. QED
      BY <1>1, <2>2, <3>1, <3>2 DEF AsksInv, RowsIn
  <2>3. QED
    BY <1>1, <2>1, <2>2 DEF AsksInv
<1>8. \A e \in Episodes : /\ RowOf(e)' = RowOf(e)
                          /\ Phase(e)' = Phase(e) \/ <<Phase(e), Phase(e)'>> \in Callbacks!Moves
  <2> SUFFICES ASSUME NEW e \in Episodes
               PROVE  /\ RowOf(e)' = RowOf(e)
                      /\ Phase(e)' = Phase(e) \/ <<Phase(e), Phase(e)'>> \in Callbacks!Moves
    OBVIOUS
  <2>1. RowOf(e)' = RowOf(e)
    BY <1>1 DEF RowOf
  <2>2. CASE \E q \in Rows : table[q] = e
    <3>1. PICK q \in Rows : table[q] = e
      BY <2>2
    <3>2. Phase(e) = RowPhase(q) /\ Phase(e)' = RowPhase(q)'
      BY <1>1, <1>3, <3>1 DEF PhaseFacts
    <3>3. (\E c \in Conns : q \in StartBatch(c)') <=> (\E c \in Conns : q \in StartBatch(c))
      BY <1>1 DEF StartBatch, RowsIn
    <3>4. CASE q = r
      <4>1. RowPhase(q)' = "failed" /\ RowPhase(q) \in {"starting", "running"}
        BY <1>1, <1>5, <3>4 DEF RowPhase
      <4>2. QED
        BY <2>1, <3>2, <4>1 DEF Callbacks!Moves
    <3>5. CASE q # r
      <4>1. RowPhase(q)' = RowPhase(q)
        BY <1>1, <1>5, <3>3, <3>5 DEF RowPhase
      <4>2. QED
        BY <2>1, <3>2, <4>1
    <3>6. QED
      BY <2>1, <3>4, <3>5
  <2>3. CASE \A q \in Rows : table[q] # e
    BY <1>1, <1>3, <2>1, <2>3 DEF PhaseFacts
  <2>4. QED
    BY <2>1, <2>2, <2>3
<1>9. Callbacks!EpisodesMove
  BY <1>8 DEF Callbacks!EpisodesMove
<1>10. Callbacks!RowsStayApart
  BY <1>8, NextApart DEF Callbacks!RowsStayApart, Callbacks!Idle, EpisodesApart
<1>11. Callbacks!ObservationsOnce
  <2>1. \A a \in told : a \in asks /\ a.episode \in Episodes /\ Phase(a.episode) = "running"
    BY <1>2, <1>4, ClaimableRuns DEF ObsTyped
  <2>2. answered \subseteq asks
    BY <1>4 DEF ObsTyped
  <2>3. QED
    BY <1>1, <2>1, <2>2 DEF Callbacks!ObservationsOnce
<1>12. QED
  BY <1>6, <1>7, <1>9, <1>10, <1>11 DEF CallbacksKept, Callbacks!Next

LEMMA CallbacksNext ==
  ASSUME RowsInv, RowsInv', FlagsInv, AsksInv, [Next]_vars
  PROVE  CallbacksKept
<1>1. CASE \E c \in Conns : ConnSteps(c)
  BY <1>1, ConnStepsSeen
<1>2. CASE \E a \in asks : Answer(a)
  BY <1>2, AnswerSeen
<1>3. CASE \E r \in Rows : FailEpisode(r)
  BY <1>3, FailureSeen
<1>4. CASE UNCHANGED vars
  BY <1>4, NothingSeen DEF vars, rowVars, connVars, obsVars
<1>5. QED
  BY <1>1, <1>2, <1>3, <1>4 DEF Next, ConnSteps

LEMMA CallbacksInit == Init => FlagsInv /\ AsksInv /\ Callbacks!Init
<1> SUFFICES ASSUME Init
             PROVE  FlagsInv /\ AsksInv /\ Callbacks!Init
  OBVIOUS
<1>1. FlagsInv /\ AsksInv
  BY DEF Init, FlagsInv, AsksInv
<1>2. \A e \in Episodes : RowOf(e) = None /\ Phase(e) = "new"
  <2>1. RowsInv
    BY RowsInvInit
  <2>2. PhaseFacts
    BY <2>1, PhaseOf
  <2>3. ASSUME NEW e \in Episodes
        PROVE  e > born /\ \A r \in Rows : table[r] # e
    BY RowsAssumption DEF Init, Episodes, None
  <2>4. QED
    BY <2>2, <2>3 DEF PhaseFacts
<1>3. QED
  BY <1>1, <1>2 DEF Init, Callbacks!Init

\* A model server's callbacks see what EpisodeCallbacks promises, of any clients that
\* restart, fail, close or are cancelled and whatever rows they leave behind: a row is
\* one episode's from before on_episode_start until its end or failed start is over,
\* and an observation is given to the server while its episode runs, and answered
\* once, while it runs (_start_episodes, _end_episodes, _observe, _claim,
\* fail_episode, base.py; _handle_connection, _vector_step, serve.py).
THEOREM CallbacksImplemented == Spec => ImplementsCallbacks
<1>1. Init => FlagsInv /\ AsksInv /\ Callbacks!Init
  BY CallbacksInit
<1>2. RowsInv /\ RowsInv' /\ FlagsInv /\ AsksInv /\ [Next]_vars
        => FlagsInv' /\ AsksInv' /\ [Callbacks!Next]_(Callbacks!callbackVars)
  BY CallbacksNext DEF CallbacksKept
<1>3. QED
  BY <1>1, <1>2, RowsInvariant, PTL DEF Spec, ImplementsCallbacks, Callbacks!Spec

=============================================================================

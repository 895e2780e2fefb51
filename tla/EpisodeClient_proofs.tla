--------------------------- MODULE EpisodeClient_proofs ---------------------------
(***************************************************************************)
(* Proofs about the client half of EpisodeProtocol, on top of those about  *)
(* its server half: that client and server step the same episode, that     *)
(* nothing of an earlier one reaches the client, and that no mailbox       *)
(* outgrows its bound, for any connections, episodes, bounds, scenarios.   *)
(***************************************************************************)
EXTENDS EpisodeProtocol_proofs

-----------------------------------------------------------------------------
(* The inductive invariant.                                                *)

\* k numbers a message of episode i.
Ours(i, k) == NextSeq(i, 0) <= k /\ k < NextSeq(i + 1, 0)

\* A message is numbered by an episode that client cl has started.
Numbered(cl, m) == m.of <= cl.n /\ Ours(m.of, m.seq)

Wire(c) == {c.msg} \cup ToSet(c.up) \cup ToSet(c.down)

\* Observations in the socket are for the episode that its handler has, and
\* nothing is before them; a handler that has left holds no socket.
WireFits(c) ==
  /\ \A p \in 1 .. Len(c.up) : c.up[p].type = "obs" =>
       /\ c.row = c.up[p].of /\ c.at \in {"idle", "waiting"}
       /\ \A q \in 1 .. p : c.up[q].type = "obs"
  /\ c.at = "waiting" => c.msg.of = c.row
  /\ c.at \in {"leaving", "over"} => ~c.open

Stepping == {"sending", "asking", "acting"}
Begins   == {"restarting", "starting", "rolling"}

\* Where the episode n that the client waits for can be: in the socket, with
\* the handler, or begun.
StartingFits(n, c) ==
  /\ \A p \in 1 .. Len(c.up) : c.up[p].type = "start" /\ c.up[p].of = n => p = Len(c.up)
  /\ c.at \in Begins /\ c.msg.of = n => c.up = <<>>
  /\ \A m \in ToSet(c.down) : m.type = "ready" /\ m.of = n =>
       c.up = <<>> /\ c.at \in {"idle", "leaving", "over"} /\ (c.at = "idle" => c.row = n)

\* The handler has the episode n that the client steps, unless it has left.
SteppingFits(n, c) ==
  /\ c.at \in {"idle", "waiting", "leaving", "over"}
  /\ c.at \in {"idle", "waiting"} => c.row = n
  /\ \A p \in 1 .. Len(c.up) : c.up[p].type = "obs"

\* Connection s of a client cl.
ConnFits(cl, s, c) ==
  /\ \A m \in Wire(c) : Numbered(cl, m)
  /\ WireFits(c)
  /\ s = cl.sess /\ cl.at = "starting" => StartingFits(cl.n, c)
  /\ s = cl.sess /\ cl.at \in Stepping => SteppingFits(cl.n, c)

\* The observations an episode has seen and not answered, with some that it has.
Seen(e) == ToSet(e.box) \cup e.held \cup {d.seq : d \in ToSet(e.moving)}

\* Only a live client is told of a failed episode.
Silent(e) == mode # "live" => e.sink = "none"

\* What episode i has to answer, and what it may report, carry its numbers.
SeenFits(i, e) ==
  /\ Silent(e)
  /\ \A k \in Seen(e) : Ours(i, k)
  /\ IF e.stage = "none" THEN e.sink = "none" ELSE Ours(i, e.seq)

OfOrNone(n, m) == m.type # "none" => m.of = n

\* The client by itself.
PhaseFits(cl) ==
  /\ cl.epseq = NextSeq(cl.n, 0)
  /\ cl.at \in Stepping \cup {"starting"} => cl.n > 0 /\ cl.steps < scenario.steps
  /\ cl.at \in {"idle", "starting"} => cl.action = NoMsg
  /\ cl.at \in Stepping => OfOrNone(cl.n, cl.latest) /\ OfOrNone(cl.n, cl.action)
  /\ cl.blame \in {0, cl.n}

ClientInv ==
  /\ \A s \in Conns : ConnFits(client, s, conn[s])
  /\ \A i \in Episodes : SeenFits(i, ep[i])
  /\ PhaseFits(client)

-----------------------------------------------------------------------------
(* Numbers of messages.                                                    *)

LEMMA TimesGrows == \A a, b, c \in Nat : a <= b => a * c <= b * c /\ b * c \in Nat
<1> SUFFICES ASSUME NEW a \in Nat, NEW b \in Nat, NEW c \in Nat, a <= b PROVE a * c <= b * c /\ b * c \in Nat
  OBVIOUS
<1>1. PICK d \in Nat : b = a + d
  <2>1. b - a \in Nat /\ b = a + (b - a)
    OBVIOUS
  <2>2. QED
    BY <2>1
<1>2. a * c \in Nat /\ d * c \in Nat
  OBVIOUS
<1>3. b * c = a * c + d * c
  BY <1>1
<1>4. QED
  BY <1>2, <1>3

LEMMA StepsAreNumbers ==
  ASSUME DataOK PROVE scenario.steps \in Nat \ {0}
BY DaemonsAssumption DEF DataOK

LEMMA Numbering ==
  ASSUME DataOK, NEW i \in Nat
  PROVE  /\ NextSeq(i, 0) \in Nat
         /\ \A k \in Nat : NextSeq(i, k) = NextSeq(i, 0) + k
         /\ NextSeq(i + 1, 0) = NextSeq(i, 0) + scenario.steps + 2
         /\ \A j \in Nat : i < j => NextSeq(i + 1, 0) <= NextSeq(j, 0)
<1>2. scenario.steps \in Nat
  BY StepsAreNumbers
<1>1. PICK l \in Nat : l = scenario.steps + 2
  BY <1>2
<1>3. \A n \in Nat, k \in Nat : NextSeq(n, k) = n * l + k
  BY <1>1 DEF NextSeq
<1>4. \A n \in Nat : n * l \in Nat /\ NextSeq(n, 0) = n * l
  BY <1>3
<1>5. (i + 1) * l = i * l + l
  OBVIOUS
<1>6. \A j \in Nat : i < j => (i + 1) * l <= j * l
  <2>1. \A j \in Nat : i < j => i + 1 <= j
    OBVIOUS
  <2>2. i + 1 \in Nat
    OBVIOUS
  <2>3. QED
    BY <2>1, <2>2, TimesGrows
<1>7. i + 1 \in Nat
  OBVIOUS
<1>8. NextSeq(i + 1, 0) = (i + 1) * l
  BY <1>4, <1>7
<1>9. \A k \in Nat : NextSeq(i, k) = NextSeq(i, 0) + k
  BY <1>3, <1>4
<1>10. NextSeq(i + 1, 0) = NextSeq(i, 0) + scenario.steps + 2
  BY <1>1, <1>2, <1>4, <1>5, <1>8
<1>11. \A j \in Nat : i < j => NextSeq(i + 1, 0) <= NextSeq(j, 0)
  BY <1>4, <1>6, <1>8
<1>12. QED
  BY <1>4, <1>9, <1>10, <1>11

\* No number is of two episodes, and none of an earlier one comes after.
LEMMA OursApart ==
  ASSUME DataOK, NEW i \in Nat, NEW j \in Nat, NEW k \in Nat, Ours(i, k)
  PROVE  /\ Ours(j, k) => i = j
         /\ i <= j /\ k >= NextSeq(j, 0) => i = j
         /\ k = NextSeq(j, 0) => i = j
<1>1. /\ NextSeq(i, 0) \in Nat /\ NextSeq(j, 0) \in Nat /\ NextSeq(i + 1, 0) \in Nat /\ NextSeq(j + 1, 0) \in Nat
      /\ i < j => NextSeq(i + 1, 0) <= NextSeq(j, 0)
      /\ j < i => NextSeq(j + 1, 0) <= NextSeq(i, 0)
      /\ NextSeq(j, 0) < NextSeq(j + 1, 0)
  <2>1. i + 1 \in Nat /\ j + 1 \in Nat /\ scenario.steps \in Nat
    BY StepsAreNumbers
  <2>2. NextSeq(i + 1, 0) \in Nat /\ NextSeq(j + 1, 0) \in Nat
    BY <2>1, Numbering
  <2>3. NextSeq(i, 0) \in Nat /\ \A h \in Nat : i < h => NextSeq(i + 1, 0) <= NextSeq(h, 0)
    BY Numbering
  <2>4. /\ NextSeq(j, 0) \in Nat /\ NextSeq(j + 1, 0) = NextSeq(j, 0) + scenario.steps + 2
        /\ \A h \in Nat : j < h => NextSeq(j + 1, 0) <= NextSeq(h, 0)
    BY Numbering
  <2>5. QED
    BY <2>1, <2>2, <2>3, <2>4
<1>2. QED
  BY <1>1 DEF Ours

LEMMA OursOwn ==
  ASSUME DataOK, NEW i \in Nat, NEW k \in Nat, k <= scenario.steps + 1
  PROVE  Ours(i, NextSeq(i, k)) /\ NextSeq(i, k) \in Nat
<1>1. scenario.steps \in Nat
  BY StepsAreNumbers
<1>2. /\ NextSeq(i, 0) \in Nat /\ NextSeq(i, k) = NextSeq(i, 0) + k
      /\ NextSeq(i + 1, 0) = NextSeq(i, 0) + scenario.steps + 2
  BY Numbering
<1>3. QED
  BY <1>1, <1>2 DEF Ours

-----------------------------------------------------------------------------
(* What the steps of a handler leave of the wire.                          *)

\* Messages to the client that were not there are no EPISODE_READY.
DownFits(cl, c, d) == \A m \in ToSet(d.down) : m \in ToSet(c.down) \/ (Numbered(cl, m) /\ m.type # "ready")

\* d has read, of c, up to q.
Rest(c, d) ==
  /\ c.up # <<>> /\ Len(c.up) \in Nat \ {0} /\ Len(d.up) = Len(c.up) - 1
  /\ \A p \in 1 .. Len(d.up) : p + 1 \in 1 .. Len(c.up) /\ d.up[p] = c.up[p + 1]
  /\ Len(d.up) = 0 => d.up = <<>>

LEMMA RestOfTail ==
  ASSUME NEW c \in Connections, NEW d \in Connections, c.up # <<>>, d.up = Tail(c.up)
  PROVE  Rest(c, d) /\ ToSet(d.up) \subseteq ToSet(c.up) /\ Head(c.up) \in ToSet(c.up) /\ Head(c.up) = c.up[1]
<1>1. c.up \in Seq(Messages) /\ d.up \in Seq(Messages)
  BY DEF Connections
<1>2. /\ Len(c.up) \in Nat \ {0} /\ DOMAIN c.up = 1 .. Len(c.up) /\ Head(c.up) = c.up[1]
      /\ DOMAIN d.up = 1 .. Len(c.up) - 1 /\ Len(d.up) = Len(c.up) - 1
      /\ \A p \in 1 .. Len(c.up) - 1 : d.up[p] = c.up[p + 1]
  BY <1>1, TailFacts
<1>3. \A p \in 1 .. Len(c.up) - 1 : p + 1 \in 1 .. Len(c.up)
  BY <1>2
<1>4. Len(d.up) = 0 => d.up = <<>>
  BY <1>1, EmptySeq
<1>5. 1 \in DOMAIN c.up
  BY <1>2
<1>6. QED
  BY <1>2, <1>3, <1>4, <1>5 DEF Rest, ToSet

LEMMA AnswerFits ==
  ASSUME NEW cl, NEW s, NEW c \in Connections, NEW d \in Connections, ConnFits(cl, s, c), DownFits(cl, c, d),
         d.up = c.up, d.row = c.row, d.open => c.open, Numbered(cl, NoMsg),
         \/ d.at = c.at /\ d.msg = c.msg
         \/ c.at = "waiting" /\ d.at = "idle" /\ d.msg = NoMsg
  PROVE  ConnFits(cl, s, d)
BY DEF ConnFits, Wire, WireFits, DownFits, StartingFits, SteppingFits, Begins

LEMMA ReadFits ==
  ASSUME NEW cl, NEW s, NEW c \in Connections, NEW d \in Connections, ConnFits(cl, s, c),
         c.at = "idle", c.up # <<>>, d.up = Tail(c.up), d.down = c.down, d.row = c.row, d.open = c.open,
         NEW m, m = Head(c.up),
         \/ m.type = "obs" /\ d.at = "idle" /\ d.msg = c.msg
         \/ m.type = "obs" /\ d.at = "waiting" /\ d.msg = m
         \/ m.type = "start" /\ d.at = "restarting" /\ d.msg = m
         \/ m.type = "end" /\ d.at \in {"idle", "ending"} /\ d.msg = c.msg
  PROVE  ConnFits(cl, s, d)
<1>1. Rest(c, d) /\ ToSet(d.up) \subseteq ToSet(c.up) /\ m \in ToSet(c.up) /\ m = c.up[1] /\ 1 \in 1 .. Len(c.up)
  BY SMTT(20), RestOfTail DEF Rest
<1>2. \A x \in Wire(d) : Numbered(cl, x)
  BY <1>1 DEF ConnFits, Wire
<1>3. WireFits(d)
  <2>1. ASSUME NEW p \in 1 .. Len(d.up), d.up[p].type = "obs"
        PROVE  /\ d.row = d.up[p].of /\ d.at \in {"idle", "waiting"}
               /\ \A q \in 1 .. p : d.up[q].type = "obs"
    <3>1. /\ c.row = c.up[p + 1].of /\ d.up[p] = c.up[p + 1]
          /\ \A q \in 1 .. p + 1 : c.up[q].type = "obs"
      BY <1>1, <2>1 DEF Rest, ConnFits, WireFits
    <3>2. m.type = "obs" /\ \A q \in 1 .. p : q + 1 \in 1 .. p + 1 /\ q \in 1 .. Len(d.up)
      BY <1>1, <3>1 DEF Rest
    <3>3. QED
      BY <1>1, <3>1, <3>2 DEF Rest
  <2>2. d.at = "waiting" => d.msg.of = d.row
    BY <1>1 DEF ConnFits, WireFits
  <2>3. d.at \notin {"leaving", "over"}
    OBVIOUS
  <2>4. QED
    BY <2>1, <2>2, <2>3 DEF WireFits
<1>4. ASSUME StartingFits(cl.n, c), s = cl.sess, cl.at = "starting" PROVE StartingFits(cl.n, d)
  <2>1. ASSUME NEW p \in 1 .. Len(d.up), d.up[p].type = "start", d.up[p].of = cl.n PROVE p = Len(d.up)
    BY <1>1, <1>4, <2>1 DEF Rest, StartingFits
  <2>2. ASSUME d.at \in Begins, d.msg.of = cl.n PROVE d.up = <<>>
    BY <1>1, <1>4, <2>2 DEF Rest, StartingFits, Begins
  <2>3. ASSUME NEW x \in ToSet(d.down), x.type = "ready", x.of = cl.n PROVE FALSE
    BY <1>4, <2>3 DEF StartingFits
  <2>4. QED
    BY <2>1, <2>2, <2>3 DEF StartingFits
<1>5. ASSUME SteppingFits(cl.n, c) PROVE SteppingFits(cl.n, d)
  BY <1>1, <1>5 DEF Rest, SteppingFits
<1>6. QED
  BY <1>2, <1>3, <1>4, <1>5 DEF ConnFits

LEMMA BeginFits ==
  ASSUME NEW cl, NEW s, NEW c \in Connections, NEW d \in Connections, ConnFits(cl, s, c),
         c.at \in Begins, c.row = 0, d.up = c.up, d.open => c.open, Numbered(cl, NoMsg),
         \/ d.at \in Begins /\ d.msg = c.msg /\ d.down = c.down
         \/ d.at = "idle" /\ d.row = 0 /\ d.msg = NoMsg /\ DownFits(cl, c, d)
         \/ /\ d.at = "idle" /\ d.row = c.msg.of /\ d.msg = NoMsg
            /\ \A m \in ToSet(d.down) : m \in ToSet(c.down) \/ (Numbered(cl, m) /\ m.of = c.msg.of)
  PROVE  ConnFits(cl, s, d)
BY DEF ConnFits, Wire, WireFits, DownFits, StartingFits, SteppingFits, Begins

LEMMA LeaveFits ==
  ASSUME NEW cl, NEW s, NEW c \in Connections, NEW d \in Connections, ConnFits(cl, s, c), Numbered(cl, NoMsg),
         d.down = c.down, ~d.open, d.at \in {"over", "leaving"}, d.msg \in {c.msg, NoMsg}, d.up = <<>>
  PROVE  ConnFits(cl, s, d)
<1>1. ToSet(d.up) = {} /\ Len(d.up) = 0
  BY DEF ToSet
<1>2. QED
  BY <1>1 DEF ConnFits, Wire, WireFits, StartingFits, SteppingFits, Begins

LEMMA EndFits ==
  ASSUME NEW cl, NEW s, NEW c \in Connections, NEW d \in Connections, ConnFits(cl, s, c),
         d.down = c.down, d.open = c.open, d.msg = c.msg, d.up = c.up,
         \/ c.at = "restarting" /\ d.at = "restarting"
         \/ c.at = "ending" /\ d.at = "idle"
         \/ c.at = "leaving" /\ d.at = "over"
  PROVE  ConnFits(cl, s, d)
BY DEF ConnFits, Wire, WireFits, StartingFits, SteppingFits, Begins

-----------------------------------------------------------------------------
(* Replies, on whatever connection.                                        *)

ConnsFit == \A s \in Conns : ConnFits(client, s, conn'[s])
EpsFit   == \A i \in Episodes : SeenFits(i, ep'[i])

LEMMA NoMsgNumbered == ASSUME DataOK PROVE Numbered(client, NoMsg)
<1>1. client.n \in Nat
  BY DEF DataOK, ClientFits, Clients
<1>2. Ours(0, NextSeq(0, 0)) /\ NextSeq(0, 0) = 0
  BY OursOwn, StepsAreNumbers DEF NextSeq
<1>3. QED
  BY <1>1, <1>2 DEF Numbered, NoMsg

\* An episode that was started answers and reports by its own numbers.
LEMMA StartedNumbers ==
  ASSUME ServerInv, ClientInv, NEW i \in Episodes, ep[i].stage # "none"
  PROVE  /\ i \in Nat /\ i <= client.n /\ Ours(i, ep[i].seq) /\ ep[i].seq \in Nat
         /\ \A k \in Seen(ep[i]) : Ours(i, k)
<1>1. i \in Nat /\ client.n \in Nat /\ ep[i].seq \in Nat
  BY EpisodesAreNumbers DEF ServerInv, DataOK, ClientFits, Clients, EpisodeRows
<1>2. i <= client.n
  BY <1>1 DEF ServerInv, StartsFit
<1>3. QED
  BY <1>1, <1>2 DEF ClientInv, SeenFits

LEMMA SentFits ==
  ASSUME DataOK, NEW s, NEW c, ConnOK(c), ConnFits(client, s, c), NEW i \in Nat, NEW k \in Nat, i <= client.n, Ours(i, k),
         NEW type, type \in {"action", "error", "publish", "episode_error"}
  PROVE  ConnFits(client, s, Sent(c, type, k, i))
<1>1. PICK d : d = Sent(c, type, k, i)
  OBVIOUS
<1>2. PICK m : m = [type |-> type, seq |-> k, of |-> i]
  OBVIOUS
<1>3. ConnOK(d) /\ d.up = c.up /\ d.at = c.at /\ d.row = c.row /\ d.msg = c.msg /\ d.open = c.open
  BY <1>1, SentOK
<1>4. m.type # "ready" /\ Numbered(client, m) /\ m \in Messages
  BY <1>2 DEF Numbered, Messages
<1>5. d.down = c.down \/ d.down = Append(c.down, m)
  BY <1>1, <1>2 DEF Sent, ConnOK, Connections
<1>6. ToSet(Append(c.down, m)) = ToSet(c.down) \cup {m}
  BY <1>4, AppendFacts DEF ConnOK, Connections
<1>7. DownFits(client, c, d)
  BY <1>4, <1>5, <1>6 DEF DownFits
<1>8. QED
  BY <1>1, <1>3, <1>7, AnswerFits, NoMsgNumbered DEF ConnOK

LEMMA MarkFits ==
  ASSUME DataOK, NEW s, NEW c, ConnOK(c), ConnFits(client, s, c), NEW d, ConnOK(d),
         d.up = c.up, d.at = c.at, d.row = c.row, d.msg = c.msg, d.open = c.open, d.down = c.down
  PROVE  ConnFits(client, s, d)
<1>1. DownFits(client, c, d)
  BY DEF DownFits
<1>2. QED
  BY <1>1, AnswerFits, NoMsgNumbered DEF ConnOK

LEMMA AnsweredFits ==
  ASSUME DataOK, NEW s, NEW c, ConnOK(c), ConnFits(client, s, c), NEW i \in Nat, NEW k \in Nat, i <= client.n, Ours(i, k),
         NEW type, type \in {"action", "error"}
  PROVE  ConnFits(client, s, Answered(c, i, k, type))
<1>1. CASE mode = "live"
  BY <1>1, SentFits DEF Answered
<1>2. CASE mode # "live"
  <2>1. PICK d : d = Answered(c, i, k, type)
    OBVIOUS
  <2>2. ConnOK(d) /\ d.up = c.up /\ d.at = c.at /\ d.row = c.row /\ d.msg = c.msg /\ d.open = c.open
    BY <2>1, AnsweredOK
  <2>3. d.down = c.down
    BY <1>2, <2>1 DEF Answered, ConnOK, Connections
  <2>4. QED
    BY <2>1, <2>2, <2>3, MarkFits
<1>3. QED
  BY <1>1, <1>2

LEMMA SweptFits ==
  ASSUME DataOK, NEW s, NEW c, ConnOK(c), ConnFits(client, s, c)
  PROVE  ConnFits(client, s, Swept(c))
<1>1. PICK d : d = Swept(c)
  OBVIOUS
<1>2. ConnOK(d) /\ d.up = c.up /\ d.at = c.at /\ d.row = c.row /\ d.msg = c.msg /\ d.open = c.open
  BY <1>1, SweptOK
<1>3. d.down = c.down
  BY <1>1 DEF Swept, ConnOK, Connections
<1>4. QED
  BY <1>1, <1>2, <1>3, MarkFits

LEMMA ConnsStay == ASSUME ClientInv, UNCHANGED conn PROVE ConnsFit
BY DEF ClientInv, ConnsFit

\* One connection changes, if it is one.
LEMMA OneConn ==
  ASSUME DataOK, ClientInv, NEW s, NEW d, conn' = [conn EXCEPT ![s] = d], s \in Conns => ConnFits(client, s, d)
  PROVE  ConnsFit
BY DEF DataOK, ClientInv, ConnsFit

LEMMA EachConn ==
  ASSUME ServerInv, ClientInv, NEW s \in Conns
  PROVE  ConnOK(conn[s]) /\ conn[s] \in Connections /\ ConnFits(client, s, conn[s])
BY DEF ServerInv, ClientInv, DataOK, ConnOK

LEMMA SendFits ==
  ASSUME ServerInv, ClientInv, NEW s, NEW i \in Episodes, ep[i].stage # "none", NEW type, type \in {"publish", "episode_error"},
         conn' = [conn EXCEPT ![s] = Sent(@, type, ep[i].seq, i)]
  PROVE  ConnsFit
<1>1. s \in Conns => ConnFits(client, s, Sent(conn[s], type, ep[i].seq, i))
  BY StartedNumbers, EachConn, SentFits DEF ServerInv
<1>2. QED
  BY <1>1, OneConn DEF ServerInv

LEMMA AnswersFit ==
  ASSUME ServerInv, ClientInv, NEW s, NEW i \in Episodes, ep[i].stage # "none", NEW k \in Nat, k \in Seen(ep[i]),
         NEW type, type \in {"action", "error"},
         conn' = [conn EXCEPT ![s] = Answered(@, i, k, type)]
  PROVE  ConnsFit
<1>1. s \in Conns => ConnFits(client, s, Answered(conn[s], i, k, type))
  BY StartedNumbers, EachConn, AnsweredFits DEF ServerInv
<1>2. QED
  BY <1>1, OneConn DEF ServerInv

LEMMA SweepsFit ==
  ASSUME ServerInv, ClientInv, NEW s, conn' = [conn EXCEPT ![s] = Swept(@)]
  PROVE  ConnsFit
<1>1. s \in Conns => ConnFits(client, s, Swept(conn[s]))
  BY EachConn, SweptFits DEF ServerInv
<1>2. QED
  BY <1>1, OneConn DEF ServerInv

-----------------------------------------------------------------------------
(* What episodes have to answer.                                           *)

\* d has nothing to answer that e has not, and reports by the same number.
SeenLess(e, d) ==
  /\ Seen(d) \subseteq Seen(e) /\ d.seq = e.seq
  /\ d.stage = "none" <=> e.stage = "none"
  /\ d.stage # "none" \/ d.sink = e.sink
  /\ Silent(e) => Silent(d)

LEMMA LessFits == ASSUME NEW i, NEW e, NEW d, SeenFits(i, e), SeenLess(e, d) PROVE SeenFits(i, d)
BY DEF SeenFits, SeenLess

LEMMA EpsStay == ASSUME ClientInv, UNCHANGED ep PROVE EpsFit
BY DEF ClientInv, EpsFit

LEMMA OneEp ==
  ASSUME DataOK, ClientInv, NEW i \in Episodes, NEW e, ep' = [ep EXCEPT ![i] = e], SeenFits(i, e)
  PROVE  EpsFit
BY DEF DataOK, ClientInv, EpsFit

LEMMA OneEpLess ==
  ASSUME DataOK, ClientInv, NEW i \in Episodes, NEW e, ep' = [ep EXCEPT ![i] = e], SeenLess(ep[i], e)
  PROVE  EpsFit
BY LessFits, OneEp DEF ClientInv

LEMMA SameSeen ==
  ASSUME NEW e, NEW d, d.box = e.box, d.held = e.held, d.moving = e.moving, d.seq = e.seq,
         d.stage = "none" <=> e.stage = "none", d.sink = e.sink \/ (d.stage # "none" /\ (Silent(e) => Silent(d)))
  PROVE  SeenLess(e, d)
BY DEF SeenLess, Seen, Silent

LEMMA LessOfLess == ASSUME NEW e, NEW d, NEW f, SeenLess(e, d), SeenLess(d, f) PROVE SeenLess(e, f)
BY DEF SeenLess

LEMMA ClosedSeen ==
  ASSUME NEW e \in EpisodeRows
  PROVE  SeenLess(e, Closed(e)) /\ SeenLess(e, Failed(e))
<1>1. ToSet(<<>>) = {} /\ <<>> \in Seq(Nat)
  BY DEF ToSet
<1>2. PICK d : d = Closed(e)
  OBVIOUS
<1>3. /\ d.box = <<>> /\ d.held = e.held /\ d.moving = e.moving /\ d.seq = e.seq
      /\ d.stage = e.stage /\ d.sink = e.sink /\ d \in EpisodeRows
  BY <1>1, <1>2 DEF Closed, EpisodeRows
<1>4. SeenLess(e, d)
  BY <1>1, <1>3 DEF SeenLess, Seen, Silent
<1>5. SeenLess(e, Failed(e))
  <2>1. CASE Fails(e)
    <3>1. PICK s : s = IF mode = "live" THEN "due" ELSE "none"
      OBVIOUS
    <3>2. PICK f : f = [d EXCEPT !.failed = TRUE, !.current = FALSE, !.sink = s]
      OBVIOUS
    <3>3. Failed(e) = f
      BY <1>2, <2>1, <3>1, <3>2 DEF Failed
    <3>4. /\ f.box = d.box /\ f.held = d.held /\ f.moving = d.moving /\ f.seq = d.seq /\ f.stage = d.stage
          /\ d.stage = "run" /\ f.sink = s
      BY <1>3, <2>1, <3>2 DEF EpisodeRows, Fails
    <3>5. SeenLess(d, f)
      BY <3>1, <3>4, SameSeen DEF Silent
    <3>6. QED
      BY <1>4, <3>3, <3>5, LessOfLess
  <2>2. CASE ~Fails(e)
    BY <1>2, <1>4, <2>2 DEF Failed
  <2>3. QED
    BY <2>1, <2>2
<1>6. QED
  BY <1>2, <1>4, <1>5

LEMMA GoneSeen == ASSUME NEW e \in EpisodeRows, NEW t \in Tasks PROVE SeenLess(e, Gone(e, t))
<1>1. PICK d : d = [e EXCEPT !.task[t] = "off"]
  OBVIOUS
<1>2. d \in EpisodeRows /\ SeenLess(e, d)
  <2>1. /\ d \in EpisodeRows /\ d.box = e.box /\ d.held = e.held /\ d.moving = e.moving /\ d.seq = e.seq
        /\ d.stage = e.stage /\ d.sink = e.sink
    BY <1>1 DEF EpisodeRows
  <2>2. QED
    BY <2>1, SameSeen
<1>3. SeenLess(d, Failed(d))
  BY <1>2, ClosedSeen
<1>4. Gone(e, t) = d \/ Gone(e, t) = Failed(d)
  BY <1>1 DEF Gone
<1>5. QED
  BY <1>2, <1>3, <1>4, LessOfLess

\* A delivery that goes, or that settles once more.
LEMMA MovingSeen ==
  ASSUME NEW e \in EpisodeRows, e.moving # <<>>, NEW d \in EpisodeRows, NEW q, q = e.moving,
         d.box = e.box, d.held = e.held, d.seq = e.seq, d.stage = e.stage, d.sink = e.sink,
         NEW n \in Nat, d.moving \in {Tail(q), [q EXCEPT ![1].settles = n]}
  PROVE  SeenLess(e, d)
<1>1. q \in Seq(Deliveries)
  BY DEF EpisodeRows
<1>2. {x.seq : x \in ToSet(d.moving)} \subseteq {x.seq : x \in ToSet(q)}
  <2>1. CASE d.moving = Tail(q)
    <3>1. PICK r : r = Tail(q)
      OBVIOUS
    <3>2. /\ Len(q) \in Nat \ {0} /\ DOMAIN q = 1 .. Len(q) /\ DOMAIN r = 1 .. Len(q) - 1
          /\ \A p \in 1 .. Len(q) - 1 : r[p] = q[p + 1]
      BY <1>1, <3>1, TailFacts
    <3>3. \A p \in 1 .. Len(q) - 1 : p + 1 \in 1 .. Len(q)
      BY <3>2
    <3>4. QED
      BY <2>1, <3>1, <3>2, <3>3 DEF ToSet
  <2>2. ASSUME d.moving = [q EXCEPT ![1].settles = n]
        PROVE  {x.seq : x \in ToSet(d.moving)} \subseteq {x.seq : x \in ToSet(q)}
    <3>1. PICK r : r = d.moving
      OBVIOUS
    <3>2. DOMAIN q = 1 .. Len(q) /\ \A p \in 1 .. Len(q) : q[p] \in Deliveries
      BY <1>1, LenProperties, ElementOfSeq
    <3>3. DOMAIN r = DOMAIN q /\ \A p \in 1 .. Len(q) : r[p].seq = q[p].seq
      BY <2>2, <3>1, <3>2 DEF Deliveries
    <3>4. QED
      BY <3>1, <3>2, <3>3 DEF ToSet
  <2>3. QED
    BY <2>1, <2>2
<1>3. QED
  BY <1>2 DEF SeenLess, Seen, Silent

-----------------------------------------------------------------------------
(* Hosts, deliveries and tasks.                                            *)

BothFit == ConnsFit /\ EpsFit

LEMMA EachEp ==
  ASSUME ServerInv, NEW i \in Episodes
  PROVE  EpisodeOK(ep[i]) /\ ep[i] \in EpisodeRows /\ (OnStage(ep[i]) => ep[i].stage # "none")
BY DEF ServerInv, DataOK, EpisodeOK, OnStage

\* A step of an episode that leaves alone what it has to answer.
LEMMA AloneFits ==
  ASSUME ServerInv, ClientInv, NEW i \in Episodes, NEW e, ep' = [ep EXCEPT ![i] = e],
         e.box = ep[i].box, e.held = ep[i].held, e.moving = ep[i].moving, e.seq = ep[i].seq,
         e.stage = ep[i].stage, e.sink = ep[i].sink \/ (e.stage # "none" /\ (Silent(ep[i]) => Silent(e)))
  PROVE  EpsFit
BY SameSeen, OneEpLess DEF ServerInv

LEMMA HostFits == ASSUME ServerInv, ClientInv, NEW i \in Episodes, Hosts(i) PROVE BothFit
<1>1. ep[i] \in EpisodeRows /\ EpisodeOK(ep[i])
  BY EachEp
<1>2. CASE HostRuns(i)
  <2>1. PICK e : e = IF ep[i].closing THEN [ep[i] EXCEPT !.host = "drain"]
                     ELSE [ep[i] EXCEPT !.host = "up", !.task["root"] = "ready"]
    OBVIOUS
  <2>2. ep' = [ep EXCEPT ![i] = e] /\ UNCHANGED conn
    BY <1>2, <2>1 DEF HostRuns
  <2>3. /\ e.box = ep[i].box /\ e.held = ep[i].held /\ e.moving = ep[i].moving /\ e.seq = ep[i].seq
        /\ e.stage = ep[i].stage /\ e.sink = ep[i].sink
    BY <1>1, <2>1 DEF EpisodeRows
  <2>4. QED
    BY <2>2, <2>3, AloneFits, ConnsStay DEF BothFit
<1>3. CASE HostLeaves(i)
  <2>1. PICK d : d = Closed(ep[i])
    OBVIOUS
  <2>2. PICK e : e = [d EXCEPT !.host = "drain"]
    OBVIOUS
  <2>3. ep' = [ep EXCEPT ![i] = e] /\ UNCHANGED conn
    BY <1>3, <2>1, <2>2 DEF HostLeaves
  <2>4. SeenLess(ep[i], d) /\ d \in EpisodeRows
    <3>1. <<>> \in Seq(Nat)
      OBVIOUS
    <3>2. QED
      BY <1>1, <2>1, <3>1, ClosedSeen DEF Closed, EpisodeRows
  <2>5. SeenLess(d, e)
    <3>1. /\ e.box = d.box /\ e.held = d.held /\ e.moving = d.moving /\ e.seq = d.seq
          /\ e.stage = d.stage /\ e.sink = d.sink
      BY <2>2, <2>4 DEF EpisodeRows
    <3>2. QED
      BY <3>1, SameSeen
  <2>6. SeenLess(ep[i], e)
    BY <2>4, <2>5, LessOfLess
  <2>7. QED
    BY <2>3, <2>6, OneEpLess, ConnsStay DEF BothFit, ServerInv
<1>4. CASE HostExits(i)
  <2>1. PICK e : e = [ep[i] EXCEPT !.host = "exited"]
    OBVIOUS
  <2>2. ep' = [ep EXCEPT ![i] = e] /\ UNCHANGED conn
    BY <1>4, <2>1 DEF HostExits
  <2>3. /\ e.box = ep[i].box /\ e.held = ep[i].held /\ e.moving = ep[i].moving /\ e.seq = ep[i].seq
        /\ e.stage = ep[i].stage /\ e.sink = ep[i].sink
    BY <1>1, <2>1 DEF EpisodeRows
  <2>4. QED
    BY <2>2, <2>3, AloneFits, ConnsStay DEF BothFit
<1>5. CASE SendsError(i)
  <2>1. PICK e : e = [ep[i] EXCEPT !.sink = "sent"]
    OBVIOUS
  <2>2. ep' = [ep EXCEPT ![i] = e] /\ ep[i].sink = "due"
    BY <1>5, <2>1 DEF SendsError
  <2>3. ep[i].stage # "none"
    BY <2>2 DEF ClientInv, SeenFits
  <2>3a. Silent(ep[i]) => Silent(e)
    BY <2>2 DEF Silent
  <2>4. /\ e.box = ep[i].box /\ e.held = ep[i].held /\ e.moving = ep[i].moving /\ e.seq = ep[i].seq
        /\ e.stage = ep[i].stage
    BY <1>1, <2>1 DEF EpisodeRows
  <2>5. EpsFit
    BY <2>2, <2>3, <2>3a, <2>4, AloneFits
  <2>6. ConnsFit
    <3>1. CASE serve = "up"
      BY <1>5, <2>3, <3>1, SendFits DEF SendsError
    <3>2. CASE serve # "up"
      BY <1>5, <3>2, ConnsStay DEF SendsError
    <3>3. QED
      BY <3>1, <3>2
  <2>7. QED
    BY <2>5, <2>6 DEF BothFit
<1>6. QED
  BY <1>2, <1>3, <1>4, <1>5 DEF Hosts

\* A mailbox takes one of the observations that its episode has been sent.
LEMMA PutSeen ==
  ASSUME NEW e, EpisodeOK(e), NEW k \in Nat
  PROVE  LET d == Put(e, k) IN
         /\ Seen(d) \subseteq Seen(e) \cup {k} /\ d.seq = e.seq /\ d.stage = e.stage /\ d.sink = e.sink
         /\ d.held = e.held /\ d.moving = e.moving /\ ToSet(d.box) \subseteq ToSet(e.box) \cup {k}
<1>1. /\ ToSet(Append(e.box, k)) = ToSet(e.box) \cup {k} /\ ToSet(<<k>>) = {k}
      /\ Append(e.box, k) \in Seq(Nat) /\ <<k>> \in Seq(Nat)
  <2>1. Len(<<k>>) = 1 /\ <<k>>[1] = k /\ DOMAIN <<k>> = {1}
    OBVIOUS
  <2>2. ToSet(<<k>>) = {k}
    BY <2>1 DEF ToSet
  <2>3. QED
    BY <2>2, AppendFacts DEF EpisodeOK, EpisodeRows
<1>2. PICK d : d = Put(e, k)
  OBVIOUS
<1>3. /\ d.seq = e.seq /\ d.stage = e.stage /\ d.sink = e.sink /\ d.held = e.held /\ d.moving = e.moving
      /\ d.box \in {<<k>>, Append(e.box, k)}
  BY <1>2 DEF Put, EpisodeOK, EpisodeRows
<1>4. ToSet(d.box) \subseteq ToSet(e.box) \cup {k}
  BY <1>1, <1>3
<1>5. Seen(d) \subseteq Seen(e) \cup {k}
  BY <1>3, <1>4 DEF Seen
<1>6. QED
  BY <1>2, <1>3, <1>4, <1>5

LEMMA DeliveryFits == ASSUME ServerInv, ClientInv, NEW i \in Episodes, Delivers(i) PROVE BothFit
<1>1. /\ ep[i] \in EpisodeRows /\ EpisodeOK(ep[i]) /\ ep[i].moving # <<>>
  BY EachEp DEF Delivers, Admits, Settles, Settled, StopsMoving, Moving
<1>2. ep[i].stage # "none"
  BY <1>1, RunningIsOnStage, EachEp
<1>3. PICK q : q = ep[i].moving
  OBVIOUS
<1>4. /\ q[1] \in Deliveries /\ Head(q).seq \in Nat /\ Head(q) = q[1] /\ Tail(q) \in Seq(Deliveries)
      /\ \A x \in Deliveries : [q EXCEPT ![1] = x] \in Seq(Deliveries)
  BY <1>1, <1>3, MovingFacts
<1>5. q \in Seq(Deliveries) /\ Len(q) \in Nat /\ DOMAIN q = 1 .. Len(q) /\ 1 \in 1 .. Len(q)
  BY <1>1, <1>3, TailFacts DEF EpisodeRows
<1>6. Head(q).seq \in Seen(ep[i])
  BY <1>3, <1>4, <1>5 DEF Seen, ToSet
<1>7. PICK g : g = [ep[i] EXCEPT !.moving = Tail(q)]
  OBVIOUS
<1>8. g \in EpisodeRows /\ SeenLess(ep[i], g)
  <2>1. g \in EpisodeRows /\ g.moving = Tail(q) /\ g.box = ep[i].box /\ g.held = ep[i].held /\ g.seq = ep[i].seq
        /\ g.stage = ep[i].stage /\ g.sink = ep[i].sink
    BY <1>1, <1>4, <1>7 DEF EpisodeRows
  <2>2. g.moving \in {Tail(q), [q EXCEPT ![1].settles = 0]}
    BY <2>1
  <2>3. QED
    BY <1>1, <1>3, <2>1, <2>2, MovingSeen
<1>9. CASE Admits(i)
  <2>1. PICK k \in Nat : k = Head(q).seq
    BY <1>4
  <2>2. PICK p : p = Put(ep[i], k)
    OBVIOUS
  <2>3. PICK r : r = [q EXCEPT ![1].admitted = TRUE]
    OBVIOUS
  <2>4. PICK e : e = [p EXCEPT !.moving = r]
    OBVIOUS
  <2>5. /\ Seen(p) \subseteq Seen(ep[i]) /\ p.seq = ep[i].seq /\ p.stage = ep[i].stage /\ p.sink = ep[i].sink
        /\ p.held = ep[i].held /\ p.moving = q /\ p \in EpisodeRows /\ ~ep[i].closing
    BY <1>1, <1>3, <1>6, <1>9, <2>1, <2>2, PutSeen, PutOK DEF Admits, EpisodeOK
  <2>6. ep' = [ep EXCEPT ![i] = e] /\ UNCHANGED conn
    BY <1>3, <1>9, <2>1, <2>2, <2>3, <2>4, <2>5 DEF Admits
  <2>7. DOMAIN r = DOMAIN q /\ \A x \in 1 .. Len(q) : r[x].seq = q[x].seq
    <3>1. \A x \in 1 .. Len(q) : q[x] \in Deliveries
      BY <1>5, ElementOfSeq
    <3>2. QED
      BY <1>5, <2>3, <3>1 DEF Deliveries
  <2>8. {x.seq : x \in ToSet(r)} \subseteq {x.seq : x \in ToSet(q)}
    BY <1>5, <2>7 DEF ToSet
  <2>9. /\ e.box = p.box /\ e.held = p.held /\ e.moving = r /\ e.seq = p.seq /\ e.stage = p.stage /\ e.sink = p.sink
    BY <2>4, <2>5 DEF EpisodeRows
  <2>10. SeenLess(ep[i], e)
    BY <2>5, <2>8, <2>9 DEF SeenLess, Seen, Silent
  <2>11. QED
    BY <2>6, <2>10, OneEpLess, ConnsStay DEF BothFit, ServerInv
<1>10. CASE Settles(i) /\ Head(ep[i].moving).settles < MaxSettles
  <2>1. PICK n \in Nat : n = q[1].settles + 1
    BY <1>4 DEF Deliveries
  <2>2. PICK r : r = [q EXCEPT ![1].settles = n]
    OBVIOUS
  <2>3. PICK e : e = [ep[i] EXCEPT !.fresh = FALSE, !.moving = r]
    OBVIOUS
  <2>4. ep' = [ep EXCEPT ![i] = e] /\ UNCHANGED conn
    <3>1. ep' = [ep EXCEPT ![i].fresh = FALSE, ![i].moving[1].settles = @ + 1] /\ UNCHANGED conn
      BY <1>10 DEF Settles
    <3>2. [ep[i] EXCEPT !.fresh = FALSE, !.moving[1].settles = @ + 1] = e
      BY <1>1, <1>3, <1>5, <2>1, <2>2, <2>3 DEF EpisodeRows
    <3>3. ep \in [Episodes -> EpisodeRows]
      BY DEF ServerInv, DataOK
    <3>4. QED
      BY <3>1, <3>2, <3>3
  <2>5. r \in Seq(Deliveries)
    <3>1. PICK x : x = [q[1] EXCEPT !.settles = n]
      OBVIOUS
    <3>2. x \in Deliveries /\ r = [q EXCEPT ![1] = x]
      BY <1>4, <2>1, <2>2, <3>1 DEF Deliveries
    <3>3. QED
      BY <1>4, <3>2
  <2>6. /\ e \in EpisodeRows /\ e.moving = r /\ e.box = ep[i].box /\ e.held = ep[i].held /\ e.seq = ep[i].seq
        /\ e.stage = ep[i].stage /\ e.sink = ep[i].sink
    BY <1>1, <2>3, <2>5 DEF EpisodeRows
  <2>7. e.moving \in {Tail(q), [q EXCEPT ![1].settles = n]}
    BY <2>2, <2>6
  <2>8. SeenLess(ep[i], e)
    BY <1>1, <1>3, <2>6, <2>7, MovingSeen
  <2>9. QED
    BY <2>4, <2>8, OneEpLess, ConnsStay DEF BothFit, ServerInv
<1>11. CASE Settles(i) /\ ~(Head(ep[i].moving).settles < MaxSettles)
  <2>1. ep' = [ep EXCEPT ![i] = Failed(g)] /\ (UNCHANGED conn \/ conn' = [conn EXCEPT ![ep[i].conn] = Swept(@)])
    BY <1>3, <1>7, <1>11 DEF Settles, Fail
  <2>2. SeenLess(ep[i], Failed(g))
    BY <1>8, ClosedSeen, LessOfLess
  <2>3. QED
    BY <2>1, <2>2, OneEpLess, ConnsStay, SweepsFit DEF BothFit, ServerInv
<1>12. CASE Settled(i)
  BY <1>3, <1>7, <1>8, <1>12, OneEpLess, ConnsStay DEF BothFit, ServerInv, Settled
<1>13. CASE StopsMoving(i)
  <2>1. EpsFit
    BY <1>3, <1>7, <1>8, <1>13, OneEpLess DEF ServerInv, StopsMoving
  <2>2. PICK k \in Nat : k = Head(q).seq
    BY <1>4
  <2>3. UNCHANGED conn \/ conn' = [conn EXCEPT ![ep[i].conn] = Answered(@, i, k, "error")]
    BY <1>3, <1>13, <2>2 DEF StopsMoving
  <2>4. ConnsFit
    BY <1>2, <1>6, <2>2, <2>3, AnswersFit, ConnsStay
  <2>5. QED
    BY <2>1, <2>4 DEF BothFit
<1>14. QED
  BY <1>9, <1>10, <1>11, <1>12, <1>13 DEF Delivers

LEMMA TaskFits ==
  ASSUME ServerInv, ClientInv, NEW i \in Episodes, NEW t \in Tasks,
         \/ Finishes(i, t) \/ Raises(i, t) \/ Interrupts(i, t) \/ Publishes(i, t) \/ Cancelled(i, t)
         \/ Calls(i, t) \/ CallReturns(i, t)
  PROVE  BothFit
<1>1. ep[i] \in EpisodeRows /\ EpisodeOK(ep[i])
  BY EachEp
<1>2. SeenLess(ep[i], Gone(ep[i], t))
  BY <1>1, GoneSeen
<1>3. CASE Finishes(i, t)
  BY <1>2, <1>3, OneEpLess, ConnsStay, SweepsFit DEF BothFit, ServerInv, Finishes, TaskGoes
<1>4. CASE Raises(i, t)
  <2>1. PICK d : d = [ep[i] EXCEPT !.task[t] = "off"]
    OBVIOUS
  <2>2. ep' = [ep EXCEPT ![i] = Failed(d)] /\ (UNCHANGED conn \/ conn' = [conn EXCEPT ![ep[i].conn] = Swept(@)])
    BY <1>4, <2>1 DEF Raises, Fail
  <2>3. /\ d \in EpisodeRows /\ d.box = ep[i].box /\ d.held = ep[i].held /\ d.moving = ep[i].moving
        /\ d.seq = ep[i].seq /\ d.stage = ep[i].stage /\ d.sink = ep[i].sink
    BY <1>1, <2>1 DEF EpisodeRows
  <2>4. SeenLess(ep[i], Failed(d))
    BY <2>3, SameSeen, ClosedSeen, LessOfLess
  <2>5. QED
    BY <2>2, <2>4, OneEpLess, ConnsStay, SweepsFit DEF BothFit, ServerInv
<1>5. CASE Interrupts(i, t)
  <2>1. PICK d : d = Closed(ep[i])
    OBVIOUS
  <2>2. PICK e : e = [d EXCEPT !.task[t] = "off", !.control = TRUE]
    OBVIOUS
  <2>3. ep' = [ep EXCEPT ![i] = e] /\ UNCHANGED conn
    BY <1>5, <2>1, <2>2 DEF Interrupts
  <2>4. SeenLess(ep[i], d) /\ d \in EpisodeRows
    <3>1. <<>> \in Seq(Nat)
      OBVIOUS
    <3>2. QED
      BY <1>1, <2>1, <3>1, ClosedSeen DEF Closed, EpisodeRows
  <2>5. /\ e.box = d.box /\ e.held = d.held /\ e.moving = d.moving /\ e.seq = d.seq
        /\ e.stage = d.stage /\ e.sink = d.sink
    BY <2>2, <2>4 DEF EpisodeRows
  <2>6. SeenLess(ep[i], e)
    BY <2>4, <2>5, SameSeen, LessOfLess
  <2>7. QED
    BY <2>3, <2>6, OneEpLess, ConnsStay DEF BothFit, ServerInv
<1>6. CASE Publishes(i, t)
  <2>1. PICK e : e = [ep[i] EXCEPT !.published = @ + 1]
    OBVIOUS
  <2>2. ep' = [ep EXCEPT ![i] = e] /\ ep[i].task[t] = "ready"
    BY <1>6, <2>1 DEF Publishes, Ready
  <2>3. /\ e.box = ep[i].box /\ e.held = ep[i].held /\ e.moving = ep[i].moving /\ e.seq = ep[i].seq
        /\ e.stage = ep[i].stage /\ e.sink = ep[i].sink
    BY <1>1, <2>1 DEF EpisodeRows
  <2>4. ep[i].stage # "none"
    BY <1>1, <2>2, RunningIsOnStage, EachEp
  <2>5. ConnsFit
    BY <1>6, <2>4, SendFits DEF Publishes
  <2>6. QED
    BY <2>2, <2>3, <2>5, AloneFits DEF BothFit
<1>7. CASE Cancelled(i, t)
  BY <1>2, <1>7, OneEpLess, ConnsStay DEF BothFit, ServerInv, Cancelled
<1>8. CASE Calls(i, t)
  <2>1. PICK e : e = [ep[i] EXCEPT !.task[t] = "call"]
    OBVIOUS
  <2>2. ep' = [ep EXCEPT ![i] = e] /\ UNCHANGED conn
    BY <1>8, <2>1 DEF Calls
  <2>3. /\ e.box = ep[i].box /\ e.held = ep[i].held /\ e.moving = ep[i].moving /\ e.seq = ep[i].seq
        /\ e.stage = ep[i].stage /\ e.sink = ep[i].sink
    BY <1>1, <2>1 DEF EpisodeRows
  <2>4. QED
    BY <2>2, <2>3, AloneFits, ConnsStay DEF BothFit
<1>9. CASE CallReturns(i, t)
  <2>1. PICK d : d = IF ep[i].closing THEN Gone(ep[i], t) ELSE [ep[i] EXCEPT !.task[t] = "ready"]
    OBVIOUS
  <2>2. PICK e : e = [d EXCEPT !.fresh = (mode = "clocked")]
    OBVIOUS
  <2>3. ep' = [ep EXCEPT ![i] = e] /\ UNCHANGED conn
    BY <1>9, <2>1, <2>2 DEF CallReturns
  <2>4. SeenLess(ep[i], d) /\ d \in EpisodeRows
    <3>1. CASE ep[i].closing
      <4>1. Gone(ep[i], t) \in EpisodeRows
        <5>1. PICK g : g = [ep[i] EXCEPT !.task[t] = "off"]
          OBVIOUS
        <5>2. g \in EpisodeRows
          BY <1>1, <5>1 DEF EpisodeRows
        <5>3. Closed(g) \in EpisodeRows
          <6>1. <<>> \in Seq(Nat)
            OBVIOUS
          <6>2. QED
            BY <5>2, <6>1 DEF EpisodeRows, Closed
        <5>4. Failed(g) \in EpisodeRows
          <6>1. PICK h \in EpisodeRows : h = Closed(g)
            BY <5>3
          <6>2. PICK s \in {"none", "due"} : s = IF mode = "live" THEN "due" ELSE "none"
            OBVIOUS
          <6>3. [h EXCEPT !.failed = TRUE, !.current = FALSE, !.sink = s] \in EpisodeRows
            BY ZenonT(20), <6>1, <6>2 DEF EpisodeRows
          <6>4. QED
            BY <6>1, <6>2, <6>3 DEF Failed
        <5>5. QED
          BY <5>1, <5>2, <5>4 DEF Gone
      <4>2. QED
        BY <1>2, <2>1, <3>1, <4>1
    <3>2. CASE ~ep[i].closing
      <4>1. /\ d \in EpisodeRows /\ d.box = ep[i].box /\ d.held = ep[i].held /\ d.moving = ep[i].moving
            /\ d.seq = ep[i].seq /\ d.stage = ep[i].stage /\ d.sink = ep[i].sink
        BY <1>1, <2>1, <3>2 DEF EpisodeRows
      <4>2. QED
        BY <4>1, SameSeen
    <3>3. QED
      BY <3>1, <3>2
  <2>5. /\ e.box = d.box /\ e.held = d.held /\ e.moving = d.moving /\ e.seq = d.seq
        /\ e.stage = d.stage /\ e.sink = d.sink
    BY <2>2, <2>4 DEF EpisodeRows
  <2>6. SeenLess(ep[i], e)
    BY <2>4, <2>5, SameSeen, LessOfLess
  <2>7. QED
    BY <2>3, <2>6, OneEpLess, ConnsStay DEF BothFit, ServerInv
<1>10. QED
  BY <1>3, <1>4, <1>5, <1>6, <1>7, <1>8, <1>9

LEMMA RootFits ==
  ASSUME ServerInv, ClientInv, NEW i \in Episodes, Receive(i) \/ Spawns(i) \/ Visits(i)
  PROVE  BothFit
<1>1. ep[i] \in EpisodeRows /\ EpisodeOK(ep[i]) /\ UNCHANGED conn
  BY EachEp DEF Receive, Spawns, Visits
<1>2. CASE Receive(i)
  <2>1. PICK q \in Seq(Nat) : q = ep[i].box /\ q # <<>>
    BY <1>1, <1>2 DEF Receive, EpisodeRows
  <2>2. PICK e : e = [ep[i] EXCEPT !.box = Tail(q), !.held = @ \cup {Head(q)}]
    OBVIOUS
  <2>3. ep' = [ep EXCEPT ![i] = e]
    BY <1>2, <2>1, <2>2 DEF Receive
  <2>4. /\ Head(q) = q[1] /\ Len(q) \in Nat \ {0} /\ DOMAIN q = 1 .. Len(q) /\ DOMAIN Tail(q) = 1 .. Len(q) - 1
        /\ \A p \in 1 .. Len(q) - 1 : Tail(q)[p] = q[p + 1]
    BY <2>1, TailFacts
  <2>5. ToSet(Tail(q)) \subseteq ToSet(q) /\ Head(q) \in ToSet(q)
    <3>1. \A p \in 1 .. Len(q) - 1 : p + 1 \in 1 .. Len(q)
      BY <2>4
    <3>2. 1 \in 1 .. Len(q)
      BY <2>4
    <3>3. QED
      BY <2>4, <3>1, <3>2 DEF ToSet
  <2>6. /\ e.box = Tail(q) /\ e.held = ep[i].held \cup {Head(q)} /\ e.moving = ep[i].moving /\ e.seq = ep[i].seq
        /\ e.stage = ep[i].stage /\ e.sink = ep[i].sink
    BY <1>1, <2>2 DEF EpisodeRows
  <2>7. SeenLess(ep[i], e)
    BY <2>1, <2>5, <2>6 DEF SeenLess, Seen, Silent
  <2>8. QED
    BY <1>1, <2>3, <2>7, OneEpLess, ConnsStay DEF BothFit, ServerInv
<1>3. CASE Spawns(i) \/ Visits(i)
  <2>1. PICK t \in Tasks : ep' = [ep EXCEPT ![i].task[t] = "ready"]
    BY <1>3 DEF Spawns, Visits, Tasks
  <2>2. PICK e : e = [ep[i] EXCEPT !.task[t] = "ready"]
    OBVIOUS
  <2>3. /\ e.box = ep[i].box /\ e.held = ep[i].held /\ e.moving = ep[i].moving /\ e.seq = ep[i].seq
        /\ e.stage = ep[i].stage /\ e.sink = ep[i].sink
    BY <1>1, <2>2 DEF EpisodeRows
  <2>4. QED
    BY <1>1, <2>1, <2>2, <2>3, AloneFits, ConnsStay DEF BothFit
<1>4. QED
  BY <1>2, <1>3

LEMMA ReplyFits ==
  ASSUME ServerInv, ClientInv, NEW i \in Episodes, NEW k \in ep[i].held, NEW type, type \in {"action", "error"},
         Reply(i, k, type)
  PROVE  BothFit
<1>1. ep[i] \in EpisodeRows /\ EpisodeOK(ep[i]) /\ k \in Nat /\ k \in Seen(ep[i])
  BY EachEp DEF EpisodeRows, Seen
<1>2. PICK e : e = [ep[i] EXCEPT !.held = @ \ {k}]
  OBVIOUS
<1>3. ep' = [ep EXCEPT ![i] = e]
  BY <1>2 DEF Reply
<1>4. SeenLess(ep[i], e)
  <2>1. /\ e.box = ep[i].box /\ e.held = ep[i].held \ {k} /\ e.moving = ep[i].moving /\ e.seq = ep[i].seq
        /\ e.stage = ep[i].stage /\ e.sink = ep[i].sink
    BY <1>1, <1>2 DEF EpisodeRows
  <2>2. QED
    BY <2>1 DEF SeenLess, Seen, Silent
<1>5. ep[i].stage # "none"
  <2>1. PICK t \in Tasks : ep[i].task[t] = "ready"
    BY DEF Reply, Ready
  <2>2. QED
    BY <1>1, <2>1, RunningIsOnStage, EachEp
<1>6. ConnsFit
  <2>1. CASE ep[i].current
    <3>1. conn' = [conn EXCEPT ![ep[i].conn] = Answered(@, i, k, type)]
      BY <2>1 DEF Reply
    <3>2. QED
      BY <1>1, <1>5, <3>1, AnswersFit
  <2>2. CASE ~ep[i].current
    BY <2>2, ConnsStay DEF Reply
  <2>3. QED
    BY <2>1, <2>2
<1>7. QED
  BY <1>3, <1>4, <1>6, OneEpLess DEF BothFit, ServerInv

LEMMA ShutdownFits == ASSUME ServerInv, ClientInv, Shutdown \/ Sweeps PROVE BothFit
<1>1. ConnsFit
  BY ConnsStay DEF Shutdown, Sweeps
<1>2. CASE Shutdown
  BY <1>1, <1>2, EpsStay DEF BothFit, Shutdown
<1>3. CASE Sweeps
  <2>1. ASSUME NEW i \in Episodes PROVE SeenFits(i, ep'[i])
    <3>1. ep'[i] = IF ep[i].stage = "run" THEN Closed(ep[i]) ELSE ep[i]
      BY <1>3 DEF Sweeps
    <3>2. SeenFits(i, ep[i]) /\ SeenLess(ep[i], Closed(ep[i]))
      BY EachEp, ClosedSeen DEF ClientInv
    <3>3. QED
      BY <3>1, <3>2, LessFits
  <2>2. QED
    BY <1>1, <2>1 DEF BothFit, EpsFit
<1>4. QED
  BY <1>2, <1>3

-----------------------------------------------------------------------------
(* Handlers.                                                               *)

LEMMA RowStarted ==
  ASSUME ServerInv, NEW s \in Conns, conn[s].row # 0
  PROVE  /\ conn[s].row \in Episodes /\ ep[conn[s].row].stage # "none" /\ ep[conn[s].row] \in EpisodeRows
         /\ EpisodeOK(ep[conn[s].row])
<1>1. conn[s].row \in Episodes
  BY DEF ServerInv, DataOK, Connections
<1>2. ep[conn[s].row].stage # "none"
  BY DEF ServerInv, RowsFit
<1>3. QED
  BY <1>1, <1>2, EachEp

LEMMA EndingFits ==
  ASSUME ServerInv, ClientInv, NEW s \in Conns,
         ep' = IF conn[s].row = 0 THEN ep ELSE [ep EXCEPT ![conn[s].row] = Ending(@)]
  PROVE  EpsFit
<1>1. CASE conn[s].row = 0
  BY <1>1, EpsStay
<1>2. CASE conn[s].row # 0
  <2>1. PICK i \in Episodes : i = conn[s].row /\ ep[i].stage # "none" /\ ep[i] \in EpisodeRows
    BY <1>2, RowStarted
  <2>2. PICK e : e = Ending(ep[i])
    OBVIOUS
  <2>3. /\ e.box = ep[i].box /\ e.held = ep[i].held /\ e.moving = ep[i].moving /\ e.seq = ep[i].seq
        /\ e.stage = "end" /\ e.sink = ep[i].sink
    BY <2>1, <2>2 DEF EpisodeRows, Ending
  <2>4. QED
    BY <1>2, <2>1, <2>2, <2>3, SameSeen, OneEpLess DEF ServerInv
<1>3. QED
  BY <1>1, <1>2

LEMMA ReleasedSeen ==
  ASSUME NEW e \in EpisodeRows, e.stage # "none"
  PROVE  SeenLess(e, Released(e)) /\ SeenLess(e, Released(Finished(e)))
<1>1. ToSet(<<>>) = {}
  BY DEF ToSet
<1>2. ASSUME NEW f, f.seq = e.seq, f.sink = e.sink PROVE SeenLess(e, Released(f))
  <2>1. PICK d : d = Released(f)
    OBVIOUS
  <2>2. d.box = <<>> /\ d.held = {} /\ d.moving = <<>> /\ d.seq = e.seq /\ d.stage = "over" /\ d.sink = e.sink
    BY <1>2, <2>1 DEF Released, NewEpisode
  <2>3. Seen(d) = {}
    BY <1>1, <2>2 DEF Seen
  <2>4. QED
    BY <2>1, <2>2, <2>3 DEF SeenLess, Silent
<1>3. Finished(e).seq = e.seq /\ Finished(e).sink = e.sink
  BY DEF Finished, EpisodeRows
<1>4. QED
  BY <1>2, <1>3

\* A handler takes a message.
LEMMA TakingFits ==
  ASSUME ServerInv, ClientInv, NEW s \in Conns, ReadStart(s) \/ ReadEnd(s)
  PROVE  BothFit
<1>1. PICK c \in Connections : c = conn[s] /\ ConnOK(c) /\ ConnFits(client, s, c)
  BY EachConn
<1>2. PICK m : m = Head(c.up)
  OBVIOUS
<1>3. c.at = "idle" /\ c.up # <<>>
  BY <1>1 DEF ReadStart, ReadEnd, Reads
<1>4. m \in Messages /\ Tail(c.up) \in Seq(Messages)
  BY <1>1, <1>2, <1>3, TakeFacts DEF ServerInv
<1>5. EpsFit
  BY EndingFits DEF ReadStart, ReadEnd
<1>6. CASE ReadStart(s)
  <2>1. PICK d : d = [c EXCEPT !.up = Tail(@), !.msg = m, !.at = "restarting"]
    OBVIOUS
  <2>2. conn' = [conn EXCEPT ![s] = d] /\ m.type = "start"
    BY <1>1, <1>2, <1>6, <2>1 DEF ReadStart, Reads
  <2>3. /\ d \in Connections /\ d.up = Tail(c.up) /\ d.down = c.down /\ d.row = c.row /\ d.open = c.open
        /\ d.at = "restarting" /\ d.msg = m
    BY <1>4, <2>1 DEF Connections
  <2>4. ConnFits(client, s, d)
    BY <1>1, <1>2, <1>3, <2>2, <2>3, ReadFits
  <2>5. QED
    BY <1>5, <2>2, <2>4, OneConn DEF BothFit, ServerInv
<1>7. CASE ReadEnd(s)
  <2>1. PICK d : d = [c EXCEPT !.up = Tail(@), !.at = IF c.row = 0 THEN "idle" ELSE "ending"]
    OBVIOUS
  <2>2. conn' = [conn EXCEPT ![s] = d] /\ m.type = "end"
    BY <1>1, <1>2, <1>7, <2>1 DEF ReadEnd, Reads
  <2>3. /\ d \in Connections /\ d.up = Tail(c.up) /\ d.down = c.down /\ d.row = c.row /\ d.open = c.open
        /\ d.at \in {"idle", "ending"} /\ d.msg = c.msg
    BY <1>4, <2>1 DEF Connections
  <2>4. ConnFits(client, s, d)
    BY <1>1, <1>2, <1>3, <2>2, <2>3, ReadFits
  <2>5. QED
    BY <1>5, <2>2, <2>4, OneConn DEF BothFit, ServerInv
<1>8. QED
  BY <1>6, <1>7

LEMMA ObservesFit == ASSUME ServerInv, ClientInv, NEW s \in Conns, Observe(s) PROVE BothFit
<1>0. DataOK /\ AllFit
  BY DEF ServerInv, AllFit
<1>1. PICK c \in Connections : c = conn[s] /\ ConnOK(c) /\ ConnFits(client, s, c)
  BY EachConn
<1>2. PICK m : m = Head(c.up)
  OBVIOUS
<1>3. c.at = "idle" /\ c.up # <<>> /\ m.type = "obs" /\ c.row # 0
  BY <1>1, <1>2 DEF Observe, Reads
<1>4. m \in Messages /\ Tail(c.up) \in Seq(Messages) /\ m = c.up[1] /\ 1 \in 1 .. Len(c.up) /\ m \in ToSet(c.up)
  <2>1. m \in Messages /\ Tail(c.up) \in Seq(Messages) /\ m = c.up[1] /\ 1 \in 1 .. Len(c.up)
    BY <1>0, <1>1, <1>2, <1>3, TakeFacts
  <2>2. DOMAIN c.up = 1 .. Len(c.up)
    BY DEF Connections
  <2>3. QED
    BY <2>1, <2>2 DEF ToSet
<1>5. PICK i \in Episodes : i = c.row /\ ep[i].stage # "none" /\ ep[i] \in EpisodeRows /\ EpisodeOK(ep[i])
  BY <1>1, <1>3, RowStarted
<1>6. PICK k \in Nat : k = m.seq
  BY <1>4 DEF Messages
<1>7. m.of = i /\ Ours(i, k) /\ i <= client.n /\ i \in Nat
  <2>1. m.of = i
    BY <1>1, <1>3, <1>4, <1>5 DEF ConnFits, WireFits
  <2>2. Numbered(client, m)
    BY <1>1, <1>4 DEF ConnFits, Wire
  <2>3. QED
    BY <1>6, <2>1, <2>2, EpisodesAreNumbers DEF Numbered
<1>8. ConnsFit
  <2>1. PICK r : r = IF mode = "live" THEN Read(c) ELSE ReadWaiting(c)
    OBVIOUS
  <2>2. r \in Connections /\ ConnOK(r)
    BY <1>1, <1>2, <1>3, <1>4, <2>1 DEF Read, ReadWaiting, Connections, ConnOK, HandlerFits
  <2>3. /\ r.up = Tail(c.up) /\ r.down = c.down /\ r.row = c.row /\ r.open = c.open
        /\ (r.at = "idle" /\ r.msg = c.msg) \/ (r.at = "waiting" /\ r.msg = m)
    BY <1>2, <1>3, <2>1 DEF Read, ReadWaiting, Connections
  <2>4. ConnFits(client, s, r)
    BY <1>1, <1>2, <1>3, <2>2, <2>3, ReadFits
  <2>5. ConnFits(client, s, Answered(r, i, k, "error")) /\ ConnFits(client, s, Swept(r))
    BY <1>0, <1>7, <2>2, <2>4, AnsweredFits, SweptFits
  <2>6. \/ conn' = [conn EXCEPT ![s] = r]
        \/ conn' = [conn EXCEPT ![s] = Answered(r, i, k, "error")]
        \/ conn' = [conn EXCEPT ![s] = Swept(r)]
    BY <1>1, <1>2, <1>5, <1>6, <2>1 DEF Observe, Read, ReadWaiting
  <2>7. QED
    BY <1>0, <2>4, <2>5, <2>6, OneConn
<1>9. EpsFit
  <2>1. CASE ep' = [ep EXCEPT ![i].moving = Append(@, [seq |-> k, admitted |-> FALSE, settles |-> 0])]
    <3>1. PICK x : x = [seq |-> k, admitted |-> FALSE, settles |-> 0]
      OBVIOUS
    <3>2. PICK q : q = Append(ep[i].moving, x)
      OBVIOUS
    <3>3. PICK e : e = [ep[i] EXCEPT !.moving = q]
      OBVIOUS
    <3>4. x \in Deliveries /\ x.seq = k
      BY <3>1 DEF Deliveries
    <3>5. ToSet(q) = ToSet(ep[i].moving) \cup {x}
      BY <1>5, <3>2, <3>4, AppendFacts DEF EpisodeRows
    <3>6. /\ e.box = ep[i].box /\ e.held = ep[i].held /\ e.moving = q /\ e.seq = ep[i].seq
          /\ e.stage = ep[i].stage /\ e.sink = ep[i].sink
      BY <1>5, <3>3 DEF EpisodeRows
    <3>7. Seen(e) \subseteq Seen(ep[i]) \cup {k}
      BY <3>4, <3>5, <3>6 DEF Seen
    <3>8. SeenFits(i, ep[i])
      BY DEF ClientInv
    <3>9. SeenFits(i, e)
      BY <1>7, <3>6, <3>7, <3>8 DEF SeenFits, Silent
    <3>10. QED
      BY <1>0, <2>1, <3>1, <3>2, <3>3, <3>9, OneEp
  <2>2. CASE ep' = [ep EXCEPT ![i] = Failed(@)]
    BY <1>0, <1>5, <2>2, ClosedSeen, OneEpLess
  <2>3. CASE ep' = [ep EXCEPT ![i] = Put(@, k)]
    <3>1. PICK e : e = Put(ep[i], k)
      OBVIOUS
    <3>2. Seen(e) \subseteq Seen(ep[i]) \cup {k} /\ e.seq = ep[i].seq /\ e.stage = ep[i].stage /\ e.sink = ep[i].sink
      BY <1>5, <3>1, PutSeen
    <3>3. SeenFits(i, ep[i])
      BY DEF ClientInv
    <3>4. SeenFits(i, e)
      BY <1>7, <3>2, <3>3 DEF SeenFits, Silent
    <3>5. QED
      BY <1>0, <2>3, <3>1, <3>4, OneEp
  <2>4. \/ UNCHANGED ep
        \/ ep' = [ep EXCEPT ![i].moving = Append(@, [seq |-> k, admitted |-> FALSE, settles |-> 0])]
        \/ ep' = [ep EXCEPT ![i] = Failed(@)]
        \/ ep' = [ep EXCEPT ![i] = Put(@, k)]
    BY <1>1, <1>2, <1>5, <1>6 DEF Observe
  <2>5. QED
    BY <2>1, <2>2, <2>3, <2>4, EpsStay
<1>10. QED
  BY <1>8, <1>9 DEF BothFit

LEMMA WaitsFit ==
  ASSUME ServerInv, ClientInv, NEW s \in Conns, Replies(s) \/ StopsWaiting(s)
  PROVE  BothFit
<1>0. DataOK
  BY DEF ServerInv
<1>1. PICK c \in Connections : c = conn[s] /\ ConnOK(c) /\ ConnFits(client, s, c)
  BY EachConn
<1>2. c.at = "waiting" /\ UNCHANGED ep
  BY <1>1 DEF Replies, StopsWaiting
<1>3. PICK b : /\ ConnOK(b) /\ ConnFits(client, s, b) /\ b.at = "waiting" /\ conn' = [conn EXCEPT ![s] = Idle(b)]
  <2>1. CASE StopsWaiting(s)
    BY <1>1, <1>2, <2>1 DEF StopsWaiting
  <2>2. CASE Replies(s)
    <3>1. PICK i \in Episodes : i = c.row
      BY <1>1, <1>2 DEF ConnOK, Connections, HandlerFits
    <3>2. PICK k \in Nat : k = c.msg.seq
      BY DEF Connections, Messages
    <3>3. Numbered(client, c.msg) /\ c.msg.of = i
      BY <1>1, <1>2, <3>1 DEF ConnFits, Wire, WireFits
    <3>4. Ours(i, k) /\ i <= client.n /\ i \in Nat
      BY <3>2, <3>3, EpisodesAreNumbers DEF Numbered
    <3>5. PICK type \in {"action", "error"} : type = c.answer
      BY <1>1, <2>2 DEF Replies, Connections
    <3>6. PICK b : b = Sent(c, type, k, i)
      OBVIOUS
    <3>7. ConnFits(client, s, b) /\ ConnOK(b) /\ b.at = "waiting"
      BY <1>0, <1>1, <1>2, <3>4, <3>6, SentFits, SentOK
    <3>8. QED
      BY <1>1, <2>2, <3>1, <3>2, <3>5, <3>6, <3>7 DEF Replies
  <2>3. QED
    BY <2>1, <2>2
<1>4. PICK d : d = Idle(b)
  OBVIOUS
<1>5. ConnOK(d) /\ d.up = b.up /\ d.at = "idle" /\ d.row = b.row /\ d.down = b.down /\ d.open = b.open /\ d.msg = NoMsg
  BY <1>3, <1>4, IdleOK
<1>6. DownFits(client, b, d)
  BY <1>5 DEF DownFits
<1>7. ConnFits(client, s, d)
  BY <1>0, <1>3, <1>5, <1>6, AnswerFits, NoMsgNumbered DEF ConnOK
<1>8. QED
  BY <1>0, <1>2, <1>3, <1>4, <1>7, OneConn, EpsStay DEF BothFit

LEMMA LeavesFit == ASSUME ServerInv, ClientInv, NEW s \in Conns, Leaves(s) PROVE BothFit
<1>0. DataOK
  BY DEF ServerInv
<1>1. PICK c \in Connections : c = conn[s] /\ ConnOK(c) /\ ConnFits(client, s, c)
  BY EachConn
<1>2. PICK d : d = [c EXCEPT !.at = IF c.row = 0 THEN "over" ELSE "leaving",
                             !.open = FALSE, !.up = <<>>, !.msg = NoMsg, !.answer = "none"]
  OBVIOUS
<1>3. conn' = [conn EXCEPT ![s] = d]
  BY <1>1, <1>2 DEF Leaves
<1>4. NoMsg \in Messages /\ <<>> \in Seq(Messages)
  BY DEF NoMsg, Messages
<1>5. /\ d \in Connections /\ d.down = c.down /\ ~d.open /\ d.at \in {"over", "leaving"} /\ d.msg = NoMsg /\ d.up = <<>>
  BY <1>2, <1>4 DEF Connections
<1>6. ConnFits(client, s, d)
  BY <1>0, <1>1, <1>5, LeaveFits, NoMsgNumbered
<1>7. EpsFit
  BY EndingFits DEF Leaves
<1>8. QED
  BY <1>0, <1>3, <1>6, <1>7, OneConn DEF BothFit

LEMMA EndsFit ==
  ASSUME ServerInv, ClientInv, NEW s \in Conns, CloseEnded(s) \/ FinishEnded(s) \/ Ended(s)
  PROVE  BothFit
<1>0. DataOK
  BY DEF ServerInv
<1>1. PICK c \in Connections : c = conn[s] /\ ConnOK(c) /\ ConnFits(client, s, c)
  BY EachConn
<1>2. c.row # 0 /\ c.at \in {"restarting", "ending", "leaving"}
  BY <1>1 DEF CloseEnded, FinishEnded, Ended, IsEnding
<1>3. PICK i \in Episodes : i = c.row /\ ep[i].stage # "none" /\ ep[i] \in EpisodeRows /\ EpisodeOK(ep[i])
  BY <1>1, <1>2, RowStarted
<1>4. CASE CloseEnded(s)
  <2>1. PICK d : d = Closed(ep[i])
    OBVIOUS
  <2>2. PICK e : e = [d EXCEPT !.stage = "closed"]
    OBVIOUS
  <2>3. ep' = [ep EXCEPT ![i] = e] /\ UNCHANGED conn
    BY <1>1, <1>3, <1>4, <2>1, <2>2 DEF CloseEnded
  <2>4. SeenLess(ep[i], d) /\ d \in EpisodeRows /\ d.stage # "none"
    <3>1. <<>> \in Seq(Nat)
      OBVIOUS
    <3>2. QED
      BY <1>3, <2>1, <3>1, ClosedSeen DEF Closed, EpisodeRows
  <2>5. /\ e.box = d.box /\ e.held = d.held /\ e.moving = d.moving /\ e.seq = d.seq /\ e.stage = "closed"
        /\ e.sink = d.sink
    BY <2>2, <2>4 DEF EpisodeRows
  <2>6. SeenLess(ep[i], e)
    BY <2>4, <2>5, SameSeen, LessOfLess
  <2>7. QED
    BY <1>0, <2>3, <2>6, OneEpLess, ConnsStay DEF BothFit
<1>5. CASE FinishEnded(s)
  <2>1. PICK e : e = [ep[i] EXCEPT !.stage = "finish"]
    OBVIOUS
  <2>2. ep' = [ep EXCEPT ![i] = e] /\ UNCHANGED conn
    BY <1>1, <1>3, <1>5, <2>1 DEF FinishEnded
  <2>3. /\ e.box = ep[i].box /\ e.held = ep[i].held /\ e.moving = ep[i].moving /\ e.seq = ep[i].seq /\ e.stage = "finish"
        /\ e.sink = ep[i].sink
    BY <1>3, <2>1 DEF EpisodeRows
  <2>4. SeenLess(ep[i], e)
    BY <1>3, <2>3, SameSeen
  <2>5. QED
    BY <1>0, <2>2, <2>4, OneEpLess, ConnsStay DEF BothFit
<1>6. CASE Ended(s)
  <2>1. ep' = [ep EXCEPT ![i] = Released(Finished(ep[i]))]
    BY <1>1, <1>3, <1>6 DEF Ended
  <2>2. EpsFit
    BY <1>0, <1>3, <2>1, ReleasedSeen, OneEpLess
  <2>3. PICK d : d = [c EXCEPT !.row = 0,
                      !.at = CASE c.at = "ending" -> "idle" [] c.at = "leaving" -> "over" [] OTHER -> c.at]
    OBVIOUS
  <2>4. conn' = [conn EXCEPT ![s] = d]
    BY <1>1, <1>6, <2>3 DEF Ended
  <2>5. /\ d \in Connections /\ d.down = c.down /\ d.open = c.open /\ d.msg = c.msg /\ d.up = c.up
        /\ \/ c.at = "restarting" /\ d.at = "restarting"
           \/ c.at = "ending" /\ d.at = "idle"
           \/ c.at = "leaving" /\ d.at = "over"
    BY <1>2, <2>3 DEF Connections
  <2>6. ConnFits(client, s, d)
    BY <1>1, <2>5, EndFits
  <2>7. QED
    BY <1>0, <2>2, <2>4, <2>6, OneConn DEF BothFit
<1>7. QED
  BY <1>4, <1>5, <1>6

\* The start at hand carries its episode's number.
LEMMA StartNumbered ==
  ASSUME ServerInv, ClientInv, NEW s \in Conns
  PROVE  LET m == conn[s].msg IN m.seq \in Nat /\ m.of <= client.n /\ Ours(m.of, m.seq) /\ Numbered(client, m)
<1>1. conn[s].msg \in Messages /\ Numbered(client, conn[s].msg)
  BY EachConn DEF ConnFits, Wire, Connections
<1>2. QED
  BY <1>1 DEF Messages, Numbered

LEMMA IdleFits ==
  ASSUME DataOK, NEW s, NEW c, ConnOK(c), ConnFits(client, s, c), c.at \in Begins, c.row = 0,
         NEW i \in Nat, NEW k \in Nat, i <= client.n, Ours(i, k), NEW d, d = Idle(Sent(c, "error", k, i)) \/ d = Idle(c)
  PROVE  ConnFits(client, s, d) /\ ConnOK(d) /\ d.open = c.open /\ d.up = c.up /\ d.down \in {Sent(c, "error", k, i).down, c.down}
<1>1. PICK b : b = Sent(c, "error", k, i)
  OBVIOUS
<1>2. /\ ConnOK(b) /\ ConnFits(client, s, b) /\ b.up = c.up /\ b.at = c.at /\ b.row = c.row /\ b.msg = c.msg /\ b.open = c.open
  BY <1>1, SentFits, SentOK
<1>3. PICK a : (a = b \/ a = c) /\ d = Idle(a)
  BY <1>1
<1>4. /\ ConnOK(a) /\ ConnFits(client, s, a) /\ a.up = c.up /\ a.at \in Begins /\ a.row = 0 /\ a.open = c.open
  BY <1>2, <1>3
<1>5. ConnOK(d) /\ d.up = a.up /\ d.at = "idle" /\ d.row = a.row /\ d.down = a.down /\ d.open = a.open /\ d.msg = NoMsg
  BY <1>3, <1>4, IdleOK DEF Begins
<1>6. DownFits(client, a, d)
  BY <1>5 DEF DownFits
<1>7. ConnFits(client, s, d)
  BY <1>4, <1>5, <1>6, BeginFits, NoMsgNumbered DEF ConnOK
<1>8. QED
  BY <1>1, <1>3, <1>4, <1>5, <1>7

LEMMA StartEpisodeFits == ASSUME ServerInv, ClientInv, NEW s \in Conns, StartEpisode(s) PROVE BothFit
<1>0. DataOK
  BY DEF ServerInv
<1>1. PICK c \in Connections : c = conn[s] /\ ConnOK(c) /\ ConnFits(client, s, c)
  BY EachConn
<1>2. c.at = "restarting" /\ c.row = 0
  BY <1>1 DEF StartEpisode
<1>3. PICK i : i = c.msg.of
  OBVIOUS
<1>4. i \in Episodes /\ i \in Nat
  <2>1. i \in Nat /\ 0 \in Nat
    BY <1>3 DEF Connections, Messages
  <2>2. StartAt(s, 0, i)
    BY <1>1, <1>2, <1>3 DEF StartAt, StartIn
  <2>3. QED
    BY <2>1, <2>2 DEF ServerInv, StartsFit
<1>5. PICK k \in Nat : k = c.msg.seq /\ i <= client.n /\ Ours(i, k)
  BY <1>1, <1>3, StartNumbered
<1>6. CASE conn' = [conn EXCEPT ![s].at = "starting"]
           /\ ep' = [ep EXCEPT ![i] = [@ EXCEPT !.stage = "reset", !.current = TRUE, !.conn = s, !.seq = k]]
  <2>1. PICK d : d = [c EXCEPT !.at = "starting"]
    OBVIOUS
  <2>2. /\ d \in Connections /\ d.up = c.up /\ d.open = c.open /\ d.at \in Begins /\ d.msg = c.msg /\ d.down = c.down
    BY <2>1 DEF Connections, Begins
  <2>3. c.at \in Begins
    BY <1>2 DEF Begins
  <2>4. ConnFits(client, s, d)
    BY <1>0, <1>1, <1>2, <2>2, <2>3, BeginFits, NoMsgNumbered
  <2>5. PICK e : e = [ep[i] EXCEPT !.stage = "reset", !.current = TRUE, !.conn = s, !.seq = k]
    OBVIOUS
  <2>6. e.box = ep[i].box /\ e.held = ep[i].held /\ e.moving = ep[i].moving /\ e.seq = k /\ e.stage = "reset" /\ e.sink = ep[i].sink
    <3>1. ep[i] \in EpisodeRows
      BY <1>4, EachEp
    <3>2. QED
      BY <2>5, <3>1 DEF EpisodeRows
  <2>7. SeenFits(i, e)
    <3>1. SeenFits(i, ep[i])
      BY <1>4 DEF ClientInv
    <3>2. QED
      BY <1>5, <2>6, <3>1 DEF SeenFits, Seen, Silent
  <2>8. QED
    BY <1>0, <1>1, <1>4, <1>6, <2>1, <2>4, <2>5, <2>7, OneConn, OneEp DEF BothFit
<1>7. ASSUME NEW stays \in BOOLEAN, UNCHANGED ep,
             conn' = [conn EXCEPT ![s] = [Idle(Sent(@, "error", k, i)) EXCEPT !.open = conn[s].open /\ stays]]
      PROVE  BothFit
  <2>1. PICK b : b = Idle(Sent(c, "error", k, i))
    OBVIOUS
  <2>2. PICK open \in BOOLEAN : open = (c.open /\ stays)
    OBVIOUS
  <2>3. PICK d : d = [b EXCEPT !.open = open]
    OBVIOUS
  <2>4. conn' = [conn EXCEPT ![s] = d]
    BY <1>1, <1>7, <2>1, <2>2, <2>3
  <2>5. ConnFits(client, s, b) /\ ConnOK(b) /\ b.open = c.open
    BY <1>0, <1>1, <1>2, <1>4, <1>5, <2>1, IdleFits DEF Begins
  <2>6. b.at = "idle" /\ b \in Connections
    BY <2>1, <2>5 DEF Idle, Sent, ConnOK, Connections
  <2>7. /\ d \in Connections /\ d.up = b.up /\ d.down = b.down /\ d.row = b.row /\ d.at = b.at /\ d.msg = b.msg /\ d.open = open
    BY <2>3, <2>6 DEF Connections
  <2>8. d.open => b.open
    BY <2>2, <2>5, <2>7
  <2>9. DownFits(client, b, d)
    BY <2>7 DEF DownFits
  <2>10. ConnFits(client, s, d)
    BY <1>0, <2>5, <2>6, <2>7, <2>8, <2>9, AnswerFits, NoMsgNumbered
  <2>11. QED
    BY <1>0, <1>7, <2>4, <2>10, OneConn, EpsStay DEF BothFit
<1>8. QED
  BY <1>1, <1>3, <1>5, <1>6, <1>7 DEF StartEpisode

LEMMA ResetsFit ==
  ASSUME ServerInv, ClientInv, NEW s \in Conns, StartFails(s) \/ Starts(s) \/ RollsBack(s) \/ RolledBack(s)
  PROVE  BothFit
<1>0. DataOK /\ AllFit /\ RowsFit
  BY DEF ServerInv, AllFit
<1>1. PICK c \in Connections : c = conn[s] /\ ConnOK(c) /\ ConnFits(client, s, c)
  BY EachConn
<1>2. c.at \in {"starting", "rolling"} /\ c.at \in Begins
  BY <1>1 DEF StartFails, Starts, RollsBack, RolledBack, Begins
<1>3. PICK i \in Episodes : i = c.msg.of /\ ep[i].stage = "reset" /\ ep[i] \in EpisodeRows /\ c.row = 0 /\ i \in Nat
  BY <1>0, <1>1, <1>2, OwnReset, EachEp, EpisodesAreNumbers
<1>4. PICK k \in Nat : k = c.msg.seq /\ i <= client.n /\ Ours(i, k)
  BY <1>1, <1>3, StartNumbered
<1>5. CASE StartFails(s)
  <2>1. ep' = [ep EXCEPT ![i] = Released(ep[i])]
    BY <1>1, <1>3, <1>5 DEF StartFails
  <2>2. EpsFit
    BY <1>0, <1>3, <2>1, ReleasedSeen, OneEpLess
  <2>3. PICK d : d = Idle(Sent(c, "error", k, i))
    OBVIOUS
  <2>4. conn' = [conn EXCEPT ![s] = d]
    BY <1>1, <1>3, <1>4, <1>5, <2>3 DEF StartFails
  <2>5. ConnFits(client, s, d)
    BY <1>0, <1>1, <1>2, <1>3, <1>4, <2>3, IdleFits
  <2>6. QED
    BY <1>0, <2>2, <2>4, <2>5, OneConn DEF BothFit
<1>6. CASE Starts(s)
  <2>1. PICK e : e = [ep[i] EXCEPT !.stage = "run", !.host = "soon", !.hook = "reset"]
    OBVIOUS
  <2>2. ep' = [ep EXCEPT ![i] = e]
    BY <1>1, <1>3, <1>6, <2>1 DEF Starts
  <2>3. /\ e.box = ep[i].box /\ e.held = ep[i].held /\ e.moving = ep[i].moving /\ e.seq = ep[i].seq /\ e.stage = "run"
        /\ e.sink = ep[i].sink
    BY <1>3, <2>1 DEF EpisodeRows
  <2>4. EpsFit
    BY <1>0, <1>3, <2>2, <2>3, SameSeen, OneEpLess
  <2>5. PICK m : m = [type |-> "ready", seq |-> k, of |-> i]
    OBVIOUS
  <2>6. PICK b : b = Sent(c, "ready", k, i)
    OBVIOUS
  <2>7. PICK d : d = [Idle(b) EXCEPT !.row = i]
    OBVIOUS
  <2>8. conn' = [conn EXCEPT ![s] = d]
    BY <1>1, <1>3, <1>4, <1>6, <2>6, <2>7 DEF Starts
  <2>9. m \in Messages /\ Numbered(client, m) /\ m.of = i
    BY <1>3, <1>4, <2>5 DEF Messages, Numbered
  <2>10. /\ ConnOK(b) /\ b.up = c.up /\ b.at = c.at /\ b.open = c.open
         /\ b.down = c.down \/ b.down = Append(c.down, m)
    BY <1>1, <1>3, <2>5, <2>6, SentOK DEF Sent, Connections
  <2>11. ToSet(Append(c.down, m)) = ToSet(c.down) \cup {m}
    BY <2>9, AppendFacts DEF Connections
  <2>12. /\ ConnOK(Idle(b)) /\ Idle(b).up = c.up /\ Idle(b).at = "idle" /\ Idle(b).down = b.down
         /\ Idle(b).open = c.open /\ Idle(b).msg = NoMsg
    BY <1>2, <2>10, IdleOK
  <2>13. /\ d \in Connections /\ d.up = c.up /\ d.open = c.open /\ d.at = "idle" /\ d.row = c.msg.of /\ d.msg = NoMsg
         /\ d.down = b.down
    BY <1>3, <2>7, <2>12 DEF ConnOK, Connections
  <2>14. \A x \in ToSet(d.down) : x \in ToSet(c.down) \/ (Numbered(client, x) /\ x.of = c.msg.of)
    BY <1>3, <2>9, <2>10, <2>11, <2>13
  <2>15. ConnFits(client, s, d)
    BY <1>0, <1>1, <1>2, <1>3, <2>13, <2>14, BeginFits, NoMsgNumbered
  <2>16. QED
    BY <1>0, <2>4, <2>8, <2>15, OneConn DEF BothFit
<1>7. CASE RollsBack(s)
  <2>1. PICK e : e = [ep[i] EXCEPT !.hook = "reset"]
    OBVIOUS
  <2>2. ep' = [ep EXCEPT ![i] = e]
    BY <1>1, <1>3, <1>7, <2>1 DEF RollsBack
  <2>3. /\ e.box = ep[i].box /\ e.held = ep[i].held /\ e.moving = ep[i].moving /\ e.seq = ep[i].seq
        /\ e.stage = ep[i].stage /\ e.sink = ep[i].sink
    BY <1>3, <2>1 DEF EpisodeRows
  <2>4. PICK d : d = [c EXCEPT !.at = "rolling"]
    OBVIOUS
  <2>5. conn' = [conn EXCEPT ![s] = d]
    BY <1>1, <1>7, <2>4 DEF RollsBack
  <2>6. /\ d \in Connections /\ d.up = c.up /\ d.open = c.open /\ d.at \in Begins /\ d.msg = c.msg /\ d.down = c.down
    BY <2>4 DEF Connections, Begins
  <2>7. ConnFits(client, s, d)
    BY <1>0, <1>1, <1>2, <1>3, <2>6, BeginFits, NoMsgNumbered
  <2>8. QED
    BY <1>0, <2>2, <2>3, <2>5, <2>7, OneConn, AloneFits DEF BothFit
<1>8. CASE RolledBack(s)
  <2>1. ep' = [ep EXCEPT ![i] = Released(Finished(ep[i]))]
    BY <1>1, <1>3, <1>8 DEF RolledBack
  <2>2. EpsFit
    BY <1>0, <1>3, <2>1, ReleasedSeen, OneEpLess
  <2>3. PICK d : d = Idle(c)
    OBVIOUS
  <2>4. conn' = [conn EXCEPT ![s] = d]
    BY <1>1, <1>8, <2>3 DEF RolledBack
  <2>5. ConnFits(client, s, d)
    BY <1>0, <1>1, <1>2, <1>3, <1>4, <2>3, IdleFits
  <2>6. QED
    BY <1>0, <2>2, <2>4, <2>5, OneConn DEF BothFit
<1>9. QED
  BY <1>5, <1>6, <1>7, <1>8

LEMMA ServerFits == ASSUME ServerInv, ClientInv, Server PROVE BothFit /\ UNCHANGED scenario
<1>1. ASSUME NEW s \in Conns, Handler(s) PROVE BothFit
  <2>1. CASE ReadStart(s) \/ ReadEnd(s)
    BY <2>1, TakingFits
  <2>2. CASE Observe(s)
    BY <2>2, ObservesFit
  <2>3. CASE Replies(s) \/ StopsWaiting(s)
    BY <2>3, WaitsFit
  <2>4. CASE Leaves(s)
    BY <2>4, LeavesFit
  <2>5. CASE CloseEnded(s) \/ FinishEnded(s) \/ Ended(s)
    BY <2>5, EndsFit
  <2>6. CASE StartEpisode(s)
    BY <2>6, StartEpisodeFits
  <2>7. CASE StartFails(s) \/ Starts(s) \/ RollsBack(s) \/ RolledBack(s)
    BY <2>7, ResetsFit
  <2>8. QED
    BY <1>1, <2>1, <2>2, <2>3, <2>4, <2>5, <2>6, <2>7 DEF Handler
<1>2. ASSUME NEW i \in Episodes, UserCode(i) PROVE BothFit
  <2>1. CASE Receive(i) \/ Spawns(i) \/ Visits(i)
    BY <2>1, RootFits
  <2>2. CASE \E k \in ep[i].held : Reply(i, k, "action") \/ Reply(i, k, "error")
    BY <2>2, ReplyFits
  <2>3. CASE \E t \in Tasks : Finishes(i, t) \/ Raises(i, t) \/ Interrupts(i, t) \/ Calls(i, t) \/ Publishes(i, t)
    BY <2>3, TaskFits
  <2>4. QED
    BY <1>2, <2>1, <2>2, <2>3 DEF UserCode
<1>3. ASSUME NEW i \in Episodes, NEW t \in Tasks, Cancelled(i, t) \/ CallReturns(i, t) PROVE BothFit
  BY <1>3, TaskFits
<1>4. BothFit
  BY <1>1, <1>2, <1>3, HostFits, DeliveryFits, ShutdownFits DEF Server
<1>5. UNCHANGED scenario
  <2>1. ASSUME NEW s \in Conns, Handler(s) PROVE UNCHANGED scenario
    BY <2>1 DEF Handler, ReadStart, StartEpisode, StartFails, Starts, RollsBack, RolledBack, Observe, Replies,
                StopsWaiting, ReadEnd, Leaves, CloseEnded, FinishEnded, Ended
  <2>2. ASSUME NEW i \in Episodes, UserCode(i) PROVE UNCHANGED scenario
    BY <2>2 DEF UserCode, Receive, Spawns, Visits, Reply, Finishes, Raises, Interrupts, Calls, Publishes
  <2>3. ASSUME NEW i \in Episodes, Hosts(i) \/ Delivers(i) PROVE UNCHANGED scenario
    BY <2>3 DEF Hosts, HostRuns, HostLeaves, HostExits, SendsError, Delivers, Admits, Settles, Settled, StopsMoving
  <2>4. ASSUME NEW i \in Episodes, NEW t \in Tasks, Cancelled(i, t) \/ CallReturns(i, t) PROVE UNCHANGED scenario
    BY <2>4 DEF Cancelled, CallReturns
  <2>5. CASE Shutdown \/ Sweeps
    BY <2>5 DEF Shutdown, Sweeps
  <2>6. QED
    BY <2>1, <2>2, <2>3, <2>4, <2>5 DEF Server
<1>6. QED
  BY <1>4, <1>5

-----------------------------------------------------------------------------
(* Steps of the client.                                                    *)

\* Numbers are the same after a step, so what fits still does.
LEMMA NextFits ==
  ASSUME UNCHANGED scenario, \A s \in Conns : ConnFits(client', s, conn'[s]), EpsFit, PhaseFits(client')
  PROVE  ClientInv'
<1>1. PICK cl : cl = client'
  OBVIOUS
<1>2. ASSUME NEW s \in Conns PROVE ConnFits(client, s, conn[s])'
  <2>1. PICK c : c = conn'[s]
    OBVIOUS
  <2>2. ConnFits(cl, s, c)
    BY <1>1, <2>1
  <2>3. QED
    BY <1>1, <2>1, <2>2 DEF ConnFits, WireFits, StartingFits, SteppingFits, Numbered, Ours, NextSeq
<1>3. ASSUME NEW i \in Episodes PROVE SeenFits(i, ep[i])'
  <2>1. PICK e : e = ep'[i]
    OBVIOUS
  <2>2. SeenFits(i, e)
    BY <2>1 DEF EpsFit
  <2>3. QED
    BY <2>1, <2>2 DEF SeenFits, Ours, NextSeq, Silent, mode
<1>4. PhaseFits(client)'
  <2>1. PhaseFits(cl)
    BY <1>1
  <2>2. QED
    BY <1>1, <2>1 DEF PhaseFits, NextSeq
<1>5. QED
  BY <1>2, <1>3, <1>4 DEF ClientInv

LEMMA ServerKeepsClient == ASSUME ServerInv, ClientInv, Server, UNCHANGED client PROVE ClientInv'
<1>1. ConnsFit /\ EpsFit /\ UNCHANGED scenario
  BY ServerFits DEF BothFit
<1>2. \A s \in Conns : ConnFits(client', s, conn'[s])
  BY <1>1 DEF ConnsFit
<1>3. PhaseFits(client')
  BY DEF ClientInv
<1>4. QED
  BY <1>1, <1>2, <1>3, NextFits

\* What fits whatever the client waits for.
BaseFits(cl, c) == c \in Connections /\ (\A m \in Wire(c) : Numbered(cl, m)) /\ WireFits(c)

\* d is c with one more message to read.
Longer(c, m, d) == d = [c EXCEPT !.up = Append(@, m)]

LEMMA AppendUp ==
  ASSUME NEW c \in Connections, NEW m \in Messages, NEW d, Longer(c, m, d)
  PROVE  /\ d \in Connections /\ d.down = c.down /\ d.row = c.row /\ d.open = c.open /\ d.at = c.at /\ d.msg = c.msg
         /\ ToSet(d.up) = ToSet(c.up) \cup {m} /\ Len(c.up) \in Nat /\ Len(d.up) = Len(c.up) + 1
         /\ \A p \in 1 .. Len(c.up) : d.up[p] = c.up[p]
         /\ d.up[Len(c.up) + 1] = m
<1>1. PICK u : u = Append(c.up, m)
  OBVIOUS
<1>2. c.up \in Seq(Messages)
  BY DEF Connections
<1>3. /\ u \in Seq(Messages) /\ ToSet(u) = ToSet(c.up) \cup {m} /\ Len(c.up) \in Nat /\ Len(u) = Len(c.up) + 1
      /\ \A p \in 1 .. Len(c.up) : u[p] = c.up[p]
      /\ u[Len(c.up) + 1] = m
  BY <1>1, <1>2, AppendFacts, AppendProperties, LenProperties
<1>4. d \in Connections /\ d.down = c.down /\ d.row = c.row /\ d.open = c.open /\ d.at = c.at /\ d.msg = c.msg /\ d.up = u
  BY <1>1, <1>3 DEF Connections, Longer
<1>5. QED
  BY <1>3, <1>4

LEMMA PostFits ==
  ASSUME NEW cl, NEW c, BaseFits(cl, c), NEW m \in Messages, Numbered(cl, m), NEW d, Longer(c, m, d),
         m.type = "obs" => /\ c.row = m.of /\ c.at \in {"idle", "waiting"}
                           /\ \A p \in 1 .. Len(c.up) : c.up[p].type = "obs"
  PROVE  BaseFits(cl, d)
<1>0. c \in Connections
  BY DEF BaseFits
<1>1. /\ d \in Connections /\ d.down = c.down /\ d.row = c.row /\ d.open = c.open /\ d.at = c.at /\ d.msg = c.msg
      /\ ToSet(d.up) = ToSet(c.up) \cup {m} /\ Len(c.up) \in Nat /\ Len(d.up) = Len(c.up) + 1
      /\ \A p \in 1 .. Len(c.up) : d.up[p] = c.up[p]
      /\ d.up[Len(c.up) + 1] = m
  BY ZenonT(20), <1>0, AppendUp
<1>2. \A x \in Wire(d) : Numbered(cl, x)
  BY <1>1 DEF BaseFits, Wire
<1>3. ASSUME NEW p \in 1 .. Len(d.up), d.up[p].type = "obs"
      PROVE  d.row = d.up[p].of /\ d.at \in {"idle", "waiting"} /\ \A q \in 1 .. p : d.up[q].type = "obs"
  <2>1. CASE p \in 1 .. Len(c.up)
    <3>1. \A q \in 1 .. p : q \in 1 .. Len(c.up)
      BY <1>1, <2>1
    <3>2. QED
      BY <1>1, <1>3, <2>1, <3>1 DEF BaseFits, WireFits
  <2>2. CASE p = Len(c.up) + 1
    <3>1. \A q \in 1 .. p : q \in 1 .. Len(c.up) \/ q = p
      BY <1>1, <2>2
    <3>2. QED
      BY <1>1, <1>3, <2>2, <3>1
  <2>3. QED
    BY <1>1, <2>1, <2>2
<1>4. WireFits(d)
  BY <1>1, <1>3 DEF WireFits, BaseFits
<1>5. QED
  BY <1>1, <1>2, <1>4 DEF BaseFits

\* EPISODE_END of the episode the client is at.
LEMMA EndPostedFits ==
  ASSUME DataOK, NEW c, BaseFits(client, c)
  PROVE  BaseFits(client, EndPosted(c))
<1>1. client.n \in Nat /\ scenario.steps \in Nat /\ scenario.steps + 1 \in Nat
  BY StepsAreNumbers DEF DataOK, ClientFits, Clients
<1>2. PICK k \in Nat : k = NextSeq(client.n, scenario.steps + 1) /\ Ours(client.n, k)
  BY <1>1, OursOwn
<1>3. PICK m : m = [type |-> "end", seq |-> k, of |-> client.n]
  OBVIOUS
<1>4. m \in Messages /\ Numbered(client, m) /\ m.type # "obs"
  BY <1>1, <1>2, <1>3 DEF Messages, Numbered
<1>5. EndPosted(c) = c \/ Longer(c, m, EndPosted(c))
  BY <1>2, <1>3 DEF EndPosted, Posted, Longer
<1>6. QED
  BY <1>4, <1>5, PostFits

LEMMA ShutFits ==
  ASSUME NEW cl, NEW c, BaseFits(cl, c), NEW d, d = [c EXCEPT !.open = FALSE, !.down = <<>>]
  PROVE  BaseFits(cl, d)
<1>1. ToSet(<<>>) = {} /\ <<>> \in Seq(Messages)
  BY DEF ToSet
<1>2. /\ d \in Connections /\ d.down = <<>> /\ d.row = c.row /\ ~d.open /\ d.at = c.at /\ d.msg = c.msg /\ d.up = c.up
  BY <1>1 DEF BaseFits, Connections
<1>3. QED
  BY <1>1, <1>2 DEF BaseFits, Wire, WireFits

LEMMA TakenFits ==
  ASSUME NEW cl, NEW s, NEW c \in Connections, ConnFits(cl, s, c), c.down # <<>>
  PROVE  /\ ConnFits(cl, s, TakenFrom(c)) /\ BaseFits(cl, TakenFrom(c))
         /\ Head(c.down) \in ToSet(c.down) /\ Head(c.down) \in Messages /\ Numbered(cl, Head(c.down))
<1>1. PICK d : d = TakenFrom(c)
  OBVIOUS
<1>2. c.down \in Seq(Messages)
  BY DEF Connections
<1>3. /\ Tail(c.down) \in Seq(Messages) /\ Head(c.down) \in Messages /\ Head(c.down) = c.down[1]
      /\ Len(c.down) \in Nat \ {0} /\ DOMAIN c.down = 1 .. Len(c.down) /\ DOMAIN Tail(c.down) = 1 .. Len(c.down) - 1
      /\ \A p \in 1 .. Len(c.down) - 1 : Tail(c.down)[p] = c.down[p + 1]
  BY <1>2, TailFacts
<1>4. ToSet(Tail(c.down)) \subseteq ToSet(c.down) /\ Head(c.down) \in ToSet(c.down)
  <2>1. 1 \in 1 .. Len(c.down) /\ \A p \in 1 .. Len(c.down) - 1 : p + 1 \in 1 .. Len(c.down)
    BY <1>3
  <2>2. QED
    BY <1>3, <2>1 DEF ToSet
<1>5. /\ d \in Connections /\ d.down = Tail(c.down) /\ d.row = c.row /\ d.open = c.open /\ d.at = c.at /\ d.msg = c.msg
      /\ d.up = c.up
  BY <1>1, <1>3 DEF TakenFrom, Connections
<1>6. ConnFits(cl, s, d)
  BY <1>4, <1>5 DEF ConnFits, Wire, WireFits, StartingFits, SteppingFits
<1>7. QED
  BY <1>1, <1>3, <1>4, <1>5, <1>6 DEF ConnFits, BaseFits, Wire

\* The client's own connection is left as d.
LEMMA OwnFits ==
  ASSUME ServerInv, ClientInv, ServerRests, NEW d, conn' = [conn EXCEPT ![client.sess] = d],
         ConnFits(client', client.sess, d), client'.n = client.n, client'.sess = client.sess, PhaseFits(client')
  PROVE  ClientInv'
<1>1. conn \in [Conns -> Connections] /\ UNCHANGED <<scenario, ep>>
  BY DEF ServerInv, DataOK, ServerRests
<1>2. ASSUME NEW s \in Conns PROVE ConnFits(client', s, conn'[s])
  <2>1. CASE s = client.sess
    BY <1>1, <2>1
  <2>2. CASE s # client.sess
    <3>1. conn'[s] = conn[s] /\ ConnFits(client, s, conn[s])
      BY <1>1, <2>2 DEF ClientInv
    <3>2. QED
      BY <2>2, <3>1 DEF ConnFits, Numbered
  <2>3. QED
    BY <2>1, <2>2
<1>3. EpsFit
  BY <1>1, EpsStay
<1>4. QED
  BY <1>1, <1>2, <1>3, NextFits

\* The client is between episodes, its connection left as d.
LEMMA BetweenFits ==
  ASSUME ServerInv, ClientInv, ServerRests, NEW d, BaseFits(client, d), conn' = [conn EXCEPT ![client.sess] = d],
         NEW cl, cl = client', cl.n = client.n, cl.sess = client.sess, cl.epseq = client.epseq,
         cl.at = "done" \/ (cl.at = "idle" /\ cl.action = NoMsg), cl.blame \in {0, cl.n}
  PROVE  ClientInv'
<1>1. PhaseFits(cl)
  BY DEF ClientInv, PhaseFits, Stepping
<1>2. ConnFits(cl, client.sess, d)
  BY DEF BaseFits, ConnFits, Numbered, Stepping
<1>3. QED
  BY <1>1, <1>2, OwnFits

LEMMA RestFits ==
  ASSUME ServerInv, ClientInv, ServerRests, UNCHANGED conn,
         NEW cl, cl = client', cl.n = client.n, cl.sess = client.sess, cl.epseq = client.epseq,
         cl.at = "done" \/ (cl.at = "idle" /\ cl.action = NoMsg), cl.blame \in {0, cl.n}
  PROVE  ClientInv'
<1>1. PhaseFits(cl)
  BY DEF ClientInv, PhaseFits, Stepping
<1>2. \A s \in Conns : ConnFits(client', s, conn'[s])
  <2>1. ASSUME NEW s \in Conns PROVE ConnFits(cl, s, conn[s])
    BY DEF ClientInv, ConnFits, Numbered, Stepping
  <2>2. QED
    BY <2>1
<1>3. EpsFit /\ UNCHANGED scenario
  BY EpsStay DEF ServerRests
<1>4. QED
  BY <1>1, <1>2, <1>3, NextFits

LEMMA OwnFacts ==
  ASSUME ServerInv, ClientInv, client.sess # 0
  PROVE  /\ client.sess \in Conns /\ conn[client.sess] \in Connections
         /\ ConnFits(client, client.sess, conn[client.sess]) /\ BaseFits(client, conn[client.sess])
<1>1. client.sess \in Conns
  BY OwnConnection
<1>2. QED
  BY <1>1, EachConn DEF BaseFits, ConnFits

LEMMA InboxFits ==
  ASSUME ServerInv, ClientInv, Inbox # <<>>
  PROVE  /\ client.sess # 0 /\ conn[client.sess].down = Inbox
         /\ ConnFits(client, client.sess, TakenFrom(conn[client.sess])) /\ BaseFits(client, TakenFrom(conn[client.sess]))
         /\ Head(Inbox) \in Messages /\ Numbered(client, Head(Inbox)) /\ Head(Inbox) \in ToSet(conn[client.sess].down)
<1>1. client.sess # 0 /\ Inbox = conn[client.sess].down
  BY DEF Inbox
<1>2. QED
  BY <1>1, OwnFacts, TakenFits

\* A message that is not early is of the client's own episode.
LEMMA NotEarlyIsOwn ==
  ASSUME ServerInv, ClientInv, NEW m \in Messages, Numbered(client, m), ~Early(m)
  PROVE  m.of = client.n
<1>1. client.n \in Nat /\ m.of \in Nat /\ m.seq \in Nat /\ DataOK
  BY ClientTypes DEF Messages
<1>2. client.epseq = NextSeq(client.n, 0) /\ NextSeq(client.n, 0) \in Nat
  BY <1>1, SeqIsNumber DEF ClientInv, PhaseFits
<1>3. m.seq >= NextSeq(client.n, 0)
  BY <1>1, <1>2 DEF Early
<1>4. QED
  BY <1>1, <1>3, OursApart DEF Numbered

LEMMA StartReadFits ==
  ASSUME ServerInv, ClientInv, DropsEarly \/ StartReady \/ StartRefused
  PROVE  ClientInv'
<1>1. ServerRests /\ Take /\ Inbox # <<>> /\ client \in Clients /\ DataOK
  BY ClientTypes DEF DropsEarly, StartReady, StartRefused, Receives
<1>2. PICK d : d = TakenFrom(conn[client.sess])
  OBVIOUS
<1>3. /\ conn' = [conn EXCEPT ![client.sess] = d] /\ ConnFits(client, client.sess, d) /\ BaseFits(client, d)
      /\ PhaseFits(client)
  BY <1>1, <1>2, InboxFits DEF Take, ClientInv
<1>4. CASE DropsEarly
  BY <1>1, <1>3, <1>4, OwnFits DEF DropsEarly
<1>5. CASE StartReady
  <2>1. PICK m : m = Head(Inbox)
    OBVIOUS
  <2>2. /\ m.type = "ready" /\ m.seq = client.epseq /\ client.at = "starting"
        /\ m \in ToSet(conn[client.sess].down) /\ m \in Messages /\ Numbered(client, m)
    BY <1>1, <1>5, <2>1, InboxFits DEF StartReady, Receives
  <2>3. m.of = client.n
    <3>1. ~Early(m)
      BY <2>2 DEF Early, Messages
    <3>2. QED
      BY <2>2, <3>1, NotEarlyIsOwn
  <2>4. StartingFits(client.n, conn[client.sess]) /\ WireFits(conn[client.sess])
    BY <1>1, <2>2, InboxFits, OwnFacts DEF ConnFits
  <2>5. /\ conn[client.sess].up = <<>> /\ conn[client.sess].at \in {"idle", "leaving", "over"}
        /\ conn[client.sess].at = "idle" => conn[client.sess].row = client.n
    BY <2>2, <2>3, <2>4 DEF StartingFits
  <2>6. d.up = <<>> /\ d.at = conn[client.sess].at /\ d.row = conn[client.sess].row
    <3>1. conn[client.sess] \in Connections
      BY <1>1, InboxFits, OwnFacts
    <3>2. QED
      BY <1>2, <2>5, <3>1 DEF TakenFrom, Connections
  <2>7. SteppingFits(client.n, d)
    <3>1. Len(d.up) = 0
      BY <2>6
    <3>2. QED
      BY <2>5, <2>6, <3>1 DEF SteppingFits
  <2>8. PICK cl : cl = client'
    OBVIOUS
  <2>9. /\ cl.at = "sending" /\ cl.latest = NoMsg /\ cl.n = client.n /\ cl.sess = client.sess
        /\ cl.epseq = client.epseq /\ cl.steps = client.steps /\ cl.action = client.action /\ cl.blame = client.blame
    BY <1>1, <1>5, <2>8 DEF StartReady, Clients
  <2>10. ConnFits(cl, client.sess, d)
    BY <1>3, <2>7, <2>9 DEF ConnFits, Numbered, Stepping
  <2>11. PhaseFits(cl)
    BY <1>3, <2>2, <2>9 DEF PhaseFits, Stepping, OfOrNone, NoMsg
  <2>12. QED
    BY <1>1, <1>3, <2>8, <2>9, <2>10, <2>11, OwnFits
<1>6. CASE StartRefused
  <2>1. PICK cl : cl = client'
    OBVIOUS
  <2>2. /\ cl.at = "idle" /\ cl.action = client.action /\ client.at = "starting" /\ cl.n = client.n /\ cl.sess = client.sess
        /\ cl.epseq = client.epseq /\ cl.blame = client.blame
    BY <1>1, <1>6, <2>1 DEF StartRefused, Receives, Clients
  <2>3. cl.action = NoMsg /\ cl.blame \in {0, cl.n}
    BY <1>3, <2>2 DEF PhaseFits
  <2>4. QED
    BY <1>1, <1>3, <2>1, <2>2, <2>3, BetweenFits
<1>7. QED
  BY <1>4, <1>5, <1>6

\* The client ends its episode, or gives it up.
LEMMA EndsWithFits ==
  ASSUME ServerInv, ClientInv, ServerRests, NEW c, BaseFits(client, c), EndsWith(c)
  PROVE  ClientInv'
<1>1. client \in Clients /\ DataOK
  BY ClientTypes
<1>2. PICK d : d = EndPosted(c)
  OBVIOUS
<1>3. BaseFits(client, d) /\ conn' = [conn EXCEPT ![client.sess] = d]
  BY <1>1, <1>2, EndPostedFits DEF EndsWith
<1>4. PICK cl : cl = client'
  OBVIOUS
<1>5. /\ cl.at = "idle" /\ cl.action = NoMsg /\ cl.n = client.n /\ cl.sess = client.sess
      /\ cl.epseq = client.epseq /\ cl.blame = client.blame
  BY <1>1, <1>4 DEF EndsWith, Clients
<1>6. cl.blame \in {0, cl.n}
  BY <1>5 DEF ClientInv, PhaseFits
<1>7. QED
  BY <1>3, <1>4, <1>5, <1>6, BetweenFits

LEMMA GivesUpFits == ASSUME ServerInv, ClientInv, TimesOut \/ LosesConnection PROVE ClientInv'
<1>1. client \in Clients /\ DataOK
  BY ClientTypes
<1>2. PICK cl : cl = client'
  OBVIOUS
<1>3. /\ cl.at = "idle" /\ cl.action = NoMsg /\ cl.n = client.n /\ cl.sess = client.sess
      /\ cl.epseq = client.epseq /\ cl.blame = client.blame /\ ServerRests
  BY <1>1, <1>2 DEF TimesOut, LosesConnection, EndsAndCloses, Clients
<1>4. cl.blame \in {0, cl.n}
  BY <1>3 DEF ClientInv, PhaseFits
<1>5. CASE TimesOut
  <2>1. PICK c : c = EndPosted(conn[client.sess])
    OBVIOUS
  <2>2. PICK d : d = [c EXCEPT !.open = FALSE, !.down = <<>>]
    OBVIOUS
  <2>3. conn' = [conn EXCEPT ![client.sess] = d]
    BY <1>5, <2>1, <2>2 DEF TimesOut, EndsAndCloses
  <2>4. client.sess # 0
    BY <1>5 DEF TimesOut, Connected
  <2>5. BaseFits(client, c)
    BY <1>1, <2>1, <2>4, OwnFacts, EndPostedFits
  <2>6. BaseFits(client, d)
    BY <2>2, <2>5, ShutFits
  <2>7. QED
    BY <1>2, <1>3, <1>4, <2>3, <2>6, BetweenFits
<1>6. CASE LosesConnection
  BY <1>2, <1>3, <1>4, <1>6, RestFits DEF LosesConnection
<1>7. QED
  BY <1>5, <1>6

LEMMA StopsFit == ASSUME ServerInv, ClientInv, Stops PROVE ClientInv'
<1>1. client \in Clients /\ DataOK
  BY ClientTypes
<1>2. PICK cl : cl = client'
  OBVIOUS
<1>3. /\ cl.at = "done" /\ cl.n = client.n /\ cl.sess = client.sess /\ cl.epseq = client.epseq /\ cl.blame = client.blame
      /\ ServerRests
  BY <1>1, <1>2 DEF Stops, Clients
<1>4. cl.blame \in {0, cl.n}
  BY <1>3 DEF ClientInv, PhaseFits
<1>5. CASE Connected
  <2>1. PICK d : d = [conn[client.sess] EXCEPT !.open = FALSE, !.down = <<>>]
    OBVIOUS
  <2>2. conn' = [conn EXCEPT ![client.sess] = d]
    BY <1>5, <2>1 DEF Stops
  <2>3. BaseFits(client, d)
    BY <1>5, <2>1, OwnFacts, ShutFits DEF Connected
  <2>4. QED
    BY <1>2, <1>3, <1>4, <2>2, <2>3, BetweenFits
<1>6. CASE ~Connected
  BY <1>2, <1>3, <1>4, <1>6, RestFits DEF Stops
<1>7. QED
  BY <1>5, <1>6

\* After a step the client sends its next observation, or ends the episode.
LEMMA AfterStepFits ==
  ASSUME ServerInv, ClientInv, ServerRests, client.at \in Stepping, NEW c, ConnFits(client, client.sess, c), BaseFits(client, c),
         NEW new \in Clients, AfterStep(c, new), new.n = client.n, new.sess = client.sess, new.epseq = client.epseq,
         new.blame = client.blame, new.steps = client.steps,
         OfOrNone(client.n, new.latest), OfOrNone(client.n, new.action)
  PROVE  ClientInv'
<1>1. DataOK /\ PhaseFits(client)
  BY ClientTypes DEF ClientInv
<1>2. PICK cl : cl = client'
  OBVIOUS
<1>3. CASE /\ client.steps + 1 < scenario.steps
           /\ conn' = [conn EXCEPT ![client.sess] = c]
           /\ client' = [new EXCEPT !.at = "sending", !.steps = @ + 1]
  <2>1. /\ cl.at = "sending" /\ cl.steps = client.steps + 1 /\ cl.n = client.n /\ cl.sess = client.sess
        /\ cl.epseq = client.epseq /\ cl.blame = client.blame /\ cl.latest = new.latest /\ cl.action = new.action
    BY <1>2, <1>3 DEF Clients
  <2>2. PhaseFits(cl)
    BY <1>1, <1>3, <2>1 DEF PhaseFits, Stepping
  <2>3. ConnFits(cl, client.sess, c)
    BY <2>1 DEF ConnFits, Numbered, Stepping
  <2>4. QED
    BY <1>2, <1>3, <2>1, <2>2, <2>3, OwnFits
<1>4. CASE /\ conn' = [conn EXCEPT ![client.sess] = EndPosted(c)]
           /\ client' = [new EXCEPT !.at = "idle", !.active = FALSE, !.action = NoMsg]
  <2>1. /\ cl.at = "idle" /\ cl.action = NoMsg /\ cl.n = client.n /\ cl.sess = client.sess
        /\ cl.epseq = client.epseq /\ cl.blame = client.blame
    BY <1>2, <1>4 DEF Clients
  <2>2. cl.blame \in {0, cl.n}
    BY <1>1, <2>1 DEF PhaseFits
  <2>3. BaseFits(client, EndPosted(c))
    BY <1>1, EndPostedFits
  <2>4. QED
    BY <1>2, <1>4, <2>1, <2>2, <2>3, BetweenFits
<1>5. QED
  <2>1. \/ /\ client.steps + 1 < scenario.steps
           /\ conn' = [conn EXCEPT ![client.sess] = c]
           /\ client' = [new EXCEPT !.at = "sending", !.steps = @ + 1]
        \/ /\ conn' = [conn EXCEPT ![client.sess] = EndPosted(c)]
           /\ client' = [new EXCEPT !.at = "idle", !.active = FALSE, !.action = NoMsg]
    BY DEF AfterStep
  <2>2. QED
    BY <1>3, <1>4, <2>1

LEMMA SendsFit == ASSUME ServerInv, ClientInv, Sends PROVE ClientInv'
<1>1. /\ client \in Clients /\ DataOK /\ client.n \in Nat /\ client.steps \in Nat /\ client.sess # 0
      /\ client.at = "sending" /\ ServerRests /\ conn[client.sess].open
  BY ClientTypes DEF Sends, Connected
<1>2. PICK c : c = conn[client.sess]
  OBVIOUS
<1>3. /\ c \in Connections /\ ConnFits(client, client.sess, c) /\ BaseFits(client, c) /\ c.open
  BY <1>1, <1>2, OwnFacts
<1>4. /\ SteppingFits(client.n, c) /\ c.at \notin {"leaving", "over"}
      /\ PhaseFits(client) /\ client.steps < scenario.steps /\ scenario.steps \in Nat
  <2>1. PhaseFits(client) /\ client.at \in Stepping
    BY <1>1 DEF ClientInv, Stepping
  <2>2. client.steps < scenario.steps /\ scenario.steps \in Nat
    BY <1>1, <2>1, StepsAreNumbers DEF PhaseFits
  <2>3. QED
    BY <1>3, <2>1, <2>2 DEF ConnFits, WireFits
<1>5. client.steps + 1 \in Nat /\ client.steps + 1 <= scenario.steps + 1
  BY <1>1, <1>4
<1>6. PICK k \in Nat : k = NextSeq(client.n, client.steps + 1) /\ Ours(client.n, k)
  BY <1>1, <1>5, OursOwn
<1>7. PICK m : m = [type |-> "obs", seq |-> k, of |-> client.n]
  OBVIOUS
<1>8. m \in Messages /\ Numbered(client, m) /\ m.of = client.n /\ m.type = "obs"
  BY <1>1, <1>6, <1>7 DEF Messages, Numbered
<1>9. PICK d : d = [c EXCEPT !.up = Append(@, m)]
  OBVIOUS
<1>10. Longer(c, m, d) /\ conn' = [conn EXCEPT ![client.sess] = d]
  BY <1>2, <1>6, <1>7, <1>9 DEF Longer, Sends, Posted
<1>11. c.row = client.n /\ c.at \in {"idle", "waiting"} /\ \A p \in 1 .. Len(c.up) : c.up[p].type = "obs"
  BY <1>4 DEF SteppingFits
<1>12. BaseFits(client, d)
  BY <1>3, <1>8, <1>10, <1>11, PostFits
<1>13. SteppingFits(client.n, d)
  <2>1. /\ d.row = c.row /\ d.at = c.at /\ Len(c.up) \in Nat /\ Len(d.up) = Len(c.up) + 1
        /\ \A p \in 1 .. Len(c.up) : d.up[p] = c.up[p]
        /\ d.up[Len(c.up) + 1] = m
    BY <1>3, <1>8, <1>10, AppendUp
  <2>2. \A p \in 1 .. Len(d.up) : p \in 1 .. Len(c.up) \/ p = Len(c.up) + 1
    BY <2>1
  <2>3. QED
    BY <1>8, <1>11, <2>1, <2>2 DEF SteppingFits
<1>14. PICK cl : cl = client'
  OBVIOUS
<1>15. /\ cl.at \in {"acting", "asking"} /\ cl.n = client.n /\ cl.sess = client.sess /\ cl.steps = client.steps
       /\ cl.epseq = client.epseq /\ cl.blame = client.blame /\ cl.latest = client.latest /\ cl.action = client.action
  BY <1>1, <1>14 DEF Sends, Clients
<1>16. ConnFits(cl, client.sess, d)
  BY <1>12, <1>13, <1>15 DEF ConnFits, BaseFits, Numbered, Stepping
<1>17. PhaseFits(cl)
  BY <1>1, <1>4, <1>15 DEF PhaseFits, Stepping
<1>18. QED
  BY <1>1, <1>10, <1>14, <1>15, <1>16, <1>17, OwnFits

LEMMA StepsFit ==
  ASSUME ServerInv, ClientInv, Acts \/ ActFails \/ Ticks \/ StepFails
  PROVE  ClientInv'
<1>1. client \in Clients /\ DataOK /\ ServerRests /\ PhaseFits(client)
  BY ClientTypes DEF Acts, ActFails, Ticks, StepFails, ClientInv
<1>2. CASE Acts
  <2>1. Inbox # <<>> /\ client.at = "asking"
    BY <1>2 DEF Acts, Receives
  <2>2. PICK m \in Messages : m = Head(Inbox) /\ Numbered(client, m)
    BY <2>1, InboxFits
  <2>3. m.of = client.n
    BY <1>2, <2>2, NotEarlyIsOwn DEF Acts
  <2>4. PICK new : new = [client EXCEPT !.action = m]
    OBVIOUS
  <2>5. /\ new \in Clients /\ new.n = client.n /\ new.sess = client.sess /\ new.epseq = client.epseq
        /\ new.steps = client.steps
        /\ new.blame = client.blame /\ new.latest = client.latest /\ new.action = m
    BY <1>1, <2>4 DEF Clients
  <2>6. OfOrNone(client.n, new.latest) /\ OfOrNone(client.n, new.action) /\ client.at \in Stepping
    BY <1>1, <2>1, <2>3, <2>5 DEF PhaseFits, OfOrNone, Stepping
  <2>7. AfterStep(TakenFrom(conn[client.sess]), new)
    BY <1>2, <2>2, <2>4 DEF Acts
  <2>8. QED
    BY <1>1, <2>1, <2>5, <2>6, <2>7, InboxFits, AfterStepFits
<1>3. CASE ActFails
  <2>1. Inbox # <<>> /\ EndsWith(TakenFrom(conn[client.sess]))
    BY <1>3 DEF ActFails, Receives
  <2>2. QED
    BY <1>1, <2>1, InboxFits, EndsWithFits
<1>4. CASE Ticks
  <2>1. client.sess # 0 /\ client.at \in Stepping /\ client.at = "acting"
    BY <1>1, <1>4 DEF Ticks, DataOK, ClientFits, Stepping
  <2>2. PICK new : new = [client EXCEPT !.fresh = FALSE]
    OBVIOUS
  <2>3. /\ new \in Clients /\ new.n = client.n /\ new.sess = client.sess /\ new.epseq = client.epseq
        /\ new.steps = client.steps
        /\ new.blame = client.blame /\ new.latest = client.latest /\ new.action = client.action
    BY <1>1, <2>2 DEF Clients
  <2>4. OfOrNone(client.n, new.latest) /\ OfOrNone(client.n, new.action)
    BY <1>1, <2>1, <2>3 DEF PhaseFits
  <2>5. AfterStep(conn[client.sess], new)
    BY <1>4, <2>2 DEF Ticks
  <2>6. QED
    BY <1>1, <2>1, <2>3, <2>4, <2>5, OwnFacts, AfterStepFits
<1>5. CASE StepFails
  <2>1. client.sess # 0 /\ EndsWith(conn[client.sess])
    BY <1>5 DEF StepFails, Connected
  <2>2. QED
    BY <1>1, <2>1, OwnFacts, EndsWithFits
<1>6. QED
  BY <1>2, <1>3, <1>4, <1>5

LEMMA ListensFit == ASSUME ServerInv, ClientInv, Listens PROVE ClientInv'
<1>1. /\ client \in Clients /\ DataOK /\ ServerRests /\ PhaseFits(client) /\ Inbox # <<>> /\ client.at \in {"sending", "acting"}
  BY ClientTypes DEF Listens, Receives, ClientInv
<1>2. PICK m \in Messages : m = Head(Inbox) /\ Numbered(client, m)
  BY <1>1, InboxFits
<1>3. PICK d : d = TakenFrom(conn[client.sess])
  OBVIOUS
<1>4. ConnFits(client, client.sess, d) /\ BaseFits(client, d)
  BY <1>1, <1>3, InboxFits
<1>5. PICK cl : cl = client'
  OBVIOUS
<1>6. ~Stale(m) => m.of = client.n
  BY <1>2, NotEarlyIsOwn DEF Stale
<1>7. CASE ~Stale(m) /\ Take /\ client' = Buffers(m)
  <2>1. /\ cl.at = client.at /\ cl.n = client.n /\ cl.sess = client.sess /\ cl.steps = client.steps
        /\ cl.epseq = client.epseq /\ cl.blame = client.blame /\ cl.latest = m /\ cl.action = client.action
    BY <1>1, <1>5, <1>7 DEF Buffers, Clients
  <2>2. PhaseFits(cl)
    BY <1>1, <1>6, <1>7, <2>1 DEF PhaseFits, Stepping, OfOrNone
  <2>3. ConnFits(cl, client.sess, d)
    BY <1>4, <2>1 DEF ConnFits, Numbered
  <2>4. QED
    BY <1>1, <1>3, <1>5, <1>7, <2>1, <2>2, <2>3, OwnFits DEF Take
<1>8. CASE /\ ~Stale(m)
           /\ conn' = [conn EXCEPT ![client.sess] = EndPosted(TakenFrom(@))]
           /\ client' = [client EXCEPT !.at = "idle", !.active = FALSE, !.action = NoMsg, !.blame = m.of]
  <2>1. /\ cl.at = "idle" /\ cl.action = NoMsg /\ cl.n = client.n /\ cl.sess = client.sess
        /\ cl.epseq = client.epseq /\ cl.blame = m.of
    BY <1>1, <1>5, <1>8 DEF Clients
  <2>2. cl.blame \in {0, cl.n}
    BY <1>6, <1>8, <2>1
  <2>3. BaseFits(client, EndPosted(d)) /\ conn' = [conn EXCEPT ![client.sess] = EndPosted(d)]
    BY <1>1, <1>3, <1>4, <1>8, EndPostedFits
  <2>4. QED
    BY <1>1, <1>5, <2>1, <2>2, <2>3, BetweenFits
<1>9. CASE Take /\ UNCHANGED client
  BY <1>1, <1>3, <1>4, <1>9, OwnFits DEF Take
<1>10. QED
  BY <1>2, <1>7, <1>8, <1>9 DEF Listens

-----------------------------------------------------------------------------
(* The network.                                                            *)

\* What is left of a connection that is lost: d has the first messages of c.
LostOf(c, d) ==
  /\ d.at = c.at /\ d.row = c.row /\ d.msg = c.msg /\ ~d.open /\ d.down = <<>>
  /\ Len(c.up) \in Nat /\ Len(d.up) \in Nat /\ Len(d.up) <= Len(c.up)
  /\ \A p \in 1 .. Len(d.up) : p \in 1 .. Len(c.up) /\ d.up[p] = c.up[p]

LEMMA LostFits ==
  ASSUME NEW cl, NEW s, NEW c \in Connections, NEW d \in Connections, ConnFits(cl, s, c), LostOf(c, d)
  PROVE  ConnFits(cl, s, d)
<1>1. ToSet(d.down) = {}
  BY DEF LostOf, ToSet
<1>2. ToSet(d.up) \subseteq ToSet(c.up)
  <2>1. c.up \in Seq(Messages) /\ d.up \in Seq(Messages)
    BY DEF Connections
  <2>2. DOMAIN c.up = 1 .. Len(c.up) /\ DOMAIN d.up = 1 .. Len(d.up)
    BY <2>1, LenProperties
  <2>3. QED
    BY <2>2 DEF LostOf, ToSet
<1>3. \A m \in Wire(d) : Numbered(cl, m)
  BY <1>1, <1>2 DEF ConnFits, Wire, LostOf
<1>4. WireFits(d)
  <2>1. ASSUME NEW p \in 1 .. Len(d.up), d.up[p].type = "obs"
        PROVE  d.row = d.up[p].of /\ d.at \in {"idle", "waiting"} /\ \A q \in 1 .. p : d.up[q].type = "obs"
    <3>1. p \in 1 .. Len(c.up) /\ c.up[p] = d.up[p]
      BY DEF LostOf
    <3>2. c.row = c.up[p].of /\ c.at \in {"idle", "waiting"} /\ \A q \in 1 .. p : c.up[q].type = "obs"
      BY <2>1, <3>1 DEF ConnFits, WireFits
    <3>3. \A q \in 1 .. p : q \in 1 .. Len(d.up)
      BY DEF LostOf
    <3>4. QED
      BY <3>1, <3>2, <3>3 DEF LostOf
  <2>2. QED
    BY <2>1 DEF ConnFits, WireFits, LostOf
<1>5. ASSUME StartingFits(cl.n, c) PROVE StartingFits(cl.n, d)
  <2>1. ASSUME NEW p \in 1 .. Len(d.up), d.up[p].type = "start", d.up[p].of = cl.n PROVE p = Len(d.up)
    <3>1. p \in 1 .. Len(c.up) /\ c.up[p] = d.up[p]
      BY DEF LostOf
    <3>2. p = Len(c.up)
      BY <1>5, <2>1, <3>1 DEF StartingFits
    <3>3. QED
      BY <3>2 DEF LostOf
  <2>2. ASSUME d.at \in Begins, d.msg.of = cl.n PROVE d.up = <<>>
    <3>1. c.up = <<>>
      BY <1>5, <2>2 DEF StartingFits, LostOf
    <3>2. Len(c.up) = 0
      BY <3>1
    <3>3. Len(d.up) = 0 /\ d.up \in Seq(Messages)
      BY <3>2 DEF LostOf, Connections
    <3>4. QED
      BY <3>3, EmptySeq
  <2>3. QED
    BY <1>1, <2>1, <2>2 DEF StartingFits
<1>6. ASSUME SteppingFits(cl.n, c) PROVE SteppingFits(cl.n, d)
  BY <1>6 DEF SteppingFits, LostOf
<1>7. QED
  BY <1>3, <1>4, <1>5, <1>6 DEF ConnFits

LEMMA CutFits == ASSUME ServerInv, ClientInv, Cut PROVE ClientInv'
<1>1. ServerRests /\ UNCHANGED client /\ client.sess # 0 /\ PhaseFits(client)
  BY DEF Cut, Connected, ClientInv
<1>2. PICK c : c = conn[client.sess]
  OBVIOUS
<1>3. c \in Connections /\ ConnFits(client, client.sess, c) /\ c.up \in Seq(Messages)
  BY <1>1, <1>2, OwnFacts DEF Connections
<1>4. PICK m \in 0 .. Len(c.up) :
        conn' = [conn EXCEPT ![client.sess].open = FALSE, ![client.sess].up = SubSeq(@, 1, m), ![client.sess].down = <<>>]
  BY <1>2 DEF Cut
<1>5. PICK u : u = SubSeq(c.up, 1, m)
  OBVIOUS
<1>6. Len(c.up) \in Nat /\ \A p \in 1 .. Len(c.up) : c.up[p] \in Messages
  BY <1>3, LenProperties, ElementOfSeq
<1>7. /\ u \in Seq(Messages) /\ Len(u) = m
      /\ \A p \in 1 .. Len(u) : p \in 1 .. Len(c.up) /\ u[p] = c.up[p]
  <2>1. \A p \in 1 .. m : p \in 1 .. Len(c.up)
    BY <1>4, <1>6
  <2>2. u \in Seq(Messages) /\ Len(u) = m /\ \A p \in 1 .. m : u[p] = c.up[p]
    BY <1>3, <1>4, <1>5, <1>6, <2>1
  <2>3. QED
    BY <2>1, <2>2
<1>8. PICK d : d = [c EXCEPT !.open = FALSE, !.up = u, !.down = <<>>]
  OBVIOUS
<1>9. d \in Connections /\ LostOf(c, d)
  <2>1. <<>> \in Seq(Messages)
    OBVIOUS
  <2>2. /\ d \in Connections /\ d.at = c.at /\ d.row = c.row /\ d.msg = c.msg /\ ~d.open /\ d.down = <<>> /\ d.up = u
    BY <1>3, <1>7, <1>8, <2>1 DEF Connections
  <2>3. m \in Nat /\ m <= Len(c.up)
    BY <1>4, <1>6
  <2>4. QED
    BY <1>6, <1>7, <2>2, <2>3 DEF LostOf
<1>10. conn' = [conn EXCEPT ![client.sess] = d]
  <2>1. conn \in [Conns -> Connections] /\ client.sess \in Conns
    BY <1>1, ClientTypes, OwnConnection DEF DataOK
  <2>2. QED
    BY <1>2, <1>3, <1>4, <1>5, <1>8, <2>1 DEF Connections
<1>11. ConnFits(client, client.sess, d)
  BY <1>3, <1>9, LostFits
<1>12. QED
  BY <1>1, <1>10, <1>11, OwnFits

LEMMA StartFits == ASSUME ServerInv, ClientInv, Start PROVE ClientInv'
<1>1. /\ client \in Clients /\ client.n \in Nat /\ client.at = "idle" /\ DataOK /\ PhaseFits(client)
      /\ UNCHANGED <<scenario, ep>>
  BY ClientTypes DEF Start, ServerRests, ClientInv
<1>2. PICK n : n = client.n + 1
  OBVIOUS
<1>3. n \in Nat /\ n > client.n /\ n \in Episodes
  BY <1>2, StartsNext
<1>4. PICK s, c : StartsOn(s, c, n)
  BY <1>2, StartIsPosted
<1>5. PICK k \in Nat : k = NextSeq(n, 0) /\ Ours(n, k)
  BY <1>1, <1>3, OursOwn, StepsAreNumbers
<1>6. PICK cl : cl = client'
  OBVIOUS
<1>7. /\ cl.at = "starting" /\ cl.n = n /\ cl.sess = s /\ cl.epseq = k /\ cl.blame = 0 /\ cl.steps = 0
      /\ cl.action = client.action
  BY <1>1, <1>4, <1>5, <1>6 DEF StartsOn, Clients
<1>8. PhaseFits(cl)
  <2>1. client.action = NoMsg
    BY <1>1 DEF PhaseFits
  <2>2. scenario.steps \in Nat \ {0}
    BY <1>1, StepsAreNumbers
  <2>3. cl.n > 0 /\ cl.steps < scenario.steps
    BY <1>1, <1>3, <1>7, <2>2
  <2>4. QED
    BY <1>5, <1>7, <2>1, <2>3 DEF PhaseFits, Stepping
<1>9. ASSUME NEW m \in Messages, Numbered(client, m) PROVE Numbered(cl, m) /\ m.of # n
  BY <1>1, <1>3, <1>7, <1>9 DEF Numbered, Messages
<1>10. ASSUME NEW b, BaseFits(client, b) PROVE BaseFits(cl, b) /\ \A m \in Wire(b) : m.of # n
  <2>1. Wire(b) \subseteq Messages
    <3>1. b \in Connections /\ b.up \in Seq(Messages) /\ b.down \in Seq(Messages) /\ b.msg \in Messages
      BY <1>10 DEF BaseFits, Connections
    <3>2. QED
      BY <3>1, ElementOfSeq DEF Wire, ToSet
  <2>2. QED
    BY <1>9, <1>10, <2>1 DEF BaseFits
<1>11. s \in Conns /\ BaseFits(client, c)
  <2>1. CASE c = conn[s]
    BY <1>4, <2>1, EachConn DEF StartsOn, FitToStart, BaseFits, ConnFits
  <2>2. CASE c = [NewConn EXCEPT !.open = TRUE, !.at = "idle"]
    <3>1. /\ c.up = <<>> /\ c.down = <<>> /\ c.msg = NoMsg /\ c.at = "idle"
          /\ c = [open |-> TRUE, up |-> <<>>, down |-> <<>>, at |-> "idle", row |-> 0, msg |-> NoMsg, answer |-> "none"]
      BY <2>2 DEF NewConn
    <3>2. ToSet(<<>>) = {} /\ Len(<<>>) = 0 /\ <<>> \in Seq(Messages)
      BY DEF ToSet
    <3>3. c \in Connections
      BY <3>1, <3>2 DEF Connections, NoMsg, Messages
    <3>4. \A m \in Wire(c) : Numbered(client, m)
      BY <1>1, <3>1, <3>2, NoMsgNumbered DEF Wire
    <3>5. Len(c.up) = 0
      BY <3>1
    <3>6. WireFits(c)
      BY <3>1, <3>5 DEF WireFits
    <3>7. s \in Conns
      BY <1>4 DEF StartsOn, FitToStart
    <3>8. QED
      BY <3>3, <3>4, <3>6, <3>7 DEF BaseFits
  <2>3. QED
    BY <1>4, <2>1, <2>2 DEF StartsOn, FitToStart
<1>12. PICK m : m = [type |-> "start", seq |-> k, of |-> n]
  OBVIOUS
<1>13. m \in Messages /\ m.of = n /\ m.type = "start" /\ Numbered(cl, m)
  BY <1>3, <1>5, <1>7, <1>12 DEF Messages, Numbered
<1>14. PICK d : d = Posted(c, "start", k, n)
  OBVIOUS
<1>15. Longer(c, m, d)
  BY <1>12, <1>14 DEF Longer, Posted
<1>16. BaseFits(cl, d)
  BY <1>10, <1>11, <1>13, <1>15, PostFits
<1>17. StartingFits(n, d)
  <2>1. \A x \in Wire(c) : x.of # n
    BY <1>10, <1>11
  <2>2. /\ d.down = c.down /\ d.at = c.at /\ d.msg = c.msg /\ Len(c.up) \in Nat /\ Len(d.up) = Len(c.up) + 1
        /\ \A p \in 1 .. Len(c.up) : d.up[p] = c.up[p]
    BY <1>11, <1>13, <1>15, AppendUp DEF BaseFits
  <2>3. \A p \in 1 .. Len(c.up) : c.up[p] \in Wire(c)
    <3>1. DOMAIN c.up = 1 .. Len(c.up)
      BY <1>11, LenProperties DEF BaseFits, Connections
    <3>2. QED
      BY <3>1 DEF Wire, ToSet
  <2>4. ASSUME NEW p \in 1 .. Len(d.up), d.up[p].of = n PROVE p = Len(d.up)
    <3>1. p \in 1 .. Len(c.up) \/ p = Len(d.up)
      BY <2>2
    <3>2. QED
      BY <2>1, <2>2, <2>3, <2>4, <3>1
  <2>5. d.msg.of # n /\ \A x \in ToSet(d.down) : x.of # n
    BY <2>1, <2>2 DEF Wire
  <2>6. QED
    BY <2>4, <2>5 DEF StartingFits
<1>18. ASSUME NEW t \in Conns PROVE ConnFits(cl, t, conn'[t])
  <2>1. CASE t = s
    <3>1. conn'[t] = d
      BY <1>4, <1>5, <1>14, <2>1 DEF StartsOn, StartPosted
    <3>2. QED
      BY <1>7, <1>16, <1>17, <2>1, <3>1 DEF ConnFits, BaseFits, Stepping
  <2>2. CASE t # s
    <3>1. PICK b : b = conn[t]
      OBVIOUS
    <3>2. PICK e : e = [b EXCEPT !.down = <<>>]
      OBVIOUS
    <3>3. conn'[t] = e
      BY <1>4, <2>2, <3>1, <3>2 DEF StartsOn, StartPosted
    <3>4. BaseFits(cl, b)
      BY <1>10, <3>1, EachConn DEF BaseFits, ConnFits
    <3>5. ToSet(<<>>) = {} /\ <<>> \in Seq(Messages)
      BY DEF ToSet
    <3>6. e.down = <<>> /\ e.row = b.row /\ e.open = b.open /\ e.at = b.at /\ e.msg = b.msg /\ e.up = b.up
      BY <3>2, <3>4 DEF BaseFits, Connections
    <3>7. (\A x \in Wire(e) : Numbered(cl, x)) /\ WireFits(e)
      BY <3>4, <3>5, <3>6 DEF BaseFits, Wire, WireFits
    <3>8. QED
      BY <1>7, <2>2, <3>3, <3>7 DEF ConnFits
  <2>3. QED
    BY <2>1, <2>2
<1>19. EpsFit
  BY <1>1, EpsStay
<1>20. QED
  BY <1>1, <1>6, <1>8, <1>18, <1>19, NextFits

-----------------------------------------------------------------------------
(* The theorems.                                                           *)

LEMMA ClientInvStep == ASSUME ServerInv, ClientInv, [Next]_vars PROVE ClientInv'
<1>1. CASE Client
  BY <1>1, StartFits, StartReadFits, GivesUpFits, SendsFit, StepsFit, ListensFit, StopsFit DEF Client
<1>2. CASE Cut
  BY <1>2, CutFits
<1>3. CASE Server /\ UNCHANGED client
  BY <1>3, ServerKeepsClient
<1>4. CASE UNCHANGED vars
  <2>1. UNCHANGED <<scenario, conn, ep, client>>
    BY <1>4 DEF vars, daemonVars
  <2>2. \A s \in Conns : ConnFits(client', s, conn'[s])
    BY <2>1 DEF ClientInv
  <2>3. EpsFit /\ PhaseFits(client')
    BY <2>1, EpsStay DEF ClientInv
  <2>4. QED
    BY <2>1, <2>2, <2>3, NextFits
<1>5. QED
  BY <1>1, <1>2, <1>3, <1>4 DEF Next

LEMMA ClientInvInit == Init => ClientInv
<1> SUFFICES ASSUME Init PROVE ClientInv
  OBVIOUS
<1>1. DataOK
  BY ServerInvInit DEF ServerInv
<1>2. /\ conn = [s \in Conns |-> NewConn] /\ ep = [i \in Episodes |-> NewEpisode]
      /\ client.at = "idle" /\ client.n = 0 /\ client.epseq = 0 /\ client.action = NoMsg /\ client.blame = 0
  BY DEF Init, DaemonsInit, ClientInit
<1>3. ToSet(<<>>) = {} /\ Len(<<>>) = 0
  BY DEF ToSet
<1>4. ASSUME NEW s \in Conns PROVE ConnFits(client, s, conn[s])
  <2>1. Wire(NewConn) = {NoMsg}
    BY <1>3 DEF Wire, NewConn
  <2>2. WireFits(NewConn)
    BY <1>3 DEF WireFits, NewConn
  <2>3. QED
    BY <1>1, <1>2, <2>1, <2>2, NoMsgNumbered DEF ConnFits, Stepping
<1>5. ASSUME NEW i \in Episodes PROVE SeenFits(i, ep[i])
  <2>1. Seen(NewEpisode) = {}
    BY <1>3 DEF Seen, NewEpisode
  <2>2. NewEpisode.stage = "none" /\ NewEpisode.sink = "none"
    BY DEF NewEpisode
  <2>3. QED
    BY <1>2, <2>1, <2>2 DEF SeenFits, Silent
<1>6. PhaseFits(client)
  <2>1. NextSeq(0, 0) = 0
    BY <1>1, StepsAreNumbers DEF NextSeq
  <2>2. QED
    BY <1>2, <2>1 DEF PhaseFits, Stepping
<1>7. QED
  BY <1>4, <1>5, <1>6 DEF ClientInv

\* Every message in the sockets is numbered by an episode the client has
\* started, and each connection and the client are where the messages between
\* them leave them (Connection, the orchestrator's loop, _handle_connection).
THEOREM ClientInvariant == Spec => [](ServerInv /\ ClientInv)
<1>1. Init => ServerInv /\ ClientInv
  BY ServerInvInit, ClientInvInit
<1>2. ServerInv /\ ClientInv /\ [Next]_vars => (ServerInv /\ ClientInv)'
  BY ServerInvStep, ClientInvStep
<1>3. QED
  BY <1>1, <1>2, PTL DEF Spec

LEMMA AgreementSays == ASSUME ServerInv, ClientInv PROVE ClientAndServerAgree
<1> SUFFICES ASSUME client.at \in Stepping, Connected
             PROVE  conn[client.sess].row = client.n /\ ep[client.n].stage = "run"
  BY DEF ClientAndServerAgree, Stepping
<1>1. client.sess # 0 /\ conn[client.sess].open
  BY DEF Connected
<1>2. PICK c : c = conn[client.sess]
  OBVIOUS
<1>3. client.sess \in Conns /\ ConnFits(client, client.sess, c) /\ c.open
  BY <1>1, <1>2, OwnFacts
<1>4. SteppingFits(client.n, c) /\ c.at \in {"idle", "waiting"}
  BY <1>3 DEF ConnFits, WireFits, SteppingFits
<1>5. c.row = client.n /\ client.n # 0 /\ c.at \in Calm
  <2>1. client.n > 0 /\ client.n \in Nat
    BY ClientTypes DEF ClientInv, PhaseFits
  <2>2. QED
    BY <1>4, <2>1 DEF SteppingFits, Calm
<1>6. ep[client.n].stage = "run"
  BY <1>2, <1>3, <1>5 DEF ServerInv, RowsFit
<1>7. QED
  BY <1>2, <1>5, <1>6

\* While the client steps an episode on a connection that holds, its handler has
\* that episode, and the server has not ended it.
THEOREM ClientAndServerStepTheSame == Spec => []ClientAndServerAgree
BY ClientInvariant, AgreementSays, PTL

-----------------------------------------------------------------------------
(* One answer at a time: how the wire of a sync client is.                 *)

Rests == {"idle", "leaving", "over"}

NoneOf(q, n) == \A p \in 1 .. Len(q) : q[p].of # n
OneOf(q, n)  == \A p, r \in 1 .. Len(q) : q[p].of = n /\ q[r].of = n => p = r

\* The connection of a sync client: whatever is left of its episode is one
\* message, the request, the observation that waits or its answer.
SyncPhase(cl, c) ==
  /\ cl.at \in {"starting", "asking"} => OneOf(c.down, cl.n)
  /\ cl.at = "starting" /\ (~NoneOf(c.down, cl.n) \/ c.row = cl.n) => c.up = <<>> /\ c.at \in Rests
  /\ cl.at = "sending" => c.up = <<>> /\ c.at # "waiting" /\ NoneOf(c.down, cl.n)
  /\ cl.at = "asking" =>
       /\ Len(c.up) <= 1 /\ \A p \in 1 .. Len(c.up) : c.up[p].seq = NextSeq(cl.n, cl.steps + 1)
       /\ c.at = "waiting" => c.up = <<>> /\ c.msg.seq = NextSeq(cl.n, cl.steps + 1)
       /\ c.up # <<>> \/ c.at = "waiting" => NoneOf(c.down, cl.n)
       /\ \A p \in 1 .. Len(c.down) : c.down[p].of = cl.n =>
            c.down[p].seq = NextSeq(cl.n, cl.steps + 1) /\ c.down[p].type \in {"action", "error"}

\* The action that a sync client has applied.
AppliedFits(cl) ==
  cl.at = "sending" /\ cl.action.type # "none" =>
    cl.action.type = "action" /\ cl.action.seq = NextSeq(cl.n, cl.steps)

SyncInv ==
  mode # "live" =>
    /\ client.at # "acting" /\ AppliedFits(client)
    /\ client.sess # 0 => SyncPhase(client, conn[client.sess])

-----------------------------------------------------------------------------
(* What the server does to the connection of a sync client.                *)

Marks(c, d) == d.up = c.up /\ d.down = c.down /\ d.at = c.at /\ d.row = c.row /\ d.msg = c.msg

\* d has, of c, one more message to the client at most, and that of episode i.
Adds(c, d, i) ==
  \/ d.down = c.down
  \/ /\ Len(c.down) \in Nat /\ Len(d.down) = Len(c.down) + 1
     /\ \A p \in 1 .. Len(c.down) : d.down[p] = c.down[p]
     /\ d.down[Len(c.down) + 1].of = i

AddsReply(c, d) ==
  /\ Adds(c, d, c.row)
  /\ d.down = c.down \/ (d.down[Len(c.down) + 1].seq = c.msg.seq /\ d.down[Len(c.down) + 1].type \in {"action", "error"})

Takes(c, d) ==
  /\ c.at = "idle" /\ Rest(c, d) /\ d.down = c.down /\ d.row = c.row
  /\ \/ c.up[1].type = "start" /\ d.at = "restarting"
     \/ c.up[1].type = "end" /\ d.at \in {"idle", "ending"}
     \/ c.up[1].type = "obs" /\ d.at = "waiting" /\ d.msg = c.up[1]

Starting(c, d) ==
  /\ c.at \in Begins /\ d.up = c.up
  /\ \/ d.at \in Begins /\ d.down = c.down /\ d.row \in {0, c.row}
     \/ d.at = "idle" /\ d.row \in {0, c.msg.of} /\ Adds(c, d, c.msg.of)

Goes(c, d) ==
  /\ d.down = c.down /\ d.row \in {0, c.row} /\ d.up \in {<<>>, c.up}
  /\ d.at \in {"leaving", "over"} \/ (c.at = "ending" /\ d.at = "idle" /\ d.row = 0)

Move(c, d) ==
  \/ Marks(c, d) \/ Takes(c, d) \/ Starting(c, d) \/ Goes(c, d)
  \/ c.at = "waiting" /\ d.at = "idle" /\ d.up = c.up /\ d.row = c.row /\ AddsReply(c, d)

LEMMA AddsFits ==
  ASSUME NEW c, NEW d, NEW i, NEW n, Adds(c, d, i)
  PROVE  /\ NoneOf(c.down, n) => OneOf(d.down, n)
         /\ NoneOf(c.down, n) /\ i # n => NoneOf(d.down, n)
<1>1. CASE d.down = c.down
  BY <1>1 DEF NoneOf, OneOf
<1>2. CASE /\ Len(c.down) \in Nat /\ Len(d.down) = Len(c.down) + 1
           /\ \A p \in 1 .. Len(c.down) : d.down[p] = c.down[p]
           /\ d.down[Len(c.down) + 1].of = i
  <2>1. \A p \in 1 .. Len(d.down) : p \in 1 .. Len(c.down) \/ p = Len(c.down) + 1
    BY <1>2
  <2>2. QED
    BY <1>2, <2>1 DEF NoneOf, OneOf
<1>3. QED
  BY <1>1, <1>2 DEF Adds

LEMMA MoveStarting ==
  ASSUME NEW cl, NEW c, NEW d, Move(c, d), SyncPhase(cl, c), StartingFits(cl.n, c), cl.n > 0, cl.n \in Nat, cl.at = "starting"
  PROVE  SyncPhase(cl, d)
<1>1. (NoneOf(c.down, cl.n) /\ c.row # cl.n) \/ (c.up = <<>> /\ c.at \in Rests)
  BY DEF SyncPhase
<1>2. OneOf(c.down, cl.n)
  BY DEF SyncPhase
<1>3. SUFFICES /\ OneOf(d.down, cl.n)
               /\ ~NoneOf(d.down, cl.n) \/ d.row = cl.n => d.up = <<>> /\ d.at \in Rests
  BY DEF SyncPhase
<1>4. CASE Marks(c, d)
  BY <1>1, <1>2, <1>4 DEF Marks
<1>5. CASE Takes(c, d)
  <2>1. c.up # <<>>
    BY <1>5 DEF Takes, Rest
  <2>2. QED
    BY <1>1, <1>2, <1>5, <2>1 DEF Takes
<1>6. CASE Starting(c, d)
  <2>1. NoneOf(c.down, cl.n) /\ c.row # cl.n
    BY <1>1, <1>6 DEF Starting, Begins, Rests
  <2>2. CASE d.at \in Begins
    BY <1>2, <1>6, <2>1, <2>2 DEF Starting, Begins
  <2>3. CASE d.at = "idle" /\ d.row \in {0, c.msg.of} /\ Adds(c, d, c.msg.of)
    <3>1. OneOf(d.down, cl.n) /\ (c.msg.of # cl.n => NoneOf(d.down, cl.n))
      BY <2>1, <2>3, AddsFits
    <3>2. c.msg.of = cl.n => d.up = <<>>
      BY <1>6 DEF StartingFits, Starting
    <3>3. QED
      BY <2>3, <3>1, <3>2 DEF Rests
  <2>4. QED
    BY <1>6, <2>2, <2>3 DEF Starting
<1>7. CASE Goes(c, d)
  BY <1>1, <1>2, <1>7 DEF Goes, Rests
<1>8. CASE c.at = "waiting" /\ d.at = "idle" /\ d.up = c.up /\ d.row = c.row /\ AddsReply(c, d)
  <2>1. NoneOf(c.down, cl.n) /\ c.row # cl.n
    BY <1>1, <1>8 DEF Rests
  <2>2. OneOf(d.down, cl.n) /\ NoneOf(d.down, cl.n)
    BY <1>8, <2>1, AddsFits DEF AddsReply
  <2>3. QED
    BY <1>8, <2>1, <2>2
<1>9. QED
  BY <1>4, <1>5, <1>6, <1>7, <1>8 DEF Move

LEMMA AtMostOne == \A l \in Nat \ {0} : l <= 1 => l = 1
OBVIOUS

LEMMA MoveStepping ==
  ASSUME NEW cl, NEW c, NEW d, Move(c, d), SyncPhase(cl, c), SteppingFits(cl.n, c), cl.at \in {"sending", "asking"}
  PROVE  SyncPhase(cl, d)
<1>1. c.at \in {"idle", "waiting", "leaving", "over"}
  BY DEF SteppingFits
<1>2. CASE Marks(c, d)
  BY <1>2 DEF Marks, SyncPhase
<1>3. CASE Takes(c, d)
  <2>1. c.up # <<>> /\ Len(d.up) = Len(c.up) - 1 /\ Len(c.up) \in Nat \ {0} /\ (Len(d.up) = 0 => d.up = <<>>)
    BY <1>3 DEF Takes, Rest
  <2>2. cl.at = "asking" /\ Len(c.up) <= 1
    BY <2>1 DEF SyncPhase
  <2>3. Len(c.up) = 1 /\ Len(d.up) = 0 /\ d.up = <<>> /\ 1 \in 1 .. Len(c.up)
    <3>1. Len(c.up) = 1
      BY <2>1, <2>2, AtMostOne
    <3>2. Len(d.up) = 0
      BY <2>1, <3>1
    <3>3. QED
      BY <2>1, <3>1, <3>2
  <2>4. c.up[1].type = "obs" /\ c.up[1].seq = NextSeq(cl.n, cl.steps + 1)
    BY <2>2, <2>3 DEF SyncPhase, SteppingFits
  <2>5. d.at = "waiting" /\ d.msg = c.up[1] /\ d.down = c.down
    BY <1>3, <2>4 DEF Takes
  <2>6. QED
    BY <2>1, <2>2, <2>3, <2>4, <2>5 DEF SyncPhase
<1>4. CASE Starting(c, d)
  BY <1>1, <1>4 DEF Starting, Begins
<1>5. CASE Goes(c, d)
  <2>1. Len(<<>>) = 0
    OBVIOUS
  <2>2. d.down = c.down /\ d.up \in {<<>>, c.up} /\ d.at \in {"leaving", "over"}
    BY <1>1, <1>5 DEF Goes
  <2>3. QED
    BY <2>1, <2>2 DEF SyncPhase
<1>6. CASE c.at = "waiting" /\ d.at = "idle" /\ d.up = c.up /\ d.row = c.row /\ AddsReply(c, d)
  <2>1. /\ cl.at = "asking" /\ c.up = <<>> /\ c.msg.seq = NextSeq(cl.n, cl.steps + 1) /\ NoneOf(c.down, cl.n) /\ Len(<<>>) = 0
    BY <1>6 DEF SyncPhase
  <2>2. OneOf(d.down, cl.n)
    BY <1>6, <2>1, AddsFits DEF AddsReply
  <2>3. ASSUME NEW p \in 1 .. Len(d.down), d.down[p].of = cl.n
        PROVE  d.down[p].seq = NextSeq(cl.n, cl.steps + 1) /\ d.down[p].type \in {"action", "error"}
    <3>1. CASE d.down = c.down
      BY <2>1, <2>3, <3>1 DEF NoneOf
    <3>2. CASE d.down # c.down
      <4>1. p \in 1 .. Len(c.down) \/ p = Len(c.down) + 1
        BY <1>6, <3>2 DEF AddsReply, Adds
      <4>2. p \in 1 .. Len(c.down) => d.down[p] = c.down[p]
        BY <1>6, <3>2 DEF AddsReply, Adds
      <4>3. p = Len(c.down) + 1
        BY <2>1, <2>3, <4>1, <4>2 DEF NoneOf
      <4>4. QED
        BY <1>6, <2>1, <3>2, <4>3 DEF AddsReply
    <3>3. QED
      BY <3>1, <3>2
  <2>4. QED
    BY <1>6, <2>1, <2>2, <2>3 DEF SyncPhase
<1>7. QED
  BY <1>2, <1>3, <1>4, <1>5, <1>6 DEF Move

\* What the server does to a connection leaves it as a sync client expects it.
LEMMA MoveFits ==
  ASSUME NEW cl, NEW c, NEW d, Move(c, d), SyncPhase(cl, c), ConnFits(cl, cl.sess, c), PhaseFits(cl), cl.n \in Nat
  PROVE  SyncPhase(cl, d)
<1>1. CASE cl.at = "starting"
  BY <1>1, MoveStarting DEF ConnFits, PhaseFits
<1>2. CASE cl.at \in {"sending", "asking"}
  BY <1>2, MoveStepping DEF ConnFits, Stepping
<1>3. CASE cl.at \notin {"starting", "sending", "asking"}
  BY <1>3 DEF SyncPhase
<1>4. QED
  BY <1>1, <1>2, <1>3

\* Every connection makes such a move.
ConnsMove == \A s \in Conns : Move(conn[s], conn'[s])

LEMMA StaysPut == ASSUME UNCHANGED conn PROVE ConnsMove
BY DEF ConnsMove, Move, Marks

LEMMA OneMoves ==
  ASSUME DataOK, NEW s, NEW d, conn' = [conn EXCEPT ![s] = d], s \in Conns => Move(conn[s], d)
  PROVE  ConnsMove
<1>1. ASSUME NEW t \in Conns PROVE Move(conn[t], conn'[t])
  <2>1. CASE t = s
    BY <2>1 DEF DataOK
  <2>2. CASE t # s
    <3>1. conn'[t] = conn[t]
      BY <2>2 DEF DataOK
    <3>2. QED
      BY <3>1 DEF Move, Marks
  <2>3. QED
    BY <2>1, <2>2
<1>2. QED
  BY <1>1 DEF ConnsMove

\* Without a live client, what the episode does only decides the answer of the wait.
LEMMA SweptMarks ==
  ASSUME DataOK, NEW s, conn' = [conn EXCEPT ![s] = Swept(@)]
  PROVE  ConnsMove
<1>1. s \in Conns => Marks(conn[s], Swept(conn[s]))
  BY DEF Swept, Marks, DataOK, Connections
<1>2. QED
  BY <1>1, OneMoves DEF Move

LEMMA AnsweredMarks ==
  ASSUME DataOK, mode # "live", NEW s, NEW i, NEW k, NEW type, conn' = [conn EXCEPT ![s] = Answered(@, i, k, type)]
  PROVE  ConnsMove
<1>1. s \in Conns => Marks(conn[s], Answered(conn[s], i, k, type))
  BY DEF Answered, Marks, DataOK, Connections
<1>2. QED
  BY <1>1, OneMoves DEF Move

LEMMA EpisodesMove ==
  ASSUME ServerInv, ClientInv, mode # "live", NEW i \in Episodes, NEW t \in Tasks,
         Hosts(i) \/ Delivers(i) \/ UserCode(i) \/ Cancelled(i, t) \/ CallReturns(i, t)
  PROVE  ConnsMove
<1>0. DataOK
  BY DEF ServerInv
<1>1. CASE Hosts(i)
  <2>1. ep[i].sink = "none"
    BY DEF ClientInv, SeenFits, Silent
  <2>2. ~SendsError(i)
    BY <2>1 DEF SendsError
  <2>3. QED
    BY <1>1, <2>2, StaysPut DEF Hosts, HostRuns, HostLeaves, HostExits
<1>2. CASE Delivers(i)
  <2>1. CASE Admits(i) \/ Settled(i)
    BY <2>1, StaysPut DEF Admits, Settled
  <2>2. CASE Settles(i)
    BY <1>0, <2>2, StaysPut, SweptMarks DEF Settles, Fail
  <2>3. CASE StopsMoving(i)
    BY <1>0, <2>3, StaysPut, AnsweredMarks DEF StopsMoving
  <2>4. QED
    BY <1>2, <2>1, <2>2, <2>3 DEF Delivers
<1>3. CASE UserCode(i)
  <2>1. CASE Receive(i) \/ Spawns(i) \/ Visits(i)
    BY <2>1, StaysPut DEF Receive, Spawns, Visits
  <2>2. ASSUME NEW k, Reply(i, k, "action") \/ Reply(i, k, "error") PROVE ConnsMove
    BY <1>0, <2>2, StaysPut, AnsweredMarks DEF Reply
  <2>3. ASSUME NEW u \in Tasks, Finishes(i, u) \/ Raises(i, u) PROVE ConnsMove
    BY <1>0, <2>3, StaysPut, SweptMarks DEF Finishes, TaskGoes, Raises, Fail
  <2>4. ASSUME NEW u \in Tasks, Interrupts(i, u) \/ Calls(i, u) \/ Publishes(i, u) PROVE ConnsMove
    BY <2>4, StaysPut DEF Interrupts, Calls, Publishes
  <2>5. QED
    BY <1>3, <2>1, <2>2, <2>3, <2>4 DEF UserCode
<1>4. CASE Cancelled(i, t) \/ CallReturns(i, t)
  BY <1>4, StaysPut DEF Cancelled, CallReturns
<1>5. QED
  BY <1>1, <1>2, <1>3, <1>4

LEMMA SentAdds ==
  ASSUME NEW c \in Connections, NEW type, NEW k, NEW i, [type |-> type, seq |-> k, of |-> i] \in Messages,
         NEW d, d.down = Sent(c, type, k, i).down
  PROVE  /\ Adds(c, d, i)
         /\ d.down = c.down \/ (d.down[Len(c.down) + 1].seq = k /\ d.down[Len(c.down) + 1].type = type)
<1>1. PICK m \in Messages : m = [type |-> type, seq |-> k, of |-> i]
  OBVIOUS
<1>2. m.seq = k /\ m.type = type /\ m.of = i
  BY <1>1
<1>3. PICK u : u = Append(c.down, m)
  OBVIOUS
<1>4. c.down \in Seq(Messages)
  BY DEF Connections
<1>5. /\ Len(c.down) \in Nat /\ Len(u) = Len(c.down) + 1
      /\ \A p \in 1 .. Len(c.down) : u[p] = c.down[p]
      /\ u[Len(c.down) + 1] = m
  BY <1>3, <1>4, AppendProperties, LenProperties
<1>6. d.down = c.down \/ d.down = u
  BY <1>1, <1>3 DEF Sent, Connections
<1>7. QED
  BY <1>2, <1>5, <1>6 DEF Adds

\* A handler that reads a message.
LEMMA ReadMoves ==
  ASSUME ServerInv, ClientInv, mode # "live", NEW s \in Conns, ReadStart(s) \/ ReadEnd(s) \/ Observe(s)
  PROVE  ConnsMove
<1>0. DataOK
  BY DEF ServerInv
<1>1. PICK c \in Connections : c = conn[s] /\ ConnOK(c)
  BY EachConn
<1>2. PICK m : m = Head(c.up)
  OBVIOUS
<1>3. c.at = "idle" /\ c.up # <<>>
  BY <1>1 DEF ReadStart, ReadEnd, Observe, Reads
<1>4. m \in Messages /\ Tail(c.up) \in Seq(Messages) /\ m = c.up[1]
  BY <1>0, <1>1, <1>2, <1>3, TakeFacts
<1>5. ASSUME NEW d \in Connections, d.up = Tail(c.up), d.down = c.down, d.row = c.row, conn' = [conn EXCEPT ![s] = d],
             \/ m.type = "start" /\ d.at = "restarting"
             \/ m.type = "end" /\ d.at \in {"idle", "ending"}
             \/ m.type = "obs" /\ d.at = "waiting" /\ d.msg = m
      PROVE  ConnsMove
  <2>1. Rest(c, d)
    BY <1>3, <1>5, RestOfTail
  <2>2. Takes(c, d)
    BY <1>3, <1>4, <1>5, <2>1 DEF Takes
  <2>3. QED
    BY <1>0, <1>1, <1>5, <2>2, OneMoves DEF Move
<1>6. CASE ReadStart(s)
  <2>1. PICK d : d = [c EXCEPT !.up = Tail(@), !.msg = m, !.at = "restarting"]
    OBVIOUS
  <2>2. conn' = [conn EXCEPT ![s] = d] /\ m.type = "start"
    BY <1>1, <1>2, <1>6, <2>1 DEF ReadStart, Reads
  <2>3. d \in Connections /\ d.up = Tail(c.up) /\ d.down = c.down /\ d.row = c.row /\ d.at = "restarting"
    BY <1>4, <2>1 DEF Connections
  <2>4. QED
    BY <1>5, <2>2, <2>3
<1>7. CASE ReadEnd(s)
  <2>1. PICK d : d = [c EXCEPT !.up = Tail(@), !.at = IF c.row = 0 THEN "idle" ELSE "ending"]
    OBVIOUS
  <2>2. conn' = [conn EXCEPT ![s] = d] /\ m.type = "end"
    BY <1>1, <1>2, <1>7, <2>1 DEF ReadEnd, Reads
  <2>3. d \in Connections /\ d.up = Tail(c.up) /\ d.down = c.down /\ d.row = c.row /\ d.at \in {"idle", "ending"}
    BY <1>4, <2>1 DEF Connections
  <2>4. QED
    BY <1>5, <2>2, <2>3
<1>8. CASE Observe(s)
  <2>1. PICK r : r = ReadWaiting(c)
    OBVIOUS
  <2>2. /\ r \in Connections /\ r.up = Tail(c.up) /\ r.down = c.down /\ r.row = c.row /\ r.at = "waiting" /\ r.msg = m
        /\ m.type = "obs"
    BY <1>1, <1>2, <1>4, <1>8, <2>1 DEF ReadWaiting, Connections, Observe, Reads
  <2>3. PICK i, k : \/ conn' = [conn EXCEPT ![s] = r]
                    \/ conn' = [conn EXCEPT ![s] = Answered(r, i, k, "error")]
                    \/ conn' = [conn EXCEPT ![s] = Swept(r)]
    BY <1>1, <1>8, <2>1 DEF Observe, ReadWaiting
  <2>4. PICK d : conn' = [conn EXCEPT ![s] = d] /\ d \in {r, [r EXCEPT !.answer = "error"]}
    BY <2>3 DEF Answered, Swept
  <2>5. d \in Connections /\ d.up = Tail(c.up) /\ d.down = c.down /\ d.row = c.row /\ d.at = "waiting" /\ d.msg = m
    BY <2>2, <2>4 DEF Connections
  <2>6. QED
    BY <1>5, <2>2, <2>4, <2>5
<1>9. QED
  BY <1>6, <1>7, <1>8

\* The observation that waits is answered, or its client is gone.
LEMMA WaitMoves ==
  ASSUME ServerInv, ClientInv, NEW s \in Conns, Replies(s) \/ StopsWaiting(s)
  PROVE  ConnsMove
<1>0. DataOK
  BY DEF ServerInv
<1>1. PICK c \in Connections : c = conn[s] /\ ConnOK(c) /\ ConnFits(client, s, c)
  BY EachConn
<1>2. c.at = "waiting"
  BY <1>1 DEF Replies, StopsWaiting
<1>3. PICK b \in Connections : /\ b.up = c.up /\ b.row = c.row /\ AddsReply(c, b) /\ conn' = [conn EXCEPT ![s] = Idle(b)]
  <2>1. CASE StopsWaiting(s)
    BY <1>1, <1>2, <2>1 DEF StopsWaiting, AddsReply, Adds
  <2>2. CASE Replies(s)
    <3>1. PICK type \in {"action", "error"} : type = c.answer
      BY <1>1, <2>2 DEF Replies, Connections
    <3>2. c.msg.seq \in Nat /\ c.row \in Nat
      <4>1. c.msg.seq \in Nat /\ c.row \in {0} \cup Episodes
        BY DEF Connections, Messages
      <4>2. 0 \in Nat /\ \A i \in Episodes : i \in Nat
        BY EpisodesAreNumbers
      <4>3. QED
        BY <4>1, <4>2
    <3>3. PICK b : b = Sent(c, type, c.msg.seq, c.row)
      OBVIOUS
    <3>4. [type |-> type, seq |-> c.msg.seq, of |-> c.row] \in Messages
      BY <3>1, <3>2 DEF Messages
    <3>5. ConnOK(b) /\ b.up = c.up /\ b.row = c.row
      BY <1>1, <3>1, <3>2, <3>3, SentOK
    <3>6. AddsReply(c, b)
      BY <3>1, <3>3, <3>4, SentAdds DEF AddsReply
    <3>7. QED
      BY <1>1, <2>2, <3>1, <3>3, <3>5, <3>6 DEF Replies, ConnOK
  <2>3. QED
    BY <2>1, <2>2
<1>4. PICK d : d = Idle(b)
  OBVIOUS
<1>5. d.at = "idle" /\ d.up = b.up /\ d.row = b.row /\ d.down = b.down
  BY <1>4 DEF Idle, Connections
<1>6. AddsReply(c, d)
  BY <1>3, <1>5 DEF AddsReply, Adds
<1>7. QED
  BY <1>0, <1>1, <1>2, <1>3, <1>4, <1>5, <1>6, OneMoves DEF Move

\* A handler that begins an episode: it goes on, or the client is told how it went.
LEMMA BeginMoves ==
  ASSUME ServerInv, ClientInv, NEW s \in Conns,
         StartEpisode(s) \/ StartFails(s) \/ Starts(s) \/ RollsBack(s) \/ RolledBack(s)
  PROVE  ConnsMove
<1>0. DataOK
  BY DEF ServerInv
<1>1. PICK c \in Connections : c = conn[s] /\ ConnOK(c)
  BY EachConn
<1>2. c.at \in Begins
  BY <1>1 DEF StartEpisode, StartFails, Starts, RollsBack, RolledBack, Begins
<1>3. PICK i \in Nat, k \in Nat : i = c.msg.of /\ k = c.msg.seq
  BY DEF Connections, Messages
<1>4. ASSUME NEW at \in Begins, conn' = [conn EXCEPT ![s].at = at] PROVE ConnsMove
  <2>1. PICK d : d = [c EXCEPT !.at = at]
    OBVIOUS
  <2>2. conn' = [conn EXCEPT ![s] = d]
    BY <1>1, <1>4, <2>1
  <2>3. d.at \in Begins /\ d.up = c.up /\ d.down = c.down /\ d.row = c.row
    BY <1>4, <2>1 DEF Connections
  <2>4. QED
    BY <1>0, <1>1, <1>2, <2>2, <2>3, OneMoves DEF Move, Starting
<1>5. ASSUME c.row = 0, NEW type \in {"error", "ready"}, NEW a, a \in {c, Sent(c, type, k, i)}, NEW b, b = Idle(a),
             NEW open, NEW d, d \in {b, [b EXCEPT !.open = open], [b EXCEPT !.row = i]}, conn' = [conn EXCEPT ![s] = d]
      PROVE  ConnsMove
  <2>1. ConnOK(Sent(c, type, k, i)) /\ Sent(c, type, k, i).up = c.up /\ Sent(c, type, k, i).row = c.row
    BY <1>1, <1>5, SentOK
  <2>2. a \in Connections /\ a.up = c.up /\ a.row = 0
    BY <1>1, <1>5, <2>1 DEF ConnOK
  <2>3. b = [open |-> a.open, up |-> a.up, down |-> a.down, at |-> "idle", row |-> a.row, msg |-> NoMsg, answer |-> "none"]
    BY <1>5, <2>2 DEF Idle, Connections
  <2>4. d.at = "idle" /\ d.up = c.up /\ d.down = a.down /\ d.row \in {0, i}
    BY <1>5, <2>2, <2>3
  <2>5. [type |-> type, seq |-> k, of |-> i] \in Messages
    BY <1>5 DEF Messages
  <2>6. Adds(c, d, i)
    <3>1. CASE a = c
      BY <2>4, <3>1 DEF Adds
    <3>2. CASE a = Sent(c, type, k, i)
      BY <2>4, <2>5, <3>2, SentAdds
    <3>3. QED
      BY <1>5, <3>1, <3>2
  <2>7. Starting(c, d)
    BY <1>2, <1>3, <2>4, <2>6 DEF Starting
  <2>8. QED
    BY <1>0, <1>1, <1>5, <2>7, OneMoves DEF Move
<1>6. CASE StartEpisode(s)
  <2>1. c.row = 0
    BY <1>1, <1>6 DEF StartEpisode
  <2>2. CASE conn' = [conn EXCEPT ![s].at = "starting"]
    BY <1>4, <2>2 DEF Begins
  <2>3. ASSUME NEW stays \in BOOLEAN,
               conn' = [conn EXCEPT ![s] = [Idle(Sent(@, "error", conn[s].msg.seq, i)) EXCEPT !.open = conn[s].open /\ stays]]
        PROVE  ConnsMove
    <3>1. PICK open : open = (conn[s].open /\ stays)
      OBVIOUS
    <3>2. PICK b : b = Idle(Sent(c, "error", k, i))
      OBVIOUS
    <3>3. PICK d : d = [b EXCEPT !.open = open]
      OBVIOUS
    <3>4. conn' = [conn EXCEPT ![s] = d]
      BY <1>1, <1>3, <2>3, <3>1, <3>2, <3>3
    <3>5. QED
      BY <1>5, <2>1, <3>2, <3>3, <3>4
  <2>4. QED
    BY <1>1, <1>3, <1>6, <2>2, <2>3 DEF StartEpisode
<1>7. c.at \in {"starting", "rolling"} => c.row = 0
  BY <1>1 DEF ConnOK, HandlerFits
<1>8. CASE StartFails(s)
  <2>1. PICK d : d = Idle(Sent(c, "error", k, i))
    OBVIOUS
  <2>2. conn' = [conn EXCEPT ![s] = d] /\ c.at = "starting"
    BY <1>1, <1>3, <1>8, <2>1 DEF StartFails
  <2>3. QED
    BY <1>5, <1>7, <2>1, <2>2
<1>9. CASE Starts(s)
  <2>1. PICK b : b = Idle(Sent(c, "ready", k, i))
    OBVIOUS
  <2>2. PICK d : d = [b EXCEPT !.row = i]
    OBVIOUS
  <2>3. conn' = [conn EXCEPT ![s] = d] /\ c.at = "starting"
    BY <1>1, <1>3, <1>9, <2>1, <2>2 DEF Starts
  <2>4. QED
    BY <1>5, <1>7, <2>1, <2>2, <2>3
<1>10. CASE RollsBack(s)
  BY <1>4, <1>10 DEF RollsBack, Begins
<1>11. CASE RolledBack(s)
  <2>1. PICK d : d = Idle(c)
    OBVIOUS
  <2>2. conn' = [conn EXCEPT ![s] = d] /\ c.at = "rolling"
    BY <1>1, <1>11, <2>1 DEF RolledBack
  <2>3. QED
    BY <1>5, <1>7, <2>1, <2>2
<1>12. QED
  BY <1>6, <1>8, <1>9, <1>10, <1>11

\* A handler that leaves, or that ends an episode.
LEMMA EndMoves ==
  ASSUME ServerInv, ClientInv, NEW s \in Conns, Leaves(s) \/ CloseEnded(s) \/ FinishEnded(s) \/ Ended(s)
  PROVE  ConnsMove
<1>0. DataOK
  BY DEF ServerInv
<1>1. PICK c \in Connections : c = conn[s] /\ ConnOK(c)
  BY EachConn
<1>2. CASE Leaves(s)
  <2>1. PICK d : d = [c EXCEPT !.at = IF c.row = 0 THEN "over" ELSE "leaving",
                               !.open = FALSE, !.up = <<>>, !.msg = NoMsg, !.answer = "none"]
    OBVIOUS
  <2>2. conn' = [conn EXCEPT ![s] = d]
    BY <1>1, <1>2, <2>1 DEF Leaves
  <2>3. d.down = c.down /\ d.row = c.row /\ d.up = <<>> /\ d.at \in {"leaving", "over"}
    BY <2>1 DEF Connections
  <2>4. Goes(c, d)
    BY <2>3 DEF Goes
  <2>5. QED
    BY <1>0, <1>1, <2>2, <2>4, OneMoves DEF Move
<1>3. CASE CloseEnded(s) \/ FinishEnded(s)
  BY <1>3, StaysPut DEF CloseEnded, FinishEnded
<1>4. CASE Ended(s)
  <2>1. PICK at : at = CASE c.at = "ending" -> "idle" [] c.at = "leaving" -> "over" [] OTHER -> c.at
    OBVIOUS
  <2>2. PICK d : d = [c EXCEPT !.row = 0, !.at = at]
    OBVIOUS
  <2>3. conn' = [conn EXCEPT ![s] = d] /\ c.at \in {"restarting", "ending", "leaving"}
    BY <1>1, <1>4, <2>1, <2>2 DEF Ended, IsEnding
  <2>4. d.down = c.down /\ d.row = 0 /\ d.up = c.up /\ d.at = at
    BY <2>2 DEF Connections
  <2>5. \/ c.at = "restarting" /\ at = "restarting"
        \/ c.at = "ending" /\ at = "idle"
        \/ c.at = "leaving" /\ at = "over"
    BY <2>1, <2>3
  <2>6. Starting(c, d) \/ Goes(c, d)
    BY <2>4, <2>5 DEF Starting, Goes, Begins
  <2>7. QED
    BY <1>0, <1>1, <2>3, <2>6, OneMoves DEF Move
<1>5. QED
  BY <1>2, <1>3, <1>4

LEMMA ServerMoves == ASSUME ServerInv, ClientInv, mode # "live", Server PROVE ConnsMove
<1>1. ASSUME NEW s \in Conns, Handler(s) PROVE ConnsMove
  BY <1>1, ReadMoves, WaitMoves, BeginMoves, EndMoves DEF Handler
<1>2. ASSUME NEW i \in Episodes, Hosts(i) \/ Delivers(i) \/ UserCode(i) PROVE ConnsMove
  <2>1. "root" \in Tasks
    BY DEF Tasks
  <2>2. QED
    BY <1>2, <2>1, EpisodesMove
<1>3. ASSUME NEW i \in Episodes, NEW t \in Tasks, Cancelled(i, t) \/ CallReturns(i, t) PROVE ConnsMove
  BY <1>3, EpisodesMove
<1>4. CASE Shutdown \/ Sweeps
  BY <1>4, StaysPut DEF Shutdown, Sweeps
<1>5. QED
  BY <1>1, <1>2, <1>3, <1>4 DEF Server

-----------------------------------------------------------------------------
(* What a sync client does to its connection.                              *)

LEMMA NextSync ==
  ASSUME UNCHANGED scenario, NEW cl, cl = client', cl.at # "acting", AppliedFits(cl),
         NEW d, cl.sess # 0 => d = conn'[cl.sess] /\ SyncPhase(cl, d)
  PROVE  SyncInv'
<1>1. cl.sess # 0 => SyncPhase(client, conn[client.sess])'
  <2>1. ASSUME cl.sess # 0 PROVE SyncPhase(client, conn[client.sess])'
    <3>1. SyncPhase(cl, d) /\ d = conn'[client'.sess]
      BY <2>1
    <3>2. QED
      BY <3>1 DEF SyncPhase, NextSeq, NoneOf, OneOf
  <2>2. QED
    BY <2>1
<1>2. AppliedFits(client)'
  BY DEF AppliedFits, NextSeq
<1>3. QED
  BY <1>1, <1>2 DEF SyncInv

LEMMA IdleSync ==
  ASSUME UNCHANGED scenario, NEW cl, cl = client', cl.at \in {"idle", "done"}
  PROVE  SyncInv'
<1>1. AppliedFits(cl) /\ SyncPhase(cl, conn'[cl.sess]) /\ cl.at # "acting"
  BY DEF AppliedFits, SyncPhase
<1>2. QED
  BY <1>1, NextSync

\* What is left of the messages of c are those behind its first, in order.
Behind(d, c) == \A p \in 1 .. Len(d.down) : p + 1 \in 1 .. Len(c.down) /\ d.down[p] = c.down[p + 1]

\* Taking a message of the episode at hand leaves none of it.
LEMMA TakenSync ==
  ASSUME NEW c \in Connections, c.down # <<>>, NEW d, d = TakenFrom(c), NEW n
  PROVE  /\ d.up = c.up /\ d.at = c.at /\ d.row = c.row /\ d.msg = c.msg
         /\ Head(c.down) = c.down[1] /\ 1 \in 1 .. Len(c.down)
         /\ Behind(d, c)
         /\ NoneOf(c.down, n) => NoneOf(d.down, n)
         /\ OneOf(c.down, n) => OneOf(d.down, n)
         /\ OneOf(c.down, n) /\ Head(c.down).of = n => NoneOf(d.down, n) /\ ~NoneOf(c.down, n)
<1>1. c.down \in Seq(Messages)
  BY DEF Connections
<1>2. PICK u : u = Tail(c.down)
  OBVIOUS
<1>3. /\ u \in Seq(Messages) /\ Head(c.down) = c.down[1]
      /\ Len(c.down) \in Nat \ {0} /\ DOMAIN u = 1 .. Len(c.down) - 1 /\ Len(u) = Len(c.down) - 1
      /\ \A p \in 1 .. Len(c.down) - 1 : u[p] = c.down[p + 1]
  BY <1>1, <1>2, TailFacts
<1>4. d.up = c.up /\ d.at = c.at /\ d.row = c.row /\ d.msg = c.msg /\ d.down = u
  BY <1>2 DEF TakenFrom, Connections
<1>5. 1 \in 1 .. Len(c.down) /\ \A p \in 1 .. Len(u) : p + 1 \in 1 .. Len(c.down) /\ u[p] = c.down[p + 1] /\ p + 1 # 1
  BY <1>3
<1>6. NoneOf(c.down, n) => NoneOf(u, n)
  BY <1>5 DEF NoneOf
<1>7. ASSUME OneOf(c.down, n) PROVE OneOf(u, n)
  <2>1. ASSUME NEW p \in 1 .. Len(u), NEW r \in 1 .. Len(u), u[p].of = n, u[r].of = n PROVE p = r
    <3>1. p + 1 = r + 1
      BY <1>5, <1>7, <2>1 DEF OneOf
    <3>2. QED
      BY <1>3, <3>1
  <2>2. QED
    BY <2>1 DEF OneOf
<1>8. OneOf(c.down, n) /\ c.down[1].of = n => NoneOf(u, n) /\ ~NoneOf(c.down, n)
  BY <1>5 DEF OneOf, NoneOf
<1>9. Behind(d, c)
  BY <1>4, <1>5 DEF Behind
<1>10. QED
  BY <1>3, <1>4, <1>5, <1>6, <1>7, <1>8, <1>9

LEMMA OwnSync ==
  ASSUME ServerInv, ClientInv, SyncInv, mode # "live", client.sess # 0
  PROVE  /\ client.sess \in Conns /\ conn[client.sess] \in Connections /\ SyncPhase(client, conn[client.sess])
         /\ \A d : conn' = [conn EXCEPT ![client.sess] = d] => conn'[client.sess] = d
<1>1. client.sess \in Conns /\ conn[client.sess] \in Connections
  BY OwnFacts
<1>2. conn \in [Conns -> Connections]
  BY DEF ServerInv, DataOK
<1>3. QED
  BY <1>1, <1>2 DEF SyncInv

LEMMA StartSync == ASSUME ServerInv, ClientInv, SyncInv, mode # "live", Start PROVE SyncInv'
<1>1. /\ client \in Clients /\ client.n \in Nat /\ DataOK /\ UNCHANGED scenario
  BY ClientTypes DEF Start, ServerRests
<1>2. PICK n : n = client.n + 1
  OBVIOUS
<1>3. n \in Nat /\ n > client.n /\ n \in Episodes
  BY <1>2, StartsNext
<1>4. PICK s, c : StartsOn(s, c, n)
  BY <1>2, StartIsPosted
<1>5. PICK cl : cl = client'
  OBVIOUS
<1>6. cl.at = "starting" /\ cl.n = n /\ cl.sess = s
  BY <1>1, <1>4, <1>5 DEF StartsOn, Clients
<1>7. s \in Conns /\ c.down \in Seq(Messages) /\ NoneOf(c.down, n) /\ c.row # n
  <2>1. CASE c = conn[s]
    <3>1. s \in Conns
      BY <1>4 DEF StartsOn, FitToStart
    <3>2. c \in Connections /\ ConnFits(client, s, c)
      BY <2>1, <3>1, EachConn
    <3>3. \A m \in ToSet(c.down) : m.of <= client.n
      BY <3>2 DEF ConnFits, Wire, Numbered
    <3>4. \A p \in 1 .. Len(c.down) : c.down[p] \in ToSet(c.down) /\ c.down[p] \in Messages
      <4>1. c.down \in Seq(Messages)
        BY <3>2 DEF Connections
      <4>2. DOMAIN c.down = 1 .. Len(c.down)
        BY <4>1, LenProperties
      <4>3. QED
        BY <4>1, <4>2, ElementOfSeq DEF ToSet
    <3>5. \A p \in 1 .. Len(c.down) : c.down[p].of # n
      <4>1. ASSUME NEW p \in 1 .. Len(c.down) PROVE c.down[p].of # n
        <5>1. c.down[p].of \in Nat /\ c.down[p].of <= client.n
          BY <3>3, <3>4 DEF Messages
        <5>2. QED
          BY <1>1, <1>3, <5>1
      <4>2. QED
        BY <4>1
    <3>6. c.row # n
      <4>1. CASE c.row = 0
        BY <1>1, <1>3, <4>1
      <4>2. CASE c.row # 0
        <5>1. PICK i \in Episodes : i = c.row /\ ep[i].stage # "none"
          BY <2>1, <3>1, <4>2, RowStarted
        <5>2. i \in Nat /\ i <= client.n
          BY <5>1, StartedNumbers
        <5>3. QED
          BY <1>1, <1>3, <5>1, <5>2
      <4>3. QED
        BY <4>1, <4>2
    <3>7. QED
      BY <3>1, <3>2, <3>5, <3>6 DEF NoneOf, Connections
  <2>2. CASE c = [NewConn EXCEPT !.open = TRUE, !.at = "idle"]
    <3>1. s \in Conns
      BY <1>4 DEF StartsOn, FitToStart
    <3>2. c.down = <<>> /\ c.row = 0
      BY <2>2 DEF NewConn
    <3>3. Len(<<>>) = 0 /\ <<>> \in Seq(Messages)
      OBVIOUS
    <3>4. QED
      BY <1>1, <1>3, <3>1, <3>2, <3>3 DEF NoneOf
  <2>3. QED
    BY <1>4, <2>1, <2>2 DEF StartsOn, FitToStart
<1>8. PICK d : d = Posted(c, "start", NextSeq(n, 0), n)
  OBVIOUS
<1>9. c \in Connections
  <2>1. NoMsg \in Messages /\ <<>> \in Seq(Messages)
    BY DEF NoMsg, Messages
  <2>2. c = [NewConn EXCEPT !.open = TRUE, !.at = "idle"] =>
          c = [open |-> TRUE, up |-> <<>>, down |-> <<>>, at |-> "idle", row |-> 0, msg |-> NoMsg, answer |-> "none"]
    BY DEF NewConn
  <2>3. ASSUME c = [NewConn EXCEPT !.open = TRUE, !.at = "idle"] PROVE c \in Connections
    BY <2>1, <2>2, <2>3 DEF Connections
  <2>4. QED
    BY <1>4, <2>3, EachConn DEF StartsOn, FitToStart
<1>10. d.down = c.down /\ d.row = c.row
  BY <1>8, <1>9 DEF Posted, Connections
<1>11. conn'[s] = d
  BY <1>4, <1>7, <1>8 DEF StartsOn, StartPosted
<1>12. SyncPhase(cl, d) /\ AppliedFits(cl)
  <2>1. NoneOf(d.down, n) /\ OneOf(d.down, n)
    BY <1>7, <1>10 DEF NoneOf, OneOf
  <2>2. QED
    BY <1>6, <1>7, <1>10, <2>1 DEF SyncPhase, AppliedFits
<1>13. QED
  BY <1>1, <1>5, <1>6, <1>11, <1>12, NextSync

LEMMA StartReadSync ==
  ASSUME ServerInv, ClientInv, SyncInv, mode # "live", DropsEarly \/ StartReady \/ StartRefused
  PROVE  SyncInv'
<1>1. UNCHANGED scenario /\ Take /\ Inbox # <<>> /\ client \in Clients /\ PhaseFits(client)
  BY ClientTypes DEF DropsEarly, StartReady, StartRefused, Receives, ServerRests, ClientInv
<1>2. PICK c \in Connections : c = conn[client.sess] /\ client.sess # 0 /\ c.down = Inbox /\ c.down # <<>>
  BY <1>1, InboxFits, OwnSync
<1>3. PICK d : d = TakenFrom(c)
  OBVIOUS
<1>4. SyncPhase(client, c) /\ conn'[client.sess] = d
  BY <1>1, <1>2, <1>3, OwnSync DEF Take
<1>5. PICK n : n = client.n
  OBVIOUS
<1>6a. Behind(d, c)
  BY <1>2, <1>3, TakenSync
<1>6. /\ d.up = c.up /\ d.at = c.at /\ d.row = c.row /\ d.msg = c.msg
      /\ NoneOf(c.down, n) => NoneOf(d.down, n)
      /\ OneOf(c.down, n) => OneOf(d.down, n)
      /\ OneOf(c.down, n) /\ Head(c.down).of = n => NoneOf(d.down, n) /\ ~NoneOf(c.down, n)
  BY <1>2, <1>3, TakenSync
<1>7. PICK cl : cl = client'
  OBVIOUS
<1>8. CASE DropsEarly
  <2>1. cl = client
    BY <1>7, <1>8 DEF DropsEarly
  <2>2. SyncPhase(client, d)
    <3>1. client.at = "asking" => \A p \in 1 .. Len(d.down) : d.down[p].of = client.n =>
            d.down[p].seq = NextSeq(client.n, client.steps + 1) /\ d.down[p].type \in {"action", "error"}
      BY <1>4, <1>6a DEF SyncPhase, Behind
    <3>2. QED
      BY <1>4, <1>5, <1>6, <3>1 DEF SyncPhase
  <2>3. client.at # "acting" /\ AppliedFits(client)
    BY DEF SyncInv
  <2>4. QED
    BY <1>1, <1>4, <1>7, <2>1, <2>2, <2>3, NextSync
<1>9. CASE StartReady
  <2>1. PICK m \in Messages : m = Head(Inbox) /\ Numbered(client, m) /\ m.seq = client.epseq /\ client.at = "starting"
    BY <1>1, <1>9, InboxFits DEF StartReady, Receives
  <2>2. m.of = n
    <3>1. ~Early(m)
      BY <2>1 DEF Early, Messages
    <3>2. QED
      BY <1>5, <2>1, <3>1, NotEarlyIsOwn
  <2>3. NoneOf(d.down, n) /\ c.up = <<>> /\ c.at \in Rests
    <3>1. OneOf(c.down, n)
      BY <1>4, <1>5, <2>1 DEF SyncPhase
    <3>2. NoneOf(d.down, n) /\ ~NoneOf(c.down, n)
      BY <1>2, <1>6, <2>1, <2>2, <3>1
    <3>3. QED
      BY <1>4, <1>5, <2>1, <3>2 DEF SyncPhase
  <2>4. cl.at = "sending" /\ cl.n = client.n /\ cl.sess = client.sess /\ cl.action = client.action
    BY <1>1, <1>7, <1>9 DEF StartReady, Clients
  <2>5. AppliedFits(cl)
    <3>1. client.action = NoMsg
      BY <1>1, <2>1 DEF PhaseFits
    <3>2. QED
      BY <2>4, <3>1 DEF AppliedFits, NoMsg
  <2>6. SyncPhase(cl, d)
    BY <1>5, <1>6, <2>3, <2>4 DEF SyncPhase, Rests
  <2>7. QED
    BY <1>1, <1>4, <1>7, <2>4, <2>5, <2>6, NextSync
<1>10. CASE StartRefused
  <2>1. cl.at = "idle"
    BY <1>1, <1>7, <1>10 DEF StartRefused, Clients
  <2>2. QED
    BY <1>1, <1>7, <2>1, IdleSync
<1>11. QED
  BY <1>8, <1>9, <1>10

LEMMA SendsSync == ASSUME ServerInv, ClientInv, SyncInv, mode # "live", Sends PROVE SyncInv'
<1>1. /\ client \in Clients /\ DataOK /\ client.n \in Nat /\ client.steps \in Nat /\ client.sess # 0
      /\ client.at = "sending" /\ UNCHANGED scenario
  BY ClientTypes DEF Sends, Connected, ServerRests
<1>2. PICK c \in Connections : c = conn[client.sess] /\ SyncPhase(client, c)
  BY <1>1, OwnSync
<1>3. c.up = <<>> /\ c.at # "waiting" /\ NoneOf(c.down, client.n)
  BY <1>1, <1>2 DEF SyncPhase
<1>4. PICK k \in Nat : k = NextSeq(client.n, client.steps + 1)
  <2>1. client.steps + 1 \in Nat
    BY <1>1
  <2>2. QED
    BY <1>1, <2>1, SeqIsNumber
<1>5. PICK m : m = [type |-> "obs", seq |-> k, of |-> client.n]
  OBVIOUS
<1>6. m \in Messages /\ m.seq = k
  BY <1>1, <1>5 DEF Messages
<1>7. PICK d : d = [c EXCEPT !.up = Append(@, m)]
  OBVIOUS
<1>8. conn'[client.sess] = d
  <2>1. conn' = [conn EXCEPT ![client.sess] = d]
    BY <1>2, <1>4, <1>5, <1>7 DEF Sends, Posted
  <2>2. QED
    BY <1>1, <2>1, OwnSync
<1>9. Len(d.up) = 1 /\ d.up[1] = m /\ d.down = c.down /\ d.at = c.at
  <2>1. Longer(c, m, d)
    BY <1>7 DEF Longer
  <2>2. m \in Messages
    BY <1>6
  <2>3. /\ d.down = c.down /\ d.row = c.row /\ d.at = c.at /\ Len(c.up) \in Nat /\ Len(d.up) = Len(c.up) + 1
        /\ d.up[Len(c.up) + 1] = m
    BY <2>1, <2>2, AppendUp
  <2>4. Len(c.up) = 0
    BY <1>3
  <2>5. QED
    BY <2>3, <2>4
<1>10. PICK cl : cl = client'
  OBVIOUS
<1>11. cl.at = "asking" /\ cl.n = client.n /\ cl.sess = client.sess /\ cl.steps = client.steps
  BY <1>1, <1>10 DEF Sends, Clients
<1>12. SyncPhase(cl, d)
  <2>1. \A p \in 1 .. Len(d.up) : p = 1
    BY <1>9
  <2>2. NoneOf(d.down, cl.n) /\ OneOf(d.down, cl.n)
    BY <1>3, <1>9, <1>11 DEF NoneOf, OneOf
  <2>3. \A p \in 1 .. Len(d.down) : d.down[p].of # cl.n
    BY <2>2 DEF NoneOf
  <2>4. Len(d.up) <= 1 /\ \A p \in 1 .. Len(d.up) : d.up[p].seq = NextSeq(cl.n, cl.steps + 1)
    BY <1>4, <1>6, <1>9, <1>11, <2>1
  <2>5. d.at # "waiting"
    BY <1>3, <1>9
  <2>6. QED
    BY <1>11, <2>2, <2>3, <2>4, <2>5 DEF SyncPhase
<1>13. AppliedFits(cl)
  BY <1>11 DEF AppliedFits
<1>14. QED
  BY <1>1, <1>8, <1>10, <1>11, <1>12, <1>13, NextSync

\* The action applied is the answer to the observation just sent.
LEMMA ActsSync == ASSUME ServerInv, ClientInv, SyncInv, mode # "live", Acts PROVE SyncInv'
<1>1. UNCHANGED scenario /\ Inbox # <<>> /\ client.at = "asking" /\ client \in Clients /\ client.steps \in Nat
  BY ClientTypes DEF Acts, Receives, ServerRests
<1>2. PICK c \in Connections : c = conn[client.sess] /\ client.sess # 0 /\ c.down = Inbox /\ c.down # <<>>
  BY <1>1, InboxFits, OwnSync
<1>3. PICK d : d = TakenFrom(c)
  OBVIOUS
<1>4. SyncPhase(client, c)
  BY <1>2, OwnSync
<1>5. PICK m \in Messages : m = Head(Inbox) /\ Numbered(client, m)
  BY <1>1, InboxFits
<1>6. m.of = client.n /\ m.type # "error"
  BY <1>5, NotEarlyIsOwn DEF Acts
<1>7. PICK n : n = client.n
  OBVIOUS
<1>8. /\ d.up = c.up /\ d.at = c.at /\ Head(c.down) = c.down[1] /\ 1 \in 1 .. Len(c.down)
      /\ OneOf(c.down, n) /\ Head(c.down).of = n => NoneOf(d.down, n) /\ ~NoneOf(c.down, n)
  BY <1>2, <1>3, TakenSync
<1>9. m = c.down[1]
  BY <1>2, <1>5, <1>8
<1>10. NoneOf(d.down, n) /\ ~NoneOf(c.down, n)
  BY <1>1, <1>4, <1>6, <1>7, <1>8, <1>9 DEF SyncPhase
<1>11. c.up = <<>> /\ c.at # "waiting" /\ m.seq = NextSeq(n, client.steps + 1) /\ m.type = "action"
  BY <1>1, <1>4, <1>6, <1>7, <1>8, <1>9, <1>10 DEF SyncPhase
<1>12. PICK new : new = [client EXCEPT !.action = m]
  OBVIOUS
<1>13. /\ new \in Clients /\ new.n = client.n /\ new.sess = client.sess /\ new.steps = client.steps /\ new.action = m
  BY <1>1, <1>12 DEF Clients
<1>14. AfterStep(d, new)
  BY <1>2, <1>3, <1>5, <1>12 DEF Acts
<1>15. PICK cl : cl = client'
  OBVIOUS
<1>16. CASE conn' = [conn EXCEPT ![client.sess] = d] /\ client' = [new EXCEPT !.at = "sending", !.steps = @ + 1]
  <2>1. cl.at = "sending" /\ cl.n = n /\ cl.sess = client.sess /\ cl.steps = client.steps + 1 /\ cl.action = m
    BY <1>7, <1>13, <1>15, <1>16 DEF Clients
  <2>2. SyncPhase(cl, d)
    BY <1>8, <1>10, <1>11, <2>1 DEF SyncPhase
  <2>3. AppliedFits(cl)
    BY <1>11, <2>1 DEF AppliedFits
  <2>4. conn'[client.sess] = d
    BY <1>2, <1>16, OwnSync
  <2>5. QED
    BY <1>1, <1>15, <2>1, <2>2, <2>3, <2>4, NextSync
<1>17. CASE client' = [new EXCEPT !.at = "idle", !.active = FALSE, !.action = NoMsg]
  <2>1. cl.at = "idle"
    BY <1>13, <1>15, <1>17 DEF Clients
  <2>2. QED
    BY <1>1, <1>15, <2>1, IdleSync
<1>18. QED
  BY <1>14, <1>16, <1>17 DEF AfterStep

LEMMA EndsSync ==
  ASSUME ServerInv, TimesOut \/ LosesConnection \/ ActFails \/ StepFails \/ Stops
  PROVE  SyncInv'
<1>1. UNCHANGED scenario /\ client \in Clients
  BY ClientTypes DEF TimesOut, LosesConnection, ActFails, StepFails, Stops, ServerRests
<1>2. PICK cl : cl = client'
  OBVIOUS
<1>3. cl.at \in {"idle", "done"}
  <2>1. CASE TimesOut \/ LosesConnection
    BY <1>1, <1>2, <2>1 DEF TimesOut, EndsAndCloses, LosesConnection, Clients
  <2>2. CASE ActFails \/ StepFails
    BY <1>1, <1>2, <2>2 DEF ActFails, StepFails, EndsWith, Clients
  <2>3. CASE Stops
    BY <1>1, <1>2, <2>3 DEF Stops, Clients
  <2>4. QED
    BY <2>1, <2>2, <2>3
<1>4. QED
  BY <1>1, <1>2, <1>3, IdleSync

LEMMA CutSync == ASSUME ServerInv, ClientInv, SyncInv, mode # "live", Cut PROVE SyncInv'
<1>1. UNCHANGED <<scenario, client>> /\ client.sess # 0
  BY DEF Cut, Connected, ServerRests
<1>2. PICK c \in Connections : c = conn[client.sess] /\ SyncPhase(client, c)
  BY <1>1, OwnSync
<1>3. PICK m \in 0 .. Len(c.up) :
        conn' = [conn EXCEPT ![client.sess].open = FALSE, ![client.sess].up = SubSeq(@, 1, m), ![client.sess].down = <<>>]
  BY <1>2 DEF Cut
<1>4. PICK u : u = SubSeq(c.up, 1, m)
  OBVIOUS
<1>5. c.up \in Seq(Messages) /\ Len(c.up) \in Nat
  BY LenProperties DEF Connections
<1>6. /\ u \in Seq(Messages) /\ Len(u) = m /\ Len(u) <= Len(c.up)
      /\ \A p \in 1 .. Len(u) : p \in 1 .. Len(c.up) /\ u[p] = c.up[p]
  <2>1. m \in Nat /\ m <= Len(c.up) /\ \A p \in 1 .. m : p \in 1 .. Len(c.up)
    BY <1>3, <1>5
  <2>2. \A p \in 1 .. Len(c.up) : c.up[p] \in Messages
    BY <1>5, ElementOfSeq
  <2>3. u \in Seq(Messages) /\ Len(u) = m /\ \A p \in 1 .. m : u[p] = c.up[p]
    BY <1>4, <1>5, <2>1, <2>2
  <2>4. QED
    BY <2>1, <2>3
<1>7. PICK d : d = [c EXCEPT !.open = FALSE, !.up = u, !.down = <<>>]
  OBVIOUS
<1>8. d.at = c.at /\ d.row = c.row /\ d.msg = c.msg /\ d.down = <<>> /\ d.up = u
  BY <1>7 DEF Connections
<1>9. conn'[client.sess] = d
  <2>1. conn \in [Conns -> Connections] /\ client.sess \in Conns
    BY <1>1, ClientTypes, OwnConnection DEF DataOK
  <2>2. QED
    BY <1>2, <1>3, <1>4, <1>7, <2>1 DEF Connections
<1>10. c.up = <<>> => d.up = <<>>
  <2>1. ASSUME c.up = <<>> PROVE d.up = <<>>
    <3>1. Len(c.up) = 0
      BY <2>1
    <3>2. Len(u) = 0
      BY <1>3, <1>5, <1>6, <3>1
    <3>3. QED
      BY <1>6, <1>8, <3>2, EmptySeq
  <2>2. QED
    BY <2>1
<1>11. /\ Len(c.up) <= 1 => Len(d.up) <= 1
       /\ \A k : (\A p \in 1 .. Len(c.up) : c.up[p].seq = k) => \A p \in 1 .. Len(d.up) : d.up[p].seq = k
  <2>1. Len(c.up) <= 1 => Len(d.up) <= 1
    <3>1. Len(u) \in Nat
      BY <1>3, <1>5, <1>6
    <3>2. QED
      BY <1>5, <1>6, <1>8, <3>1
  <2>2. QED
    BY <1>6, <1>8, <2>1
<1>12. /\ Len(d.down) = 0 /\ OneOf(d.down, client.n) /\ NoneOf(d.down, client.n)
       /\ \A p \in 1 .. Len(d.down) : FALSE
  <2>1. Len(d.down) = 0
    BY <1>8
  <2>2. QED
    BY <2>1 DEF OneOf, NoneOf
<1>13. SyncPhase(client, d)
  <2>1. CASE client.at = "starting"
    BY <1>2, <1>8, <1>10, <1>12, <2>1 DEF SyncPhase
  <2>2. CASE client.at = "sending"
    BY <1>2, <1>8, <1>10, <1>12, <2>2 DEF SyncPhase
  <2>3. CASE client.at = "asking"
    BY <1>2, <1>8, <1>10, <1>11, <1>12, <2>3 DEF SyncPhase
  <2>4. CASE client.at \notin {"starting", "sending", "asking"}
    BY <2>4 DEF SyncPhase
  <2>5. QED
    BY <2>1, <2>2, <2>3, <2>4
<1>14. PICK cl : cl = client' /\ cl = client
  BY <1>1
<1>15. client.at # "acting" /\ AppliedFits(client)
  BY DEF SyncInv
<1>16. QED
  BY <1>1, <1>9, <1>13, <1>14, <1>15, NextSync

LEMMA ServerSync == ASSUME ServerInv, ClientInv, SyncInv, mode # "live", Server, UNCHANGED client PROVE SyncInv'
<1>1. ConnsMove /\ UNCHANGED scenario
  BY ServerMoves, ServerFits
<1>2. PICK cl : cl = client' /\ cl = client
  OBVIOUS
<1>3. client.at # "acting" /\ AppliedFits(client)
  BY DEF SyncInv
<1>4. ASSUME client.sess # 0 PROVE SyncPhase(client, conn'[client.sess])
  <2>1. PICK c : c = conn[client.sess]
    OBVIOUS
  <2>2. PICK d : d = conn'[client.sess]
    OBVIOUS
  <2>3. client.sess \in Conns /\ SyncPhase(client, c) /\ ConnFits(client, client.sess, c)
    BY <1>4, <2>1, OwnSync, OwnFacts
  <2>4. Move(c, d)
    BY <1>1, <2>1, <2>2, <2>3 DEF ConnsMove
  <2>5. PhaseFits(client) /\ client.n \in Nat
    BY ClientTypes DEF ClientInv
  <2>6. QED
    BY <2>2, <2>3, <2>4, <2>5, MoveFits
<1>5. QED
  BY <1>1, <1>2, <1>3, <1>4, NextSync

LEMMA SyncInvStep == ASSUME ServerInv, ClientInv, SyncInv, [Next]_vars PROVE SyncInv'
<1>1. UNCHANGED scenario
  <2>1. Client => UNCHANGED scenario
    BY DEF Client, Start, DropsEarly, StartReady, StartRefused, TimesOut, LosesConnection, Sends, Acts, ActFails,
           Ticks, Listens, StepFails, Stops, ServerRests
  <2>2. QED
    BY <2>1, ServerFits DEF Next, Cut, ServerRests, vars, daemonVars
<1>2. CASE mode = "live"
  BY <1>1, <1>2 DEF SyncInv, mode
<1>3. CASE mode # "live"
  <2>1. CASE Client
    <3>1. ~Ticks /\ ~Listens
      BY <1>3 DEF SyncInv, Ticks, Listens
    <3>2. QED
      BY <1>3, <2>1, <3>1, StartSync, StartReadSync, SendsSync, ActsSync, EndsSync DEF Client
  <2>2. CASE Cut
    BY <1>3, <2>2, CutSync
  <2>3. CASE Server /\ UNCHANGED client
    BY <1>3, <2>3, ServerSync
  <2>4. CASE UNCHANGED vars
    <3>1. UNCHANGED <<scenario, conn, client>>
      BY <2>4 DEF vars, daemonVars
    <3>2. PICK cl : cl = client' /\ cl = client
      BY <3>1
    <3>3. /\ client.at # "acting" /\ AppliedFits(client)
          /\ client.sess # 0 => SyncPhase(client, conn'[client.sess])
      BY <1>3, <3>1 DEF SyncInv
    <3>4. QED
      BY <3>1, <3>2, <3>3, NextSync
  <2>5. QED
    BY <2>1, <2>2, <2>3, <2>4 DEF Next
<1>4. QED
  BY <1>2, <1>3

LEMMA SyncInvInit == Init => SyncInv
BY DEF Init, ClientInit, SyncInv, AppliedFits

\* Of a sync client's episode one message at most is under way: the request, the
\* observation that waits for its answer or that answer (Connection.act, _observe).
THEOREM OneAnswerAtATime == Spec => []SyncInv
<1>1. Init => ServerInv /\ ClientInv /\ SyncInv
  BY ServerInvInit, ClientInvInit, SyncInvInit
<1>2. ServerInv /\ ClientInv /\ SyncInv /\ [Next]_vars => (ServerInv /\ ClientInv /\ SyncInv)'
  BY ServerInvStep, ClientInvStep, SyncInvStep
<1>3. QED
  BY <1>1, <1>2, PTL DEF Spec

LEMMA OwnSays == ASSUME ClientInv, SyncInv PROVE NothingOfAnotherEpisode
<1>1. client.blame \in {0, client.n}
  BY DEF ClientInv, PhaseFits
<1>2. client.at \in {"sending", "asking", "acting"} =>
        \A m \in {client.latest, client.action} : m.type # "none" => m.of = client.n
  BY DEF ClientInv, PhaseFits, Stepping, OfOrNone
<1>3. client.at = "sending" /\ mode # "live" /\ client.action.type # "none" =>
        client.action.type = "action" /\ client.action.seq = NextSeq(client.n, client.steps)
  BY DEF SyncInv, AppliedFits
<1>4. QED
  BY <1>1, <1>2, <1>3 DEF NothingOfAnotherEpisode

\* Nothing late reaches the next episode: the action the client applies answers its
\* own observation, a sync one that was just sent, or was published for its own
\* episode, and only that episode's EPISODE_ERROR ends it.
THEOREM NothingLateReachesTheNext == Spec => []NothingOfAnotherEpisode
BY ClientInvariant, OneAnswerAtATime, OwnSays, PTL

-----------------------------------------------------------------------------
(* The mailbox: it never outgrows its bound.                               *)

BoxBound == IF backlog = 0 THEN 1 ELSE backlog

Live(e)   == e.stage = "run" /\ ~e.closing
Unseen(e) == e.box = <<>> /\ e.held = {} /\ e.moving = <<>>

\* An observation that the episode has been sent and its root has not received.
Unadmitted(e) == \E p \in 1 .. Len(e.moving) : ~e.moving[p].admitted
Pending(e)    == e.box # <<>> \/ Unadmitted(e)

\* On a sync clock there is one of those at most, and it came last.
OneAtMost(e) ==
  /\ Len(e.box) <= 1 /\ (e.box # <<>> => ~Unadmitted(e))
  /\ \A p \in 1 .. Len(e.moving) - 1 : e.moving[p].admitted

BoxFits(e) ==
  /\ e.stage \in OffStage => Unseen(e)
  /\ ~e.closing => IF mode = "clocked" THEN OneAtMost(e) ELSE e.moving = <<>> /\ Len(e.box) <= BoxBound

Obs(c)    == {p \in 1 .. Len(c.up) : c.up[p].type = "obs"}
OneObs(c) == \A p, r \in Obs(c) : p = r

\* While it is pending its client waits for the answer, which the episode
\* cannot give yet, unless the client has gone.
StillWaits(e, c) == ~c.open \/ (c.at = "waiting" /\ c.answer = "none" /\ c.msg.seq \notin e.held)
PairFits(e, c) ==
  /\ Pending(e) => Obs(c) = {} /\ StillWaits(e, c)
  /\ \A p \in Obs(c) : c.up[p].seq \notin e.held

\* The next observation of the client has a number that no episode has seen.
Busy  == {"starting", "sending", "asking"}
Newest(cl) == NextSeq(cl.n, IF cl.at = "asking" THEN cl.steps + 1 ELSE IF cl.at = "sending" THEN cl.steps ELSE 0)

SeenTill(e, l)  == ~e.closing => \A k \in Seen(e) : k <= l
SentTill(c, n, l) == \A p \in Obs(c) : c.up[p].of = n => c.up[p].seq <= l

BoxInv ==
  /\ \A i \in Episodes : BoxFits(ep[i])
  /\ mode = "clocked" =>
       /\ \A i \in Episodes : Live(ep[i]) => PairFits(ep[i], conn[ep[i].conn])
       /\ \A s \in Conns : OneObs(conn[s])
       /\ client.at \in Busy =>
            SeenTill(ep[client.n], Newest(client)) /\ \A s \in Conns : SentTill(conn[s], client.n, Newest(client))

-----------------------------------------------------------------------------
(* A step that asks nothing new of any episode.                            *)

\* r is what is left of the deliveries q.
Shorter(q, r) ==
  /\ q = <<>> => r = <<>>
  /\ \E o \in {0, 1} :
       /\ Len(r) = Len(q) - o
       /\ \A p \in 1 .. Len(r) : p + o \in 1 .. Len(q) /\ r[p].admitted = q[p + o].admitted /\ r[p].seq = q[p + o].seq

SameAsked(e, d) ==
  /\ ~e.closing /\ d.box = e.box /\ d.held \subseteq e.held /\ Shorter(e.moving, d.moving) /\ d.conn = e.conn
  /\ d.stage = "run" => e.stage = "run"
  /\ d.stage \in OffStage => e.stage \in OffStage

KeepsAsked(e, d) == d.closing \/ Unseen(d) \/ SameAsked(e, d)

\* Observations on the way to d were on the way to c.
ObsLess(c, d) == \E o \in Nat : \A p \in Obs(d) : p + o \in Obs(c) /\ d.up[p] = c.up[p + o]

WaitKept(c, d) ==
  /\ d.open => c.open
  /\ c.open /\ c.at = "waiting" /\ c.answer = "none" => d.at = "waiting" /\ d.answer = "none" /\ d.msg = c.msg

LEMMA ShorterFacts ==
  ASSUME NEW e \in EpisodeRows, NEW d \in EpisodeRows, Shorter(e.moving, d.moving)
  PROVE  /\ Unadmitted(d) => Unadmitted(e)
         /\ (\A p \in 1 .. Len(e.moving) - 1 : e.moving[p].admitted) => \A p \in 1 .. Len(d.moving) - 1 : d.moving[p].admitted
         /\ {x.seq : x \in ToSet(d.moving)} \subseteq {x.seq : x \in ToSet(e.moving)}
<1>1. PICK q \in Seq(Deliveries), r \in Seq(Deliveries) : q = e.moving /\ r = d.moving
  BY DEF EpisodeRows
<1>2. PICK o \in {0, 1} :
        /\ Len(r) = Len(q) - o
        /\ \A p \in 1 .. Len(r) : p + o \in 1 .. Len(q) /\ r[p].admitted = q[p + o].admitted /\ r[p].seq = q[p + o].seq
  BY <1>1 DEF Shorter
<1>3. Len(q) \in Nat /\ Len(r) \in Nat /\ DOMAIN q = 1 .. Len(q) /\ DOMAIN r = 1 .. Len(r)
  BY <1>1, LenProperties
<1>4. Unadmitted(d) => Unadmitted(e)
  BY <1>1, <1>2 DEF Unadmitted
<1>5. ASSUME \A p \in 1 .. Len(q) - 1 : q[p].admitted, NEW p \in 1 .. Len(r) - 1 PROVE r[p].admitted
  <2>1. p \in 1 .. Len(r) /\ p + o \in 1 .. Len(q) - 1
    BY <1>2, <1>3
  <2>2. QED
    BY <1>2, <1>5, <2>1
<1>6. {x.seq : x \in ToSet(r)} \subseteq {x.seq : x \in ToSet(q)}
  <2>1. ToSet(r) = {r[p] : p \in 1 .. Len(r)} /\ \A p \in 1 .. Len(q) : q[p] \in ToSet(q)
    BY <1>3 DEF ToSet
  <2>2. ASSUME NEW p \in 1 .. Len(r) PROVE \E x \in ToSet(q) : r[p].seq = x.seq
    BY <1>2, <2>1
  <2>3. QED
    BY <2>1, <2>2
<1>7. QED
  BY <1>1, <1>4, <1>5, <1>6

LEMMA BoundIsNumber == ASSUME DataOK PROVE BoxBound \in Nat \ {0}
BY DaemonsAssumption DEF DataOK, BoxBound, backlog

LEMMA UnseenFacts ==
  ASSUME DataOK, NEW e, Unseen(e)
  PROVE  ~Pending(e) /\ Seen(e) = {} /\ BoxFits(e)
<1>1. ToSet(<<>>) = {} /\ Len(<<>>) = 0
  BY DEF ToSet
<1>2. ~Pending(e) /\ Seen(e) = {}
  BY <1>1 DEF Unseen, Pending, Unadmitted, Seen
<1>3. BoxBound \in Nat
  BY BoundIsNumber
<1>4. QED
  BY <1>1, <1>2, <1>3 DEF BoxFits, Unseen, OneAtMost, Unadmitted

LEMMA KeepsFit ==
  ASSUME DataOK, NEW e \in EpisodeRows, NEW d \in EpisodeRows, EpisodeFits(d), BoxFits(e), KeepsAsked(e, d), NEW l
  PROVE  BoxFits(d) /\ (SeenTill(e, l) => SeenTill(d, l))
<1>1. CASE d.closing
  BY <1>1 DEF BoxFits, EpisodeFits, SeenTill
<1>2. CASE Unseen(d)
  BY <1>2, UnseenFacts DEF SeenTill
<1>3. CASE SameAsked(e, d)
  <2>1. /\ Unadmitted(d) => Unadmitted(e)
        /\ (\A p \in 1 .. Len(e.moving) - 1 : e.moving[p].admitted) => \A p \in 1 .. Len(d.moving) - 1 : d.moving[p].admitted
        /\ {x.seq : x \in ToSet(d.moving)} \subseteq {x.seq : x \in ToSet(e.moving)}
    BY <1>3, ShorterFacts DEF SameAsked
  <2>2. SeenTill(e, l) => SeenTill(d, l)
    BY <1>3, <2>1 DEF SameAsked, SeenTill, Seen
  <2>3. d.stage \in OffStage => Unseen(d)
    BY <1>3 DEF SameAsked, BoxFits, Unseen, Shorter
  <2>4. CASE mode = "clocked"
    BY <1>3, <2>1, <2>2, <2>3, <2>4 DEF SameAsked, BoxFits, OneAtMost
  <2>5. CASE mode # "clocked"
    BY <1>3, <2>1, <2>2, <2>3, <2>5 DEF SameAsked, BoxFits, Shorter
  <2>6. QED
    BY <2>4, <2>5
<1>4. QED
  BY <1>1, <1>2, <1>3 DEF KeepsAsked

LEMMA ObsFacts ==
  ASSUME NEW c, NEW d, ObsLess(c, d)
  PROVE  /\ OneObs(c) => OneObs(d)
         /\ Obs(c) = {} => Obs(d) = {}
         /\ \A n, l : SentTill(c, n, l) => SentTill(d, n, l)
         /\ \A h : (\A p \in Obs(c) : c.up[p].seq \notin h) => \A p \in Obs(d) : d.up[p].seq \notin h
<1>1. PICK o \in Nat : \A p \in Obs(d) : p + o \in Obs(c) /\ d.up[p] = c.up[p + o]
  BY DEF ObsLess
<1>2. OneObs(c) => OneObs(d)
  <2>1. ASSUME OneObs(c), NEW p \in Obs(d), NEW r \in Obs(d) PROVE p = r
    <3>1. p + o = r + o
      BY <1>1, <2>1 DEF OneObs
    <3>2. p \in Int /\ r \in Int
      BY DEF Obs
    <3>3. QED
      BY <3>1, <3>2
  <2>2. QED
    BY <2>1 DEF OneObs
<1>3. Obs(c) = {} => Obs(d) = {}
  BY <1>1
<1>4. QED
  BY <1>1, <1>2, <1>3 DEF SentTill

\* What a pending observation waits for is still to come.
LEMMA KeepsPair ==
  ASSUME NEW e \in EpisodeRows, NEW d \in EpisodeRows, SameAsked(e, d), NEW c, NEW f, ObsLess(c, f),
         Pending(d) => WaitKept(c, f), PairFits(e, c)
  PROVE  PairFits(d, f)
<1>1. Pending(d) => Pending(e)
  BY ShorterFacts DEF SameAsked, Pending
<1>2. Obs(c) = {} => Obs(f) = {}
  BY ObsFacts
<1>3. \A p \in Obs(f) : f.up[p].seq \notin d.held
  <2>1. \A p \in Obs(c) : c.up[p].seq \notin d.held
    BY DEF PairFits, SameAsked
  <2>2. QED
    BY <2>1, ObsFacts
<1>4. Pending(d) /\ StillWaits(e, c) => StillWaits(d, f)
  BY DEF StillWaits, WaitKept, SameAsked
<1>5. QED
  BY <1>1, <1>2, <1>3, <1>4 DEF PairFits

LEMMA UnseenPair == ASSUME NEW e, Unseen(e), NEW c PROVE PairFits(e, c)
<1>1. Len(<<>>) = 0
  OBVIOUS
<1>2. QED
  BY <1>1 DEF Unseen, PairFits, Pending, Unadmitted

\* The connection of each episode that still runs lets it wait.
WaitsKept ==
  \A i \in Episodes : Live(ep'[i]) /\ Pending(ep'[i]) => WaitKept(conn[ep[i].conn], conn'[ep[i].conn])

\* The client has sent nothing new.
NothingSent(cl) ==
  cl.at \in Busy => client.at \in Busy /\ cl.n = client.n /\ Newest(client) <= Newest(cl)

LEMMA NewestFacts ==
  ASSUME DataOK, NEW cl, cl.n \in Nat, cl.steps \in Nat
  PROVE  /\ Newest(cl) \in Nat /\ NextSeq(cl.n, 0) <= Newest(cl)
         /\ cl.at = "sending" => Newest(cl) = NextSeq(cl.n, cl.steps)
         /\ cl.at = "asking" => Newest(cl) = NextSeq(cl.n, cl.steps + 1)
<1>1. NextSeq(cl.n, 0) \in Nat /\ \A k \in Nat : NextSeq(cl.n, k) = NextSeq(cl.n, 0) + k
  BY Numbering
<1>2. PICK k \in Nat : k = IF cl.at = "asking" THEN cl.steps + 1 ELSE IF cl.at = "sending" THEN cl.steps ELSE 0
  OBVIOUS
<1>3. Newest(cl) = NextSeq(cl.n, 0) + k
  BY <1>1, <1>2 DEF Newest
<1>4. QED
  BY <1>1, <1>2, <1>3 DEF Newest

\* The invariant as it is after a step that leaves the scenario alone.
LEMMA NextBox ==
  ASSUME UNCHANGED scenario, \A i \in Episodes : BoxFits(ep'[i]),
         mode = "clocked" => /\ \A i \in Episodes : Live(ep'[i]) => PairFits(ep'[i], conn'[ep'[i].conn])
                             /\ \A s \in Conns : OneObs(conn'[s])
                             /\ client'.at \in Busy => /\ SeenTill(ep'[client'.n], Newest(client'))
                                                       /\ \A s \in Conns : SentTill(conn'[s], client'.n, Newest(client'))
  PROVE  BoxInv'
<1>1. ASSUME NEW i \in Episodes PROVE BoxFits(ep[i])'
  <2>1. PICK e : e = ep'[i]
    OBVIOUS
  <2>2. BoxFits(e)
    BY <2>1
  <2>3. QED
    BY <2>1, <2>2 DEF BoxFits, Unseen, OneAtMost, Unadmitted, BoxBound, backlog, mode
<1>2. ASSUME mode = "clocked", NEW i \in Episodes, Live(ep'[i]) PROVE PairFits(ep[i], conn[ep[i].conn])'
  <2>1. PICK e, c : e = ep'[i] /\ c = conn'[e.conn]
    OBVIOUS
  <2>2. PairFits(e, c)
    BY <1>2, <2>1
  <2>3. QED
    BY <2>1, <2>2 DEF PairFits, Pending, Unadmitted, StillWaits, Obs
<1>3. ASSUME mode = "clocked", NEW s \in Conns PROVE OneObs(conn[s])'
  BY <1>3 DEF OneObs, Obs
<1>4. ASSUME mode = "clocked", client'.at \in Busy
      PROVE  (SeenTill(ep[client.n], Newest(client)) /\ \A s \in Conns : SentTill(conn[s], client.n, Newest(client)))'
  <2>1. PICK cl : cl = client'
    OBVIOUS
  <2>2. PICK l : l = Newest(cl)
    OBVIOUS
  <2>3. Newest(client)' = l
    BY <2>1, <2>2 DEF Newest, NextSeq
  <2>4. SeenTill(ep'[cl.n], l) /\ \A s \in Conns : SentTill(conn'[s], cl.n, l)
    BY <1>4, <2>1, <2>2
  <2>5. PICK e : e = ep'[cl.n]
    OBVIOUS
  <2>6. SeenTill(e, l)
    BY <2>4, <2>5
  <2>7. SeenTill(ep[client.n], Newest(client))'
    BY <2>1, <2>3, <2>5, <2>6 DEF SeenTill, Seen
  <2>8. ASSUME NEW s \in Conns PROVE SentTill(conn[s], client.n, Newest(client))'
    BY <2>1, <2>3, <2>4 DEF SentTill, Obs
  <2>9. QED
    BY <2>7, <2>8
<1>5. mode' = mode
  BY DEF mode
<1>6. (\A i \in Episodes : Live(ep[i]) => PairFits(ep[i], conn[ep[i].conn]))' <=>
        \A i \in Episodes : Live(ep'[i]) => PairFits(ep[i], conn[ep[i].conn])'
  BY DEF Live
<1>7. QED
  BY <1>1, <1>2, <1>3, <1>4, <1>5, <1>6 DEF BoxInv

LEMMA TillGrows ==
  ASSUME NEW l \in Nat, NEW m \in Nat, l <= m
  PROVE  /\ \A e \in EpisodeRows : SeenTill(e, l) => SeenTill(e, m)
         /\ \A n : \A c \in Connections : SentTill(c, n, l) => SentTill(c, n, m)
<1>1. ASSUME NEW e \in EpisodeRows PROVE Seen(e) \subseteq Nat
  <2>1. e.box \in Seq(Nat) /\ e.moving \in Seq(Deliveries) /\ e.held \subseteq Nat
    BY DEF EpisodeRows
  <2>2. ToSet(e.box) \subseteq Nat /\ ToSet(e.moving) \subseteq Deliveries
    BY <2>1 DEF ToSet
  <2>3. \A x \in Deliveries : x.seq \in Nat
    BY DEF Deliveries
  <2>4. QED
    BY <2>1, <2>2, <2>3 DEF Seen
<1>2. \A e \in EpisodeRows : SeenTill(e, l) => SeenTill(e, m)
  BY <1>1 DEF SeenTill
<1>3. ASSUME NEW c \in Connections, NEW p \in Obs(c) PROVE c.up[p].seq \in Nat
  <2>1. c.up \in Seq(Messages) /\ p \in 1 .. Len(c.up)
    BY <1>3 DEF Connections, Obs
  <2>2. c.up[p] \in Messages
    BY <2>1, ElementOfSeq
  <2>3. QED
    BY <2>2 DEF Messages
<1>4. \A n : \A c \in Connections : SentTill(c, n, l) => SentTill(c, n, m)
  BY <1>3 DEF SentTill
<1>5. QED
  BY <1>2, <1>4

LEMMA RunsEpisode == ASSUME ServerInv, ClientInv, client.at \in Busy PROVE client.n \in Episodes /\ client.n \in Nat
<1>1. client.n \in Nat \ {0} /\ client.n <= scenario.episodes
  BY ClientTypes DEF ClientInv, PhaseFits, ServerInv, DataOK, ClientFits, Busy, Stepping
<1>2. scenario.episodes \in Episodes
  BY DaemonsAssumption DEF ServerInv, DataOK
<1>3. QED
  BY <1>1, <1>2, EpisodesAreNumbers

LEMMA QuietBox ==
  ASSUME ServerInv, ServerInv', ClientInv, BoxInv, UNCHANGED scenario, \A i \in Episodes : KeepsAsked(ep[i], ep'[i]),
         mode = "clocked" => /\ WaitsKept /\ NothingSent(client')
                             /\ \A s \in Conns : ObsLess(conn[s], conn'[s])
  PROVE  BoxInv'
<1>1. DataOK /\ \A i \in Episodes : /\ ep[i] \in EpisodeRows /\ ep'[i] \in EpisodeRows /\ EpisodeFits(ep'[i])
  BY DEF ServerInv, DataOK
<1>2. ASSUME NEW i \in Episodes PROVE BoxFits(ep'[i]) /\ \A l : SeenTill(ep[i], l) => SeenTill(ep'[i], l)
  BY <1>1, KeepsFit DEF BoxInv
<1>3. ASSUME mode = "clocked", NEW i \in Episodes, Live(ep'[i]) PROVE PairFits(ep'[i], conn'[ep'[i].conn])
  <2>1. CASE Unseen(ep'[i])
    BY <2>1, UnseenPair
  <2>2. CASE ~Unseen(ep'[i])
    <3>1. SameAsked(ep[i], ep'[i]) /\ Live(ep[i]) /\ ep'[i].conn = ep[i].conn
      BY <1>3, <2>2 DEF KeepsAsked, Live, SameAsked
    <3>2. Pending(ep'[i]) => WaitKept(conn[ep[i].conn], conn'[ep[i].conn])
      BY <1>3 DEF WaitsKept
    <3>3. ep[i].conn \in Conns
      BY <3>1 DEF Live, ServerInv, RowsFit, HasRow
    <3>4. PICK c, f : c = conn[ep[i].conn] /\ f = conn'[ep[i].conn]
      OBVIOUS
    <3>5. ObsLess(c, f) /\ PairFits(ep[i], c)
      BY <1>3, <3>1, <3>3, <3>4 DEF BoxInv
    <3>6. PairFits(ep'[i], f)
      BY <1>1, <3>1, <3>2, <3>4, <3>5, KeepsPair
    <3>7. QED
      BY <3>1, <3>4, <3>6
  <2>3. QED
    BY <2>1, <2>2
<1>4. ASSUME mode = "clocked", NEW s \in Conns
      PROVE  OneObs(conn'[s]) /\ \A n, l : SentTill(conn[s], n, l) => SentTill(conn'[s], n, l)
  BY <1>4, ObsFacts DEF BoxInv
<1>5. ASSUME mode = "clocked", client'.at \in Busy
      PROVE  SeenTill(ep'[client'.n], Newest(client')) /\ \A s \in Conns : SentTill(conn'[s], client'.n, Newest(client'))
  <2>1. client.at \in Busy /\ client'.n = client.n /\ Newest(client) <= Newest(client')
    BY <1>5 DEF NothingSent
  <2>2. client \in Clients /\ client.n \in Nat /\ client' \in Clients
    BY DEF ServerInv, DataOK, ClientFits, Clients
  <2>3. PICK l \in Nat, m \in Nat : l = Newest(client) /\ m = Newest(client') /\ l <= m
    BY <1>1, <2>1, <2>2, NewestFacts DEF Clients
  <2>4. client.n \in Episodes
    BY <2>1, RunsEpisode
  <2>5. SeenTill(ep[client.n], l) /\ \A s \in Conns : SentTill(conn[s], client.n, l)
    BY <1>5, <2>1, <2>3 DEF BoxInv
  <2>6. SeenTill(ep'[client.n], l) /\ \A s \in Conns : SentTill(conn'[s], client.n, l)
    BY <1>2, <1>4, <1>5, <2>4, <2>5
  <2>7. SeenTill(ep'[client.n], m)
    BY <1>1, <2>3, <2>4, <2>6, TillGrows
  <2>8. ASSUME NEW s \in Conns PROVE SentTill(conn'[s], client.n, m)
    <3>1. conn'[s] \in Connections
      BY DEF ServerInv, DataOK
    <3>2. QED
      BY <2>3, <2>6, <3>1, TillGrows
  <2>9. QED
    BY <2>1, <2>3, <2>7, <2>8
<1>6. QED
  BY <1>2, <1>3, <1>4, <1>5, NextBox

-----------------------------------------------------------------------------
(* What the server does that asks nothing of an episode.                   *)

AskedStays == \A i \in Episodes : KeepsAsked(ep[i], ep'[i])
QuietFits  == AskedStays /\ (mode = "clocked" => WaitsKept)

LEMMA SelfShorter == ASSUME NEW e \in EpisodeRows PROVE Shorter(e.moving, e.moving)
<1>1. PICK q \in Seq(Deliveries) : q = e.moving
  BY DEF EpisodeRows
<1>2. Len(q) \in Nat /\ Len(q) = Len(q) - 0 /\ \A p \in 1 .. Len(q) : p + 0 = p
  BY <1>1, LenProperties
<1>3. Shorter(q, q)
  BY <1>2 DEF Shorter
<1>4. QED
  BY <1>1, <1>3

\* A step of an episode that leaves alone what it was asked, or closes it.
LEMMA AloneAsked ==
  ASSUME NEW e \in EpisodeRows, NEW d,
         d.closing \/ (/\ d.box = e.box /\ d.held \subseteq e.held /\ d.moving = e.moving /\ d.conn = e.conn
                       /\ d.closing = e.closing
                       /\ d.stage = "run" => e.stage = "run"
                       /\ d.stage \in OffStage => e.stage \in OffStage)
  PROVE  KeepsAsked(e, d)
BY SelfShorter DEF KeepsAsked, SameAsked

LEMMA AllAsked == ASSUME ServerInv, UNCHANGED ep PROVE AskedStays
BY AloneAsked DEF AskedStays, ServerInv, DataOK

LEMMA OneAsked ==
  ASSUME ServerInv, NEW i \in Episodes, NEW d, ep' = [ep EXCEPT ![i] = d], KeepsAsked(ep[i], d)
  PROVE  AskedStays
<1>1. \A j \in Episodes : KeepsAsked(ep[j], ep[j])
  BY AloneAsked DEF ServerInv, DataOK
<1>2. QED
  BY <1>1 DEF AskedStays, ServerInv, DataOK

LEMMA WaitsStay == ASSUME UNCHANGED conn PROVE WaitsKept
BY DEF WaitsKept, WaitKept

\* One connection changes: the episode that it has lets it wait, or is over.
LEMMA OneWaits ==
  ASSUME ServerInv, AskedStays, NEW s, NEW d, conn' = [conn EXCEPT ![s] = d],
         s \in Conns => \A i \in Episodes : conn[s].row = i /\ Live(ep[i]) /\ Live(ep'[i]) /\ Pending(ep'[i]) => WaitKept(conn[s], d)
  PROVE  WaitsKept
<1>1. ASSUME NEW i \in Episodes, Live(ep'[i]), Pending(ep'[i]) PROVE WaitKept(conn[ep[i].conn], conn'[ep[i].conn])
  <2>1. Live(ep[i])
    <3>1. ~Unseen(ep'[i])
      BY <1>1, UnseenFacts DEF ServerInv
    <3>2. QED
      BY <1>1, <3>1 DEF AskedStays, KeepsAsked, SameAsked, Live
  <2>2. ep[i].conn \in Conns /\ conn[ep[i].conn].row = i
    BY <2>1 DEF Live, ServerInv, RowsFit, HasRow
  <2>3. CASE ep[i].conn = s
    BY <1>1, <2>1, <2>2, <2>3 DEF ServerInv, DataOK
  <2>4. CASE ep[i].conn # s
    BY <2>2, <2>4 DEF ServerInv, DataOK, WaitKept
  <2>5. QED
    BY <2>3, <2>4
<1>2. QED
  BY <1>1 DEF WaitsKept

\* An episode is failed and its wait ended.
LEMMA SweepsQuiet ==
  ASSUME ServerInv, AskedStays, NEW i \in Episodes, ep'[i].closing, conn' = [conn EXCEPT ![ep[i].conn] = Swept(@)],
         ep[i].stage = "run"
  PROVE  WaitsKept
<1>1. PICK s : s = ep[i].conn
  OBVIOUS
<1>2. s \in Conns /\ conn[s].row = i
  BY <1>1 DEF ServerInv, RowsFit, HasRow
<1>3. QED
  BY <1>1, <1>2, OneWaits DEF Live

LEMMA ClosedCloses ==
  ASSUME NEW e \in EpisodeRows
  PROVE  Closed(e).closing /\ Failed(e).closing
<1>1. <<>> \in Seq(Nat)
  OBVIOUS
<1>2. PICK d : d = Closed(e)
  OBVIOUS
<1>3. d \in EpisodeRows /\ d.closing
  BY <1>1, <1>2 DEF Closed, EpisodeRows
<1>4. Failed(e).closing
  BY <1>2, <1>3 DEF Failed, EpisodeRows
<1>5. QED
  BY <1>2, <1>3, <1>4

LEMMA GoneAsked ==
  ASSUME NEW e \in EpisodeRows, EpisodeFits(e), NEW t \in Tasks
  PROVE  KeepsAsked(e, Gone(e, t)) /\ (e.closing => Gone(e, t).closing) /\ (LeavesFailed(e, t) => Gone(e, t).closing)
<1>1. PICK d : d = [e EXCEPT !.task[t] = "off"]
  OBVIOUS
<1>2. /\ d \in EpisodeRows /\ d.box = e.box /\ d.held = e.held /\ d.moving = e.moving /\ d.conn = e.conn
      /\ d.closing = e.closing /\ d.stage = e.stage /\ d.failed = e.failed
  BY <1>1 DEF EpisodeRows
<1>3. Failed(d).closing
  BY <1>2, ClosedCloses
<1>4. Gone(e, t) = d \/ Gone(e, t) = Failed(d)
  BY <1>1 DEF Gone
<1>5. KeepsAsked(e, Gone(e, t)) /\ (e.closing => Gone(e, t).closing)
  BY <1>2, <1>3, <1>4, AloneAsked
<1>6. LeavesFailed(e, t) => Gone(e, t).closing
  BY <1>2, <1>3, <1>4 DEF LeavesFailed, Fails, EpisodeFits
<1>7. QED
  BY <1>5, <1>6

LEMMA HostQuiet == ASSUME ServerInv, ClientInv, NEW i \in Episodes, Hosts(i) PROVE QuietFits
<1>1. ep[i] \in EpisodeRows
  BY EachEp
<1>2. CASE HostRuns(i)
  <2>1. PICK e : e = IF ep[i].closing THEN [ep[i] EXCEPT !.host = "drain"]
                     ELSE [ep[i] EXCEPT !.host = "up", !.task["root"] = "ready"]
    OBVIOUS
  <2>2. ep' = [ep EXCEPT ![i] = e] /\ UNCHANGED conn
    BY <1>2, <2>1 DEF HostRuns
  <2>3. /\ e.box = ep[i].box /\ e.held = ep[i].held /\ e.moving = ep[i].moving /\ e.conn = ep[i].conn
        /\ e.stage = ep[i].stage /\ e.closing = ep[i].closing
    BY <1>1, <2>1 DEF EpisodeRows
  <2>4. QED
    BY <1>1, <2>2, <2>3, AloneAsked, OneAsked, WaitsStay DEF QuietFits
<1>3. CASE HostLeaves(i)
  <2>1. PICK d : d = Closed(ep[i])
    OBVIOUS
  <2>2. PICK e : e = [d EXCEPT !.host = "drain"]
    OBVIOUS
  <2>3. ep' = [ep EXCEPT ![i] = e] /\ UNCHANGED conn
    BY <1>3, <2>1, <2>2 DEF HostLeaves
  <2>4. <<>> \in Seq(Nat)
    OBVIOUS
  <2>5. e.closing
    BY <1>1, <2>1, <2>2, <2>4 DEF Closed, EpisodeRows
  <2>6. QED
    BY <1>1, <2>3, <2>5, AloneAsked, OneAsked, WaitsStay DEF QuietFits
<1>4. CASE HostExits(i)
  <2>1. PICK e : e = [ep[i] EXCEPT !.host = "exited"]
    OBVIOUS
  <2>2. ep' = [ep EXCEPT ![i] = e] /\ UNCHANGED conn
    BY <1>4, <2>1 DEF HostExits
  <2>3. /\ e.box = ep[i].box /\ e.held = ep[i].held /\ e.moving = ep[i].moving /\ e.conn = ep[i].conn
        /\ e.stage = ep[i].stage /\ e.closing = ep[i].closing
    BY <1>1, <2>1 DEF EpisodeRows
  <2>4. QED
    BY <1>1, <2>2, <2>3, AloneAsked, OneAsked, WaitsStay DEF QuietFits
<1>5. CASE SendsError(i)
  <2>1. PICK e : e = [ep[i] EXCEPT !.sink = "sent"]
    OBVIOUS
  <2>2. ep' = [ep EXCEPT ![i] = e] /\ ep[i].sink = "due"
    BY <1>5, <2>1 DEF SendsError
  <2>3. mode # "clocked"
    BY <2>2 DEF ClientInv, SeenFits, Silent
  <2>4. /\ e.box = ep[i].box /\ e.held = ep[i].held /\ e.moving = ep[i].moving /\ e.conn = ep[i].conn
        /\ e.stage = ep[i].stage /\ e.closing = ep[i].closing
    BY <1>1, <2>1 DEF EpisodeRows
  <2>5. QED
    BY <1>1, <2>2, <2>3, <2>4, AloneAsked, OneAsked DEF QuietFits
<1>6. QED
  BY <1>2, <1>3, <1>4, <1>5 DEF Hosts

LEMMA TaskQuiet ==
  ASSUME ServerInv, NEW i \in Episodes, NEW t \in Tasks,
         \/ Finishes(i, t) \/ Raises(i, t) \/ Interrupts(i, t) \/ Publishes(i, t) \/ Cancelled(i, t)
         \/ Calls(i, t) \/ CallReturns(i, t)
  PROVE  QuietFits
<1>1. ep[i] \in EpisodeRows /\ EpisodeFits(ep[i])
  BY EachEp DEF ServerInv
<1>2. /\ KeepsAsked(ep[i], Gone(ep[i], t)) /\ (ep[i].closing => Gone(ep[i], t).closing)
      /\ LeavesFailed(ep[i], t) => Gone(ep[i], t).closing
  BY <1>1, GoneAsked
<1>3. \A d : ep' = [ep EXCEPT ![i] = d] => ep'[i] = d
  BY DEF ServerInv, DataOK
<1>4. CASE Finishes(i, t)
  <2>1. ep' = [ep EXCEPT ![i] = Gone(ep[i], t)] /\ AskedStays
    BY <1>2, <1>4, OneAsked DEF Finishes, TaskGoes
  <2>2. CASE LeavesFailed(ep[i], t)
    BY <1>2, <1>3, <1>4, <2>1, <2>2, SweepsQuiet DEF QuietFits, Finishes, TaskGoes, LeavesFailed, Fails
  <2>3. CASE ~LeavesFailed(ep[i], t)
    BY <1>4, <2>1, <2>3, WaitsStay DEF QuietFits, Finishes, TaskGoes
  <2>4. QED
    BY <2>2, <2>3
<1>5. CASE Raises(i, t)
  <2>1. PICK d : d = [ep[i] EXCEPT !.task[t] = "off"]
    OBVIOUS
  <2>2. /\ ep' = [ep EXCEPT ![i] = Failed(d)]
        /\ UNCHANGED conn \/ (conn' = [conn EXCEPT ![ep[i].conn] = Swept(@)] /\ Fails(d))
    BY <1>5, <2>1 DEF Raises, Fail
  <2>3. d \in EpisodeRows /\ d.stage = ep[i].stage
    BY <1>1, <2>1 DEF EpisodeRows
  <2>4. Failed(d).closing /\ ep'[i].closing
    BY <1>3, <2>2, <2>3, ClosedCloses
  <2>5. AskedStays
    BY <1>1, <2>2, <2>4, AloneAsked, OneAsked
  <2>6. QED
    BY <2>2, <2>3, <2>4, <2>5, SweepsQuiet, WaitsStay DEF QuietFits, Fails
<1>6. CASE Interrupts(i, t)
  <2>1. PICK d : d = Closed(ep[i])
    OBVIOUS
  <2>2. PICK e : e = [d EXCEPT !.task[t] = "off", !.control = TRUE]
    OBVIOUS
  <2>3. ep' = [ep EXCEPT ![i] = e] /\ UNCHANGED conn
    BY <1>6, <2>1, <2>2 DEF Interrupts
  <2>4. <<>> \in Seq(Nat)
    OBVIOUS
  <2>5. e.closing
    BY <1>1, <2>1, <2>2, <2>4 DEF Closed, EpisodeRows
  <2>6. QED
    BY <1>1, <2>3, <2>5, AloneAsked, OneAsked, WaitsStay DEF QuietFits
<1>7. CASE Publishes(i, t)
  <2>1. PICK e : e = [ep[i] EXCEPT !.published = @ + 1]
    OBVIOUS
  <2>2. ep' = [ep EXCEPT ![i] = e] /\ mode # "clocked"
    BY <1>7, <2>1 DEF Publishes
  <2>3. /\ e.box = ep[i].box /\ e.held = ep[i].held /\ e.moving = ep[i].moving /\ e.conn = ep[i].conn
        /\ e.stage = ep[i].stage /\ e.closing = ep[i].closing
    BY <1>1, <2>1 DEF EpisodeRows
  <2>4. QED
    BY <1>1, <2>2, <2>3, AloneAsked, OneAsked DEF QuietFits
<1>8. CASE Cancelled(i, t)
  BY <1>2, <1>8, OneAsked, WaitsStay DEF QuietFits, Cancelled
<1>9. CASE Calls(i, t)
  <2>1. PICK e : e = [ep[i] EXCEPT !.task[t] = "call"]
    OBVIOUS
  <2>2. ep' = [ep EXCEPT ![i] = e] /\ UNCHANGED conn
    BY <1>9, <2>1 DEF Calls
  <2>3. /\ e.box = ep[i].box /\ e.held = ep[i].held /\ e.moving = ep[i].moving /\ e.conn = ep[i].conn
        /\ e.stage = ep[i].stage /\ e.closing = ep[i].closing
    BY <1>1, <2>1 DEF EpisodeRows
  <2>4. QED
    BY <1>1, <2>2, <2>3, AloneAsked, OneAsked, WaitsStay DEF QuietFits
<1>10. CASE CallReturns(i, t)
  <2>1. CASE ep[i].closing
    <3>1. PICK d : d = Gone(ep[i], t)
      OBVIOUS
    <3>2. PICK e : e = [d EXCEPT !.fresh = (mode = "clocked")]
      OBVIOUS
    <3>3. ep' = [ep EXCEPT ![i] = e] /\ UNCHANGED conn
      BY <1>10, <2>1, <3>1, <3>2 DEF CallReturns
    <3>4. e.closing
      BY <1>2, <2>1, <3>1, <3>2
    <3>5. QED
      BY <1>1, <3>3, <3>4, AloneAsked, OneAsked, WaitsStay DEF QuietFits
  <2>2. CASE ~ep[i].closing
    <3>1. PICK e : e = [[ep[i] EXCEPT !.task[t] = "ready"] EXCEPT !.fresh = (mode = "clocked")]
      OBVIOUS
    <3>2. ep' = [ep EXCEPT ![i] = e] /\ UNCHANGED conn
      BY <1>10, <2>2, <3>1 DEF CallReturns
    <3>3. /\ e.box = ep[i].box /\ e.held = ep[i].held /\ e.moving = ep[i].moving /\ e.conn = ep[i].conn
          /\ e.stage = ep[i].stage /\ e.closing = ep[i].closing
      BY <1>1, <3>1 DEF EpisodeRows
    <3>4. QED
      BY <1>1, <3>2, <3>3, AloneAsked, OneAsked, WaitsStay DEF QuietFits
  <2>3. QED
    BY <2>1, <2>2
<1>11. QED
  BY <1>4, <1>5, <1>6, <1>7, <1>8, <1>9, <1>10

\* A delivery goes, or settles once more.
LEMMA ShorterMoving ==
  ASSUME NEW q \in Seq(Deliveries), q # <<>>, NEW n \in Nat
  PROVE  Shorter(q, Tail(q)) /\ Shorter(q, [q EXCEPT ![1].settles = n])
<1>1. /\ Len(q) \in Nat \ {0} /\ DOMAIN q = 1 .. Len(q) /\ Len(Tail(q)) = Len(q) - 1
      /\ \A p \in 1 .. Len(q) - 1 : Tail(q)[p] = q[p + 1]
  BY TailFacts
<1>2. Shorter(q, Tail(q))
  <2>1. PICK r : r = Tail(q)
    OBVIOUS
  <2>2. \A p \in 1 .. Len(r) : p + 1 \in 1 .. Len(q) /\ r[p] = q[p + 1]
    BY <1>1, <2>1
  <2>3. QED
    BY <1>1, <2>1, <2>2 DEF Shorter
<1>3. Shorter(q, [q EXCEPT ![1].settles = n])
  <2>1. PICK r : r = [q EXCEPT ![1].settles = n]
    OBVIOUS
  <2>2. \A p \in 1 .. Len(q) : q[p] \in Deliveries
    BY ElementOfSeq
  <2>3. \A p \in 1 .. Len(q) : r[p].admitted = q[p].admitted /\ r[p].seq = q[p].seq
    BY <1>1, <2>1, <2>2 DEF Deliveries
  <2>4. Len(r) = Len(q)
    <3>1. 1 \in 1 .. Len(q) /\ q[1] \in Deliveries
      BY <1>1, <2>2
    <3>2. PICK x : x = [q[1] EXCEPT !.settles = n]
      OBVIOUS
    <3>3. x \in Deliveries /\ r = [q EXCEPT ![1] = x]
      BY <2>1, <3>1, <3>2 DEF Deliveries
    <3>4. r \in Seq(Deliveries) /\ DOMAIN r = DOMAIN q
      BY <3>3, <3>1, ExceptSeq
    <3>5. QED
      BY <1>1, <3>4, LenProperties
  <2>5. Len(r) = Len(q) - 0 /\ \A p \in 1 .. Len(r) : p + 0 = p
    BY <1>1, <2>4
  <2>6. QED
    BY <2>1, <2>3, <2>4, <2>5 DEF Shorter
<1>4. QED
  BY <1>2, <1>3

\* An answer to another observation ends no wait.
LEMMA AnswersOther ==
  ASSUME ServerInv, ClientInv, mode = "clocked", NEW i \in Episodes, NEW j \in Episodes, NEW k, k \in Seen(ep[i]),
         NEW s \in Conns, conn[s].row = j, NEW type,
         i # j \/ ~conn[s].open \/ conn[s].at # "waiting" \/ conn[s].answer # "none" \/ conn[s].msg.seq # k
  PROVE  WaitKept(conn[s], Answered(conn[s], i, k, type))
<1>1. PICK c \in Connections : c = conn[s] /\ ConnFits(client, s, c)
  BY EachConn
<1>2. CASE c.open /\ c.at = "waiting" /\ c.answer = "none" /\ c.msg.seq = k
  <2>2. Ours(i, k) /\ k \in Nat
    <3>1. k \in Nat
      BY <1>1, <1>2 DEF Connections, Messages
    <3>2. QED
      BY <3>1 DEF ClientInv, SeenFits
  <2>3. Ours(j, k)
    <3>1. c.msg.of = j /\ Numbered(client, c.msg)
      BY <1>1, <1>2 DEF ConnFits, WireFits, Wire
    <3>2. QED
      BY <1>2, <3>1 DEF Numbered
  <2>4. i \in Nat /\ j \in Nat /\ DataOK
    BY EpisodesAreNumbers DEF ServerInv
  <2>5. i = j
    BY <2>2, <2>3, <2>4, OursApart
  <2>6. QED
    BY <1>1, <1>2, <2>5
<1>3. CASE ~(c.at = "waiting" /\ c.answer = "none" /\ c.msg.seq = k)
  BY <1>1, <1>3 DEF Answered, WaitKept
<1>4. CASE ~c.open
  <2>1. ~Answered(c, i, k, type).open
    BY <1>1, <1>4 DEF Answered, Connections
  <2>2. QED
    BY <1>1, <1>4, <2>1 DEF WaitKept
<1>5. QED
  BY <1>2, <1>3, <1>4

LEMMA DeliveryQuiet ==
  ASSUME ServerInv, ClientInv, NEW i \in Episodes, Settles(i) \/ Settled(i) \/ StopsMoving(i)
  PROVE  QuietFits
<1>1. ep[i] \in EpisodeRows /\ EpisodeFits(ep[i])
  BY EachEp DEF ServerInv
<1>2. PICK q \in Seq(Deliveries) : q = ep[i].moving /\ q # <<>>
  BY <1>1 DEF EpisodeRows, Settles, Settled, StopsMoving, Moving
<1>3. q[1] \in Deliveries /\ Head(q) = q[1] /\ Tail(q) \in Seq(Deliveries)
      /\ \A x \in Deliveries : [q EXCEPT ![1] = x] \in Seq(Deliveries)
  BY <1>1, <1>2, MovingFacts
<1>4. PICK g : g = [ep[i] EXCEPT !.moving = Tail(q)]
  OBVIOUS
<1>5. /\ g \in EpisodeRows /\ g.moving = Tail(q) /\ g.box = ep[i].box /\ g.held = ep[i].held /\ g.conn = ep[i].conn
      /\ g.stage = ep[i].stage /\ g.closing = ep[i].closing
  BY <1>1, <1>3, <1>4 DEF EpisodeRows
<1>6. KeepsAsked(ep[i], g)
  <2>1. Shorter(q, Tail(q))
    BY <1>2, ShorterMoving
  <2>2. QED
    BY <1>2, <1>5, <2>1 DEF KeepsAsked, SameAsked
<1>7. \A d : ep' = [ep EXCEPT ![i] = d] => ep'[i] = d
  BY DEF ServerInv, DataOK
<1>8. CASE Settles(i) /\ Head(ep[i].moving).settles < MaxSettles
  <2>1. PICK n \in Nat : n = q[1].settles + 1
    BY <1>3 DEF Deliveries
  <2>2. PICK r : r = [q EXCEPT ![1].settles = n]
    OBVIOUS
  <2>3. PICK e : e = [ep[i] EXCEPT !.fresh = FALSE, !.moving = r]
    OBVIOUS
  <2>4. ep' = [ep EXCEPT ![i] = e] /\ UNCHANGED conn
    <3>1. ep' = [ep EXCEPT ![i].fresh = FALSE, ![i].moving[1].settles = @ + 1] /\ UNCHANGED conn
      BY <1>8 DEF Settles
    <3>2. 1 \in DOMAIN q
      BY <1>2, TailFacts
    <3>3. [ep[i] EXCEPT !.fresh = FALSE, !.moving[1].settles = @ + 1] = e
      BY <1>1, <1>2, <2>1, <2>2, <2>3, <3>2 DEF EpisodeRows
    <3>4. ep \in [Episodes -> EpisodeRows]
      BY DEF ServerInv, DataOK
    <3>5. QED
      BY <3>1, <3>3, <3>4
  <2>5. Shorter(q, r)
    BY <1>2, <2>1, <2>2, ShorterMoving
  <2>6. /\ e.moving = r /\ e.box = ep[i].box /\ e.held = ep[i].held /\ e.conn = ep[i].conn
        /\ e.stage = ep[i].stage /\ e.closing = ep[i].closing
    BY <1>1, <2>3 DEF EpisodeRows
  <2>7. ~ep[i].closing
    BY <1>8 DEF Settles
  <2>8. KeepsAsked(ep[i], e)
    BY <1>2, <2>5, <2>6, <2>7 DEF KeepsAsked, SameAsked
  <2>9. QED
    BY <2>4, <2>8, OneAsked, WaitsStay DEF QuietFits
<1>9. CASE Settles(i) /\ ~(Head(ep[i].moving).settles < MaxSettles)
  <2>1. /\ ep' = [ep EXCEPT ![i] = Failed(g)]
        /\ UNCHANGED conn \/ (conn' = [conn EXCEPT ![ep[i].conn] = Swept(@)] /\ Fails(g))
    BY <1>2, <1>4, <1>9 DEF Settles, Fail
  <2>2. Failed(g).closing /\ ep'[i].closing
    BY <1>5, <1>7, <2>1, ClosedCloses
  <2>3. AskedStays
    BY <1>1, <2>1, <2>2, AloneAsked, OneAsked
  <2>4. QED
    BY <1>5, <2>1, <2>2, <2>3, SweepsQuiet, WaitsStay DEF QuietFits, Fails
<1>10. CASE Settled(i)
  <2>1. ep' = [ep EXCEPT ![i] = g] /\ UNCHANGED conn
    BY <1>2, <1>4, <1>10 DEF Settled
  <2>2. QED
    BY <1>6, <2>1, OneAsked, WaitsStay DEF QuietFits
<1>11. CASE StopsMoving(i)
  <2>1. ep' = [ep EXCEPT ![i] = g] /\ AskedStays
    <3>1. ep' = [ep EXCEPT ![i] = g]
      BY <1>2, <1>4, <1>11 DEF StopsMoving
    <3>2. QED
      BY <1>6, <3>1, OneAsked
  <2>2. PICK k : k = Head(q).seq
    OBVIOUS
  <2>3. k \in Seen(ep[i])
    <3>1. 1 \in 1 .. Len(q) /\ DOMAIN q = 1 .. Len(q)
      BY <1>2, TailFacts
    <3>2. QED
      BY <1>2, <1>3, <2>2, <3>1 DEF Seen, ToSet
  <2>4. UNCHANGED conn \/ (conn' = [conn EXCEPT ![ep[i].conn] = Answered(@, i, k, "error")] /\ ep[i].closing)
    BY <1>2, <1>11, <2>2 DEF StopsMoving
  <2>5. CASE UNCHANGED conn
    BY <2>1, <2>5, WaitsStay DEF QuietFits
  <2>6. CASE conn' = [conn EXCEPT ![ep[i].conn] = Answered(@, i, k, "error")] /\ ep[i].closing /\ mode = "clocked"
    <3>1. PICK s : s = ep[i].conn
      OBVIOUS
    <3>2. ASSUME s \in Conns, NEW j \in Episodes, conn[s].row = j, Live(ep[j])
          PROVE  WaitKept(conn[s], Answered(conn[s], i, k, "error"))
      <4>1. i # j
        BY <2>6, <3>2 DEF Live
      <4>2. QED
        BY <2>3, <2>6, <3>2, <4>1, AnswersOther
    <3>3. WaitsKept
      BY <2>1, <2>6, <3>1, <3>2, OneWaits
    <3>4. QED
      BY <2>1, <3>3 DEF QuietFits
  <2>7. QED
    BY <2>1, <2>4, <2>5, <2>6 DEF QuietFits
<1>12. QED
  BY <1>8, <1>9, <1>10, <1>11

LEMMA RootQuiet == ASSUME ServerInv, NEW i \in Episodes, Spawns(i) \/ Visits(i) PROVE QuietFits
<1>1. ep[i] \in EpisodeRows /\ UNCHANGED conn
  BY EachEp DEF Spawns, Visits
<1>2. PICK t \in Tasks : ep' = [ep EXCEPT ![i].task[t] = "ready"]
  BY DEF Spawns, Visits, Tasks
<1>3. PICK e : e = [ep[i] EXCEPT !.task[t] = "ready"]
  OBVIOUS
<1>4. /\ e.box = ep[i].box /\ e.held = ep[i].held /\ e.moving = ep[i].moving /\ e.conn = ep[i].conn
      /\ e.stage = ep[i].stage /\ e.closing = ep[i].closing
  BY <1>1, <1>3 DEF EpisodeRows
<1>5. ep' = [ep EXCEPT ![i] = e]
  BY <1>2, <1>3
<1>6. KeepsAsked(ep[i], e)
  BY <1>1, <1>4, AloneAsked
<1>7. QED
  BY <1>1, <1>5, <1>6, OneAsked, WaitsStay DEF QuietFits

\* A reply is to an observation that the root has received, never to a pending one.
LEMMA ReplyQuiet ==
  ASSUME ServerInv, ClientInv, BoxInv, NEW i \in Episodes, NEW k \in ep[i].held, NEW type, Reply(i, k, type)
  PROVE  QuietFits
<1>1. ep[i] \in EpisodeRows /\ k \in Seen(ep[i])
  BY EachEp DEF Seen
<1>2. PICK e : e = [ep[i] EXCEPT !.held = @ \ {k}]
  OBVIOUS
<1>3. ep' = [ep EXCEPT ![i] = e] /\ ep'[i] = e
  BY <1>2 DEF Reply, ServerInv, DataOK
<1>4. /\ e.box = ep[i].box /\ e.held \subseteq ep[i].held /\ e.moving = ep[i].moving /\ e.conn = ep[i].conn
      /\ e.stage = ep[i].stage /\ e.closing = ep[i].closing
  BY <1>1, <1>2 DEF EpisodeRows
<1>5. AskedStays
  BY <1>1, <1>3, <1>4, AloneAsked, OneAsked
<1>6. CASE ~ep[i].current
  BY <1>5, <1>6, WaitsStay DEF QuietFits, Reply
<1>7. CASE ep[i].current /\ mode = "clocked"
  <2>1. conn' = [conn EXCEPT ![ep[i].conn] = Answered(@, i, k, type)]
    BY <1>7 DEF Reply
  <2>2. PICK s : s = ep[i].conn
    OBVIOUS
  <2>3. ASSUME s \in Conns, NEW j \in Episodes, conn[s].row = j, Live(ep[j]), Live(ep'[j]), Pending(ep'[j])
        PROVE  WaitKept(conn[s], Answered(conn[s], i, k, type))
    <3>1. CASE i # j
      BY <1>1, <1>7, <2>3, <3>1, AnswersOther
    <3>2. CASE i = j
      <4>1. Pending(ep[i])
        BY <1>3, <1>4, <2>3, <3>2 DEF Pending, Unadmitted
      <4>2. PairFits(ep[i], conn[s])
        BY <1>7, <2>2, <2>3, <3>2 DEF BoxInv
      <4>3. StillWaits(ep[i], conn[s])
        BY <4>1, <4>2 DEF PairFits
      <4>4. ~conn[s].open \/ conn[s].msg.seq # k
        BY <4>3 DEF StillWaits
      <4>5. QED
        BY <1>1, <1>7, <2>3, <4>4, AnswersOther
    <3>3. QED
      BY <3>1, <3>2
  <2>4. WaitsKept
    BY <1>5, <2>1, <2>2, <2>3, OneWaits
  <2>5. QED
    BY <1>5, <2>4 DEF QuietFits
<1>8. QED
  BY <1>5, <1>6, <1>7 DEF QuietFits

-----------------------------------------------------------------------------
(* What the handlers do that asks nothing of an episode.                   *)

\* A connection without an episode, or whose episode ends.
LEMMA RowOut ==
  ASSUME ServerInv, AskedStays, NEW s \in Conns, \A t \in Conns \ {s} : conn'[t] = conn[t],
         \A i \in Episodes : conn[s].row = i => ~Live(ep[i]) \/ ~Live(ep'[i]) \/ ~Pending(ep'[i])
  PROVE  WaitsKept
<1>1. ASSUME NEW i \in Episodes, Live(ep'[i]), Pending(ep'[i]) PROVE WaitKept(conn[ep[i].conn], conn'[ep[i].conn])
  <2>1. ~Unseen(ep'[i])
    BY <1>1, UnseenFacts DEF ServerInv
  <2>2. Live(ep[i])
    BY <1>1, <2>1 DEF AskedStays, KeepsAsked, SameAsked, Live
  <2>3. ep[i].conn \in Conns /\ conn[ep[i].conn].row = i
    BY <2>2 DEF Live, ServerInv, RowsFit, HasRow
  <2>4. ep[i].conn # s
    BY <1>1, <2>2, <2>3
  <2>5. QED
    BY <2>3, <2>4 DEF WaitKept
<1>2. QED
  BY <1>1 DEF WaitsKept

LEMMA EndingAsked ==
  ASSUME ServerInv, NEW s \in Conns,
         ep' = IF conn[s].row = 0 THEN ep ELSE [ep EXCEPT ![conn[s].row] = Ending(@)]
  PROVE  AskedStays /\ \A i \in Episodes : conn[s].row = i => ~Live(ep'[i])
<1>1. CASE conn[s].row = 0
  <2>1. \A i \in Episodes : i # 0
    BY EpisodesAreNumbers
  <2>2. QED
    BY <1>1, <2>1, AllAsked
<1>2. CASE conn[s].row # 0
  <2>1. PICK i \in Episodes : i = conn[s].row /\ ep[i] \in EpisodeRows
    BY <1>2, RowStarted
  <2>2. PICK e : e = Ending(ep[i])
    OBVIOUS
  <2>3. ep' = [ep EXCEPT ![i] = e] /\ ep'[i] = e
    BY <1>2, <2>1, <2>2 DEF ServerInv, DataOK
  <2>4. /\ e.box = ep[i].box /\ e.held = ep[i].held /\ e.moving = ep[i].moving /\ e.conn = ep[i].conn
        /\ e.stage = "end" /\ e.closing = ep[i].closing
    BY <2>1, <2>2 DEF EpisodeRows, Ending
  <2>5. KeepsAsked(ep[i], e)
    BY <2>1, <2>4, AloneAsked DEF OffStage
  <2>6. QED
    BY <2>1, <2>3, <2>4, <2>5, OneAsked DEF Live
<1>3. QED
  BY <1>1, <1>2

LEMMA OtherConns ==
  ASSUME ServerInv, NEW s \in Conns, Handler(s)
  PROVE  \A t \in Conns \ {s} : conn'[t] = conn[t]
<1>1. conn \in [Conns -> Connections]
  BY DEF ServerInv, DataOK
<1>2. CASE ReadStart(s) \/ ReadEnd(s) \/ Replies(s) \/ StopsWaiting(s) \/ Leaves(s)
  BY <1>1, <1>2 DEF ReadStart, ReadEnd, Replies, StopsWaiting, Leaves
<1>3. CASE StartEpisode(s)
  BY <1>1, <1>3 DEF StartEpisode
<1>4. CASE StartFails(s) \/ Starts(s) \/ RollsBack(s) \/ RolledBack(s)
  BY <1>1, <1>4 DEF StartFails, Starts, RollsBack, RolledBack
<1>5. CASE Observe(s)
  <2>1. \E d : conn' = [conn EXCEPT ![s] = d]
    BY <1>5 DEF Observe
  <2>2. QED
    BY <1>1, <2>1
<1>6. CASE CloseEnded(s) \/ FinishEnded(s) \/ Ended(s)
  BY <1>1, <1>6 DEF CloseEnded, FinishEnded, Ended
<1>7. QED
  BY <1>2, <1>3, <1>4, <1>5, <1>6 DEF Handler

LEMMA LeavingQuiet ==
  ASSUME ServerInv, NEW s \in Conns, ReadStart(s) \/ ReadEnd(s) \/ Leaves(s)
  PROVE  QuietFits
<1>1. ep' = IF conn[s].row = 0 THEN ep ELSE [ep EXCEPT ![conn[s].row] = Ending(@)]
  BY DEF ReadStart, ReadEnd, Leaves
<1>2. AskedStays /\ \A i \in Episodes : conn[s].row = i => ~Live(ep'[i])
  BY <1>1, EndingAsked
<1>3. \A t \in Conns \ {s} : conn'[t] = conn[t]
  BY OtherConns DEF Handler
<1>4. QED
  BY <1>2, <1>3, RowOut DEF QuietFits

\* The wait ends with its answer, or with its client.
LEMMA WaitQuiet ==
  ASSUME ServerInv, NEW s \in Conns, Replies(s) \/ StopsWaiting(s)
  PROVE  QuietFits
<1>1. PICK c \in Connections : c = conn[s]
  BY DEF ServerInv, DataOK
<1>2. AskedStays
  BY AllAsked DEF Replies, StopsWaiting
<1>3. PICK d : conn' = [conn EXCEPT ![s] = d] /\ (d = Idle(Sent(c, c.answer, c.msg.seq, c.row)) \/ d = Idle(c))
  BY <1>1 DEF Replies, StopsWaiting
<1>4. c.answer # "none" \/ ~c.open
  BY <1>1 DEF Replies, StopsWaiting
<1>5. d.open = c.open
  BY <1>1, <1>3 DEF Idle, Sent, Connections
<1>6. WaitKept(c, d)
  BY <1>4, <1>5 DEF WaitKept
<1>7. QED
  BY <1>1, <1>2, <1>3, <1>6, OneWaits DEF QuietFits

LEMMA EndedQuiet ==
  ASSUME ServerInv, NEW s \in Conns, CloseEnded(s) \/ FinishEnded(s) \/ Ended(s)
  PROVE  QuietFits
<1>1. PICK i \in Episodes : i = conn[s].row /\ ep[i] \in EpisodeRows /\ i # 0
  BY RowStarted DEF CloseEnded, FinishEnded, Ended, IsEnding
<1>2. \A t \in Conns \ {s} : conn'[t] = conn[t]
  BY OtherConns DEF Handler
<1>3. ~Live(ep[i])
  BY <1>1 DEF CloseEnded, FinishEnded, Ended, IsEnding, ServerInv, RowsFit, Live, Calm
<1>4. AskedStays
  <2>1. CASE CloseEnded(s)
    <3>1. PICK d : d = Closed(ep[i])
      OBVIOUS
    <3>2. PICK e : e = [d EXCEPT !.stage = "closed"]
      OBVIOUS
    <3>3. ep' = [ep EXCEPT ![i] = e]
      BY <1>1, <2>1, <3>1, <3>2 DEF CloseEnded
    <3>4. <<>> \in Seq(Nat)
      OBVIOUS
    <3>5. e.closing
      BY <1>1, <3>1, <3>2, <3>4 DEF Closed, EpisodeRows
    <3>6. QED
      BY <1>1, <3>3, <3>5, AloneAsked, OneAsked
  <2>2. CASE FinishEnded(s)
    <3>1. PICK e : e = [ep[i] EXCEPT !.stage = "finish"]
      OBVIOUS
    <3>2. ep' = [ep EXCEPT ![i] = e]
      BY <1>1, <2>2, <3>1 DEF FinishEnded
    <3>3. /\ e.box = ep[i].box /\ e.held = ep[i].held /\ e.moving = ep[i].moving /\ e.conn = ep[i].conn
          /\ e.stage = "finish" /\ e.closing = ep[i].closing
      BY <1>1, <3>1 DEF EpisodeRows
    <3>4. KeepsAsked(ep[i], e)
      BY <1>1, <3>3, AloneAsked DEF OffStage
    <3>5. QED
      BY <3>2, <3>4, OneAsked
  <2>3. CASE Ended(s)
    <3>1. PICK e : e = Released(Finished(ep[i]))
      OBVIOUS
    <3>2. ep' = [ep EXCEPT ![i] = e]
      BY <1>1, <2>3, <3>1 DEF Ended
    <3>3. Unseen(e)
      BY <3>1 DEF Released, NewEpisode, Unseen
    <3>4. QED
      BY <3>2, <3>3, OneAsked DEF KeepsAsked
  <2>4. QED
    BY <2>1, <2>2, <2>3
<1>5. QED
  BY <1>1, <1>2, <1>3, <1>4, RowOut DEF QuietFits

LEMMA BeginQuiet ==
  ASSUME ServerInv, ClientInv, BoxInv, NEW s \in Conns,
         StartEpisode(s) \/ StartFails(s) \/ Starts(s) \/ RollsBack(s) \/ RolledBack(s)
  PROVE  QuietFits
<1>1. PICK c \in Connections : c = conn[s] /\ HandlerFits(c)
  BY DEF ServerInv, DataOK
<1>2. c.row = 0
  BY <1>1 DEF StartEpisode, StartFails, Starts, RollsBack, RolledBack, HandlerFits
<1>3. \A t \in Conns \ {s} : conn'[t] = conn[t]
  BY OtherConns DEF Handler
<1>4. AskedStays => WaitsKept
  <2>1. \A i \in Episodes : i # 0
    BY EpisodesAreNumbers
  <2>2. QED
    BY <1>1, <1>2, <1>3, <2>1, RowOut
<1>5. PICK i : i = c.msg.of
  OBVIOUS
<1>6. CASE StartEpisode(s)
  <2>1. i \in Episodes /\ ep[i].stage = "none"
    <3>1. i \in Nat /\ 0 \in Nat
      BY <1>5 DEF Connections, Messages
    <3>2. StartAt(s, 0, i)
      BY <1>1, <1>5, <1>6 DEF StartAt, StartIn, StartEpisode
    <3>3. QED
      BY <3>1, <3>2 DEF ServerInv, StartsFit
  <2>2. PICK e : e = [ep[i] EXCEPT !.stage = "reset", !.current = TRUE, !.conn = s, !.seq = c.msg.seq]
    OBVIOUS
  <2>3. ep' = [ep EXCEPT ![i] = e] \/ UNCHANGED ep
    BY <1>1, <1>5, <1>6, <2>2 DEF StartEpisode
  <2>4. Unseen(ep[i]) /\ ep[i] \in EpisodeRows
    BY <2>1, EachEp DEF BoxInv, BoxFits, OffStage
  <2>5. Unseen(e)
    BY <2>2, <2>4 DEF Unseen, EpisodeRows
  <2>6. AskedStays
    BY <2>1, <2>3, <2>5, OneAsked, AllAsked DEF KeepsAsked
  <2>7. QED
    BY <1>4, <2>6 DEF QuietFits
<1>7. CASE StartFails(s) \/ Starts(s) \/ RollsBack(s) \/ RolledBack(s)
  <2>1. i \in Episodes /\ ep[i].stage = "reset" /\ ep[i] \in EpisodeRows /\ Unseen(ep[i])
    <3>1. i \in Episodes /\ ep[i].stage = "reset"
      BY <1>1, <1>5, <1>7 DEF StartFails, Starts, RollsBack, RolledBack, ServerInv, RowsFit
    <3>2. QED
      BY <3>1, EachEp DEF BoxInv, BoxFits, OffStage
  <2>2. \E e : ep' = [ep EXCEPT ![i] = e] /\ Unseen(e)
    <3>1. CASE StartFails(s)
      <4>1. ep' = [ep EXCEPT ![i] = Released(ep[i])]
        BY <1>1, <1>5, <3>1 DEF StartFails
      <4>2. Unseen(Released(ep[i]))
        BY DEF Released, NewEpisode, Unseen
      <4>3. QED
        BY <4>1, <4>2
    <3>2. CASE Starts(s)
      <4>1. PICK e : e = [ep[i] EXCEPT !.stage = "run", !.host = "soon", !.hook = "reset"]
        OBVIOUS
      <4>2. ep' = [ep EXCEPT ![i] = e]
        BY <1>1, <1>5, <3>2, <4>1 DEF Starts
      <4>3. Unseen(e)
        BY <2>1, <4>1 DEF Unseen, EpisodeRows
      <4>4. QED
        BY <4>2, <4>3
    <3>3. CASE RollsBack(s)
      <4>1. PICK e : e = [ep[i] EXCEPT !.hook = "reset"]
        OBVIOUS
      <4>2. ep' = [ep EXCEPT ![i] = e]
        BY <1>1, <1>5, <3>3, <4>1 DEF RollsBack
      <4>3. Unseen(e)
        BY <2>1, <4>1 DEF Unseen, EpisodeRows
      <4>4. QED
        BY <4>2, <4>3
    <3>4. CASE RolledBack(s)
      <4>1. ep' = [ep EXCEPT ![i] = Released(Finished(ep[i]))]
        BY <1>1, <1>5, <3>4 DEF RolledBack
      <4>2. Unseen(Released(Finished(ep[i])))
        BY DEF Released, NewEpisode, Unseen
      <4>3. QED
        BY <4>1, <4>2
    <3>5. QED
      BY <1>7, <3>1, <3>2, <3>3, <3>4
  <2>3. AskedStays
    BY <2>1, <2>2, OneAsked DEF KeepsAsked
  <2>4. QED
    BY <1>4, <2>3 DEF QuietFits
<1>8. QED
  BY <1>6, <1>7

LEMMA ShutdownQuiet == ASSUME ServerInv, Shutdown \/ Sweeps PROVE QuietFits
<1>1. CASE Shutdown
  BY <1>1, AllAsked, WaitsStay DEF QuietFits, Shutdown
<1>2. CASE Sweeps
  <2>1. ASSUME NEW i \in Episodes PROVE KeepsAsked(ep[i], ep'[i])
    <3>1. ep[i] \in EpisodeRows /\ ep'[i] = IF ep[i].stage = "run" THEN Closed(ep[i]) ELSE ep[i]
      BY <1>2, EachEp DEF Sweeps
    <3>2. KeepsAsked(ep[i], Closed(ep[i])) /\ KeepsAsked(ep[i], ep[i])
      BY <3>1, ClosedCloses, AloneAsked
    <3>3. QED
      BY <3>1, <3>2
  <2>2. QED
    BY <1>2, <2>1, WaitsStay DEF QuietFits, AskedStays, Sweeps
<1>3. QED
  BY <1>1, <1>2

LEMMA MoveLess == ASSUME NEW c, NEW d, Move(c, d) PROVE ObsLess(c, d)
<1>1. ASSUME d.up = c.up PROVE ObsLess(c, d)
  <2>1. 0 \in Nat /\ \A p \in Obs(d) : p + 0 = p
    BY DEF Obs
  <2>2. QED
    BY <1>1, <2>1 DEF ObsLess, Obs
<1>2. ASSUME d.up = <<>> PROVE ObsLess(c, d)
  <2>1. Obs(d) = {} /\ 0 \in Nat
    BY <1>2 DEF Obs
  <2>2. QED
    BY <2>1 DEF ObsLess
<1>3. ASSUME Rest(c, d) PROVE ObsLess(c, d)
  <2>1. \A p \in Obs(d) : p + 1 \in Obs(c) /\ d.up[p] = c.up[p + 1]
    BY <1>3 DEF Rest, Obs
  <2>2. QED
    BY <2>1 DEF ObsLess
<1>4. QED
  BY <1>1, <1>2, <1>3 DEF Move, Marks, Takes, Starting, Goes

LEMMA ServerLess ==
  ASSUME ServerInv, ClientInv, mode = "clocked", Server
  PROVE  \A s \in Conns : ObsLess(conn[s], conn'[s])
BY ServerMoves, MoveLess DEF ConnsMove

LEMMA QuietServer ==
  ASSUME ServerInv, ServerInv', ClientInv, BoxInv, Server, UNCHANGED client, QuietFits
  PROVE  BoxInv'
<1>1. UNCHANGED scenario
  BY ServerFits
<1>2. ASSUME mode = "clocked" PROVE WaitsKept /\ NothingSent(client') /\ \A s \in Conns : ObsLess(conn[s], conn'[s])
  <2>1. Newest(client) \in Nat
    BY ClientTypes, NewestFacts
  <2>2. NothingSent(client')
    BY <2>1 DEF NothingSent
  <2>3. QED
    BY <1>2, <2>2, ServerLess DEF QuietFits
<1>3. QED
  BY <1>1, <1>2, QuietBox DEF QuietFits, AskedStays

-----------------------------------------------------------------------------
(* What asks something of an episode, and what it takes up.                *)

\* Only episode i is changed; the others have the connections they had.
LEMMA OneBox ==
  ASSUME ServerInv, ServerInv', ClientInv, BoxInv, UNCHANGED <<scenario, client>>, NEW i \in Episodes, NEW d,
         ep' = [ep EXCEPT ![i] = d], BoxFits(d),
         mode = "clocked" =>
           /\ Live(d) => PairFits(d, conn'[d.conn])
           /\ \A j \in Episodes \ {i} : Live(ep[j]) => conn'[ep[j].conn] = conn[ep[j].conn]
           /\ \A s \in Conns : ObsLess(conn[s], conn'[s])
           /\ \A l : SeenTill(ep[i], l) /\ (\A s \in Conns : SentTill(conn[s], i, l)) => SeenTill(d, l)
  PROVE  BoxInv'
<1>1. ep'[i] = d /\ \A j \in Episodes \ {i} : ep'[j] = ep[j]
  BY DEF ServerInv, DataOK
<1>2. \A j \in Episodes : BoxFits(ep'[j])
  BY <1>1 DEF BoxInv
<1>3. ASSUME mode = "clocked", NEW j \in Episodes, Live(ep'[j]) PROVE PairFits(ep'[j], conn'[ep'[j].conn])
  <2>1. CASE j = i
    BY <1>1, <1>3, <2>1
  <2>2. CASE j # i
    BY <1>1, <1>3, <2>2 DEF BoxInv
  <2>3. QED
    BY <2>1, <2>2
<1>4. ASSUME mode = "clocked", NEW s \in Conns
      PROVE  OneObs(conn'[s]) /\ \A n, l : SentTill(conn[s], n, l) => SentTill(conn'[s], n, l)
  BY <1>4, ObsFacts DEF BoxInv
<1>5. ASSUME mode = "clocked", client.at \in Busy
      PROVE  SeenTill(ep'[client.n], Newest(client)) /\ \A s \in Conns : SentTill(conn'[s], client.n, Newest(client))
  <2>1. PICK n, l : n \in Episodes /\ n = client.n /\ l = Newest(client)
    BY <1>5, RunsEpisode
  <2>2. SeenTill(ep[n], l) /\ \A s \in Conns : SentTill(conn[s], n, l)
    BY <1>5, <2>1 DEF BoxInv
  <2>3. SeenTill(ep'[n], l)
    BY <1>1, <1>5, <2>2
  <2>4. \A s \in Conns : SentTill(conn'[s], n, l)
    BY <1>4, <1>5, <2>2
  <2>5. QED
    BY <2>1, <2>3, <2>4
<1>6. QED
  BY <1>2, <1>3, <1>4, <1>5, NextBox

\* On a sync clock the observation that is read is the only one there is.
LEMMA TakesObs ==
  ASSUME mode = "clocked", NEW e \in EpisodeRows, ~e.closing, BoxFits(e), NEW c, OneObs(c), PairFits(e, c), 1 \in Obs(c),
         NEW k \in Nat, k = c.up[1].seq, NEW r, Rest(c, r), r.at = "waiting", r.answer = "none", r.msg.seq = k,
         NEW x \in Deliveries, ~x.admitted, x.seq = k,
         NEW d, d.box = e.box, d.held = e.held, d.moving = Append(e.moving, x), d.stage = "run", d.closing = e.closing
  PROVE  BoxFits(d) /\ PairFits(d, r) /\ Seen(d) \subseteq Seen(e) \cup {k}
<1>1. PICK q \in Seq(Deliveries), m \in Seq(Deliveries) : q = e.moving /\ m = d.moving /\ m = Append(q, x)
  <2>1. Append(e.moving, x) \in Seq(Deliveries)
    BY AppendFacts DEF EpisodeRows
  <2>2. QED
    BY <2>1 DEF EpisodeRows
<1>2. /\ Len(q) \in Nat /\ Len(m) = Len(q) + 1 /\ ToSet(m) = ToSet(q) \cup {x}
      /\ \A p \in 1 .. Len(q) : m[p] = q[p]
  BY <1>1, AppendFacts, AppendProperties, LenProperties
<1>3. k \notin e.held /\ e.box = <<>> /\ ~Unadmitted(e)
  BY DEF PairFits, Pending
<1>4. \A p \in 1 .. Len(q) : q[p].admitted
  BY <1>1, <1>3 DEF Unadmitted
<1>5. OneAtMost(d)
  <2>1. \A p \in 1 .. Len(m) - 1 : p \in 1 .. Len(q)
    BY <1>2
  <2>2. \A p \in 1 .. Len(m) - 1 : m[p].admitted
    BY <1>2, <1>4, <2>1
  <2>3. Len(<<>>) = 0
    OBVIOUS
  <2>4. QED
    BY <1>1, <1>3, <2>2, <2>3 DEF OneAtMost
<1>6. BoxFits(d)
  BY <1>5 DEF BoxFits, OffStage
<1>7. Obs(r) = {}
  <2>1. ASSUME NEW p \in Obs(r) PROVE FALSE
    <3>1. p + 1 \in Obs(c) /\ p \in Nat \ {0}
      BY <2>1 DEF Obs, Rest
    <3>2. p + 1 = 1
      BY <3>1 DEF OneObs
    <3>3. QED
      BY <3>1, <3>2
  <2>2. QED
    BY <2>1
<1>8. PairFits(d, r)
  BY <1>3, <1>7 DEF PairFits, StillWaits
<1>9. Seen(d) \subseteq Seen(e) \cup {k}
  BY <1>1, <1>2 DEF Seen
<1>10. QED
  BY <1>6, <1>8, <1>9

LEMMA ObserveBox == ASSUME ServerInv, ServerInv', ClientInv, BoxInv, UNCHANGED client, NEW s \in Conns, Observe(s) PROVE BoxInv'
<1>0. DataOK /\ Server /\ UNCHANGED scenario
  BY DEF ServerInv, Server, Handler, Observe
<1>1. PICK c \in Connections : c = conn[s] /\ ConnOK(c) /\ ConnFits(client, s, c)
  BY EachConn
<1>2. PICK m : m = Head(c.up)
  OBVIOUS
<1>3. c.at = "idle" /\ c.up # <<>> /\ m.type = "obs" /\ c.row # 0 /\ c.answer = "none"
  BY <1>1, <1>2 DEF Observe, Reads, ConnOK, HandlerFits
<1>4. m \in Messages /\ m = c.up[1] /\ 1 \in Obs(c) /\ Tail(c.up) \in Seq(Messages)
  BY <1>0, <1>1, <1>2, <1>3, TakeFacts DEF Obs
<1>5. PICK i \in Episodes : i = c.row /\ ep[i] \in EpisodeRows /\ EpisodeOK(ep[i])
  BY <1>1, <1>3, RowStarted
<1>6. PICK k \in Nat : k = m.seq
  BY <1>4 DEF Messages
<1>7. ep[i].stage = "run" /\ ep[i].conn = s /\ m.of = i
  BY <1>1, <1>3, <1>4, <1>5 DEF ServerInv, RowsFit, Calm, ConnFits, WireFits, Obs
<1>8. PICK r : r = IF mode = "live" THEN Read(c) ELSE ReadWaiting(c)
  OBVIOUS
<1>9. \A t \in Conns \ {s} : conn'[t] = conn[t]
  BY OtherConns DEF Handler
<1>10. \A j \in Episodes \ {i} : Live(ep[j]) => conn'[ep[j].conn] = conn[ep[j].conn]
  <2>1. \A j \in Episodes : Live(ep[j]) => ep[j].conn \in Conns /\ conn[ep[j].conn].row = j
    BY DEF Live, ServerInv, RowsFit, HasRow
  <2>2. QED
    BY <1>1, <1>5, <1>9, <2>1
<1>11. CASE ep[i].failed \/ ep[i].closing
  <2>1. UNCHANGED ep /\ ep[i].closing
    BY <1>1, <1>5, <1>11 DEF Observe, EpisodeOK, EpisodeFits
  <2>2. AskedStays
    BY <2>1, AllAsked
  <2>3. WaitsKept
    BY <1>1, <1>5, <1>9, <2>1, <2>2, RowOut DEF Live
  <2>4. QED
    BY <1>0, <2>2, <2>3, QuietServer DEF QuietFits
<1>12. CASE ~(ep[i].failed \/ ep[i].closing) /\ mode = "clocked"
  <2>1. PICK x : x = [seq |-> k, admitted |-> FALSE, settles |-> 0]
    OBVIOUS
  <2>2. PICK d : d = [ep[i] EXCEPT !.moving = Append(@, x)]
    OBVIOUS
  <2>3. ep' = [ep EXCEPT ![i] = d] /\ conn' = [conn EXCEPT ![s] = r]
    BY <1>1, <1>2, <1>5, <1>6, <1>8, <1>12, <2>1, <2>2 DEF Observe, Read, ReadWaiting
  <2>4. /\ d.box = ep[i].box /\ d.held = ep[i].held /\ d.moving = Append(ep[i].moving, x) /\ d.stage = "run"
        /\ d.closing = ep[i].closing /\ d.conn = s
    BY <1>5, <1>7, <2>2 DEF EpisodeRows
  <2>5. /\ r.up = Tail(c.up) /\ r.at = "waiting" /\ r.msg = m /\ r.answer = "none" /\ r \in Connections /\ conn'[s] = r
    BY <1>0, <1>1, <1>2, <1>3, <1>4, <1>8, <1>12, <2>3 DEF ReadWaiting, Connections, DataOK
  <2>6. Rest(c, r)
    BY <1>1, <1>3, <2>5, RestOfTail
  <2>7. x \in Deliveries /\ ~x.admitted /\ x.seq = k
    BY <2>1 DEF Deliveries
  <2>8. BoxFits(ep[i]) /\ OneObs(c) /\ PairFits(ep[i], c)
    BY <1>1, <1>7, <1>12 DEF BoxInv, Live
  <2>9. BoxFits(d) /\ PairFits(d, r) /\ Seen(d) \subseteq Seen(ep[i]) \cup {k}
    <3>1. PICK e \in EpisodeRows : e = ep[i] /\ ~e.closing /\ BoxFits(e) /\ PairFits(e, c)
      BY <1>5, <1>12, <2>8
    <3>2. /\ d.box = e.box /\ d.held = e.held /\ d.moving = Append(e.moving, x) /\ d.stage = "run"
          /\ d.closing = e.closing
      BY <2>4, <3>1
    <3>3. OneObs(c) /\ 1 \in Obs(c) /\ k = c.up[1].seq /\ mode = "clocked"
      BY <1>4, <1>6, <1>12, <2>8
    <3>4. Rest(c, r) /\ r.at = "waiting" /\ r.answer = "none" /\ r.msg.seq = k
      BY <1>6, <2>5, <2>6
    <3>5. BoxFits(d) /\ PairFits(d, r) /\ Seen(d) \subseteq Seen(e) \cup {k}
      BY <2>7, <3>1, <3>2, <3>3, <3>4, TakesObs
    <3>6. QED
      BY <3>1, <3>5
  <2>10. ASSUME NEW l, SeenTill(ep[i], l), SentTill(c, i, l) PROVE SeenTill(d, l)
    <3>1. k <= l
      BY <1>4, <1>6, <1>7, <2>10 DEF SentTill
    <3>2. QED
      BY <2>4, <2>9, <2>10, <3>1 DEF SeenTill
  <2>11. \A t \in Conns : ObsLess(conn[t], conn'[t])
    BY <1>0, <1>12, ServerLess
  <2>12. QED
    BY <1>0, <1>1, <1>10, <2>3, <2>4, <2>5, <2>9, <2>10, <2>11, OneBox
<1>13. CASE ~(ep[i].failed \/ ep[i].closing) /\ mode # "clocked" /\ Overflows(ep[i])
  <2>1. ep' = [ep EXCEPT ![i] = Failed(@)]
    BY <1>1, <1>2, <1>5, <1>6, <1>13 DEF Observe
  <2>2. KeepsAsked(ep[i], Failed(ep[i]))
    BY <1>5, ClosedCloses DEF KeepsAsked
  <2>3. AskedStays
    BY <2>1, <2>2, OneAsked
  <2>4. QED
    BY <1>0, <1>13, <2>3, QuietServer DEF QuietFits
<1>14. CASE ~(ep[i].failed \/ ep[i].closing) /\ mode # "clocked" /\ ~Overflows(ep[i])
  <2>1. PICK d : d = Put(ep[i], k)
    OBVIOUS
  <2>2. ep' = [ep EXCEPT ![i] = d]
    BY <1>1, <1>2, <1>5, <1>6, <1>14, <2>1 DEF Observe
  <2>3. /\ d.box \in {<<k>>, Append(ep[i].box, k)} /\ (backlog = 0 => d.box = <<k>>) /\ (backlog # 0 => d.box = Append(ep[i].box, k))
        /\ d.moving = ep[i].moving /\ d.stage = "run" /\ d.closing = ep[i].closing
    BY <1>5, <1>7, <2>1 DEF Put, EpisodeRows
  <2>4. backlog \in Nat /\ ep[i].box \in Seq(Nat) /\ Len(ep[i].box) \in Nat
    BY <1>0, <1>5, DaemonsAssumption, LenProperties DEF DataOK, backlog, EpisodeRows
  <2>5. Len(<<k>>) = 1 /\ Len(Append(ep[i].box, k)) = Len(ep[i].box) + 1
    BY <2>4, AppendProperties
  <2>6. Len(d.box) <= BoxBound
    <3>1. CASE backlog = 0
      <4>1. Len(d.box) = 1
        BY <2>3, <2>5, <3>1
      <4>2. BoxBound = 1
        BY <3>1 DEF BoxBound
      <4>3. QED
        BY <4>1, <4>2
    <3>2. CASE backlog # 0
      BY <1>14, <2>3, <2>4, <2>5, <3>2 DEF BoxBound, Overflows
    <3>3. QED
      BY <3>1, <3>2
  <2>7. BoxFits(ep[i])
    BY DEF BoxInv
  <2>8. BoxFits(d)
    BY <1>14, <2>3, <2>6, <2>7 DEF BoxFits, OffStage
  <2>9. QED
    BY <1>0, <1>14, <2>2, <2>8, OneBox
<1>15. QED
  BY <1>11, <1>12, <1>13, <1>14

\* The delivery admits its observation: the mailbox is empty, and it is the only one.
LEMMA AdmitsBox == ASSUME ServerInv, ServerInv', ClientInv, BoxInv, UNCHANGED client, NEW i \in Episodes, Admits(i) PROVE BoxInv'
<1>0. DataOK /\ UNCHANGED <<scenario, conn>> /\ Server
  BY DEF ServerInv, Admits, Server, Delivers
<1>1. ep[i] \in EpisodeRows /\ EpisodeOK(ep[i]) /\ BoxFits(ep[i]) /\ EpisodeFits(ep[i])
  BY EachEp DEF BoxInv, ServerInv
<1>2. PICK q \in Seq(Deliveries) : q = ep[i].moving /\ q # <<>>
  BY <1>1 DEF EpisodeRows, Admits, Moving
<1>3. /\ q[1] \in Deliveries /\ Head(q) = q[1] /\ Len(q) \in Nat \ {0} /\ DOMAIN q = 1 .. Len(q)
      /\ \A x \in Deliveries : [q EXCEPT ![1] = x] \in Seq(Deliveries)
  BY <1>1, <1>2, MovingFacts, TailFacts
<1>4. ~ep[i].closing /\ ~q[1].admitted /\ ep[i].stage \notin OffStage
  BY <1>1, <1>2, <1>3 DEF Admits, EpisodeFits
<1>5. mode = "clocked" /\ OneAtMost(ep[i])
  BY <1>1, <1>2, <1>4 DEF BoxFits
<1>6. Unadmitted(ep[i]) /\ ep[i].box = <<>>
  <2>1. Unadmitted(ep[i])
    BY <1>2, <1>3, <1>4 DEF Unadmitted
  <2>2. QED
    BY <1>5, <2>1 DEF OneAtMost
<1>7. Len(q) = 1
  <2>1. ~(1 \in 1 .. Len(q) - 1)
    BY <1>2, <1>4, <1>5 DEF OneAtMost
  <2>2. QED
    BY <1>3, <2>1
<1>8. PICK k \in Nat : k = q[1].seq
  BY <1>3 DEF Deliveries
<1>9. PICK x : x = [q[1] EXCEPT !.admitted = TRUE]
  OBVIOUS
<1>10. x \in Deliveries /\ x.admitted /\ x.seq = k
  BY <1>3, <1>8, <1>9 DEF Deliveries
<1>11. PICK r \in Seq(Deliveries) : r = [q EXCEPT ![1] = x]
  BY <1>3, <1>10
<1>12. Len(r) = 1 /\ r[1] = x /\ DOMAIN r = {1} /\ DOMAIN q = {1}
  <2>1. DOMAIN r = DOMAIN q /\ DOMAIN q = {1}
    BY <1>3, <1>7, <1>11
  <2>2. Len(r) = 1
    BY <1>7, <1>3, <2>1, LenProperties
  <2>3. QED
    BY <1>11, <2>1, <2>2
<1>13. PICK p : p = Put(ep[i], k)
  OBVIOUS
<1>14. /\ p \in EpisodeRows /\ p.box = <<k>> /\ p.held = ep[i].held /\ p.moving = q /\ p.stage = ep[i].stage
       /\ p.closing = ep[i].closing /\ p.conn = ep[i].conn
  <2>1. Append(<<>>, k) = <<k>>
    OBVIOUS
  <2>2. p \in EpisodeRows
    BY <1>1, <1>4, <1>13, PutOK DEF EpisodeOK
  <2>3. p = [ep[i] EXCEPT !.box = <<k>>]
    BY <1>6, <1>13, <2>1 DEF Put
  <2>4. QED
    BY <1>1, <1>2, <2>2, <2>3 DEF EpisodeRows
<1>15. PICK d : d = [p EXCEPT !.moving = r]
  OBVIOUS
<1>16. /\ d.box = <<k>> /\ d.held = ep[i].held /\ d.moving = r /\ d.stage = ep[i].stage
       /\ d.closing = ep[i].closing /\ d.conn = ep[i].conn
  BY <1>14, <1>15 DEF EpisodeRows
<1>17. ep' = [ep EXCEPT ![i] = d]
  <2>1. ep' = [ep EXCEPT ![i] = [Put(@, Head(@.moving).seq) EXCEPT !.moving[1].admitted = TRUE]]
    BY DEF Admits
  <2>2. [p EXCEPT !.moving[1].admitted = TRUE] = d
    BY <1>3, <1>9, <1>11, <1>14, <1>15
  <2>3. Head(ep[i].moving).seq = k
    BY <1>2, <1>3, <1>8
  <2>4. QED
    BY <1>13, <2>1, <2>2, <2>3
<1>18. BoxFits(d)
  <2>1. Len(<<k>>) = 1
    OBVIOUS
  <2>2. OneAtMost(d)
    <3>1. \A y \in 1 .. Len(r) : y = 1
      BY <1>12
    <3>2. ~Unadmitted(d)
      BY <1>10, <1>12, <1>16, <3>1 DEF Unadmitted
    <3>3. 1 .. Len(r) - 1 = {}
      BY <1>12
    <3>4. Len(d.box) <= 1
      BY <1>16, <2>1
    <3>5. QED
      BY <1>16, <3>2, <3>3, <3>4 DEF OneAtMost
  <2>3. QED
    BY <1>4, <1>5, <1>16, <2>2 DEF BoxFits
<1>19. Seen(d) \subseteq Seen(ep[i])
  <2>1. ToSet(<<k>>) = {k}
    BY DEF ToSet
  <2>2. ToSet(r) = {x} /\ ToSet(q) = {q[1]}
    BY <1>12 DEF ToSet
  <2>3. QED
    BY <1>2, <1>8, <1>10, <1>16, <2>1, <2>2 DEF Seen
<1>20. Live(d) => PairFits(d, conn[d.conn])
  <2>1. Live(d) => PairFits(ep[i], conn[ep[i].conn])
    BY <1>5, <1>16 DEF BoxInv, Live
  <2>2. QED
    BY <1>6, <1>16, <2>1 DEF PairFits, Pending, StillWaits
<1>21. \A l : SeenTill(ep[i], l) => SeenTill(d, l)
  BY <1>16, <1>19 DEF SeenTill
<1>22. \A s \in Conns : ObsLess(conn[s], conn'[s])
  BY <1>0, <1>5, ServerLess
<1>23. QED
  BY <1>0, <1>16, <1>17, <1>18, <1>20, <1>21, <1>22, OneBox

\* The root takes up what was waiting.
LEMMA ReceiveBox == ASSUME ServerInv, ServerInv', ClientInv, BoxInv, UNCHANGED client, NEW i \in Episodes, Receive(i) PROVE BoxInv'
<1>0. DataOK /\ UNCHANGED <<scenario, conn>> /\ Server
  BY DEF ServerInv, Receive, Server, UserCode
<1>1. ep[i] \in EpisodeRows /\ BoxFits(ep[i]) /\ EpisodeFits(ep[i])
  BY EachEp DEF BoxInv, ServerInv
<1>2. PICK q \in Seq(Nat) : q = ep[i].box /\ q # <<>>
  BY <1>1 DEF EpisodeRows, Receive
<1>3. /\ Len(q) \in Nat \ {0} /\ DOMAIN q = 1 .. Len(q) /\ Head(q) = q[1] /\ Tail(q) \in Seq(Nat)
      /\ Len(Tail(q)) = Len(q) - 1 /\ Head(q) \in Nat
      /\ DOMAIN Tail(q) = 1 .. Len(q) - 1 /\ \A p \in 1 .. Len(q) - 1 : Tail(q)[p] = q[p + 1]
  BY <1>2, TailFacts
<1>4. PICK k \in Nat, r \in Seq(Nat) : k = Head(q) /\ r = Tail(q)
  BY <1>3
<1>5. PICK d : d = [ep[i] EXCEPT !.box = r, !.held = @ \cup {k}]
  OBVIOUS
<1>6. /\ d.box = r /\ d.held = ep[i].held \cup {k} /\ d.moving = ep[i].moving /\ d.stage = ep[i].stage
      /\ d.closing = ep[i].closing /\ d.conn = ep[i].conn
  BY <1>1, <1>5 DEF EpisodeRows
<1>7. ep' = [ep EXCEPT ![i] = d]
  BY <1>2, <1>4, <1>5 DEF Receive
<1>8. ep[i].stage \notin OffStage /\ ~ep[i].closing
  BY <1>1, <1>2 DEF BoxFits, Unseen, EpisodeFits
<1>9. CASE mode # "clocked"
  <2>1. Len(q) <= BoxBound /\ BoxBound \in Nat
    BY <1>0, <1>1, <1>2, <1>8, <1>9, BoundIsNumber DEF BoxFits
  <2>2. Len(r) <= BoxBound
    BY <1>3, <1>4, <2>1
  <2>3. BoxFits(d)
    BY <1>1, <1>6, <1>8, <1>9, <2>2 DEF BoxFits
  <2>4. QED
    BY <1>0, <1>7, <1>9, <2>3, OneBox
<1>10. CASE mode = "clocked"
  <2>1. OneAtMost(ep[i]) /\ ~Unadmitted(ep[i])
    BY <1>1, <1>2, <1>8, <1>10 DEF BoxFits, OneAtMost
  <2>2. Len(q) = 1
    BY <1>2, <1>3, <2>1, AtMostOne DEF OneAtMost
  <2>3. r = <<>>
    BY <1>3, <1>4, <2>2, EmptySeq
  <2>4. BoxFits(d)
    <3>1. Len(<<>>) = 0
      OBVIOUS
    <3>2. QED
      BY <1>6, <1>8, <1>10, <2>1, <2>3, <3>1 DEF BoxFits, OneAtMost
  <2>5. Live(d) => PairFits(d, conn[d.conn])
    <3>1. ASSUME Live(d) PROVE Obs(conn[d.conn]) = {}
      <4>1. PairFits(ep[i], conn[ep[i].conn]) /\ Pending(ep[i])
        BY <1>2, <1>6, <1>10, <3>1 DEF BoxInv, Live, Pending
      <4>2. QED
        BY <1>6, <4>1 DEF PairFits
    <3>2. ~Pending(d)
      BY <1>6, <2>1, <2>3 DEF Pending, Unadmitted
    <3>3. QED
      BY <3>1, <3>2 DEF PairFits
  <2>6. Seen(d) \subseteq Seen(ep[i])
    <3>1. ToSet(<<>>) = {} /\ k \in ToSet(q)
      BY <1>3, <1>4 DEF ToSet
    <3>2. QED
      BY <1>2, <1>6, <2>3, <3>1 DEF Seen
  <2>7. \A l : SeenTill(ep[i], l) => SeenTill(d, l)
    BY <1>6, <2>6 DEF SeenTill
  <2>8. \A s \in Conns : ObsLess(conn[s], conn'[s])
    BY <1>0, <1>10, ServerLess
  <2>9. QED
    BY <1>0, <1>6, <1>7, <2>4, <2>5, <2>7, <2>8, OneBox
<1>11. QED
  BY <1>9, <1>10

LEMMA ServerBox == ASSUME ServerInv, ServerInv', ClientInv, BoxInv, Server, UNCHANGED client PROVE BoxInv'
<1>1. ASSUME NEW s \in Conns, Handler(s) PROVE BoxInv'
  <2>1. CASE Observe(s)
    BY <2>1, ObserveBox
  <2>2. CASE ReadStart(s) \/ ReadEnd(s) \/ Leaves(s)
    BY <2>2, LeavingQuiet, QuietServer
  <2>3. CASE StartEpisode(s) \/ StartFails(s) \/ Starts(s) \/ RollsBack(s) \/ RolledBack(s)
    BY <2>3, BeginQuiet, QuietServer
  <2>4. CASE Replies(s) \/ StopsWaiting(s)
    BY <2>4, WaitQuiet, QuietServer
  <2>5. CASE CloseEnded(s) \/ FinishEnded(s) \/ Ended(s)
    BY <2>5, EndedQuiet, QuietServer
  <2>6. QED
    BY <1>1, <2>1, <2>2, <2>3, <2>4, <2>5 DEF Handler
<1>2. ASSUME NEW i \in Episodes, Hosts(i) \/ Delivers(i) PROVE BoxInv'
  <2>1. CASE Hosts(i)
    BY <2>1, HostQuiet, QuietServer
  <2>2. CASE Admits(i)
    BY <2>2, AdmitsBox
  <2>3. CASE Settles(i) \/ Settled(i) \/ StopsMoving(i)
    BY <2>3, DeliveryQuiet, QuietServer
  <2>4. QED
    BY <1>2, <2>1, <2>2, <2>3 DEF Delivers
<1>3. ASSUME NEW i \in Episodes, UserCode(i) PROVE BoxInv'
  <2>1. CASE Receive(i)
    BY <2>1, ReceiveBox
  <2>2. CASE Spawns(i) \/ Visits(i)
    BY <2>2, RootQuiet, QuietServer
  <2>3. CASE \E k \in ep[i].held : Reply(i, k, "action") \/ Reply(i, k, "error")
    BY <2>3, ReplyQuiet, QuietServer
  <2>4. CASE \E t \in Tasks : Finishes(i, t) \/ Raises(i, t) \/ Interrupts(i, t) \/ Calls(i, t) \/ Publishes(i, t)
    BY <2>4, TaskQuiet, QuietServer
  <2>5. QED
    BY <1>3, <2>1, <2>2, <2>3, <2>4 DEF UserCode
<1>4. ASSUME NEW i \in Episodes, NEW t \in Tasks, Cancelled(i, t) \/ CallReturns(i, t) PROVE BoxInv'
  BY <1>4, TaskQuiet, QuietServer
<1>5. CASE Shutdown \/ Sweeps
  BY <1>5, ShutdownQuiet, QuietServer
<1>6. QED
  BY <1>1, <1>2, <1>3, <1>4, <1>5 DEF Server

-----------------------------------------------------------------------------
(* What the client does with its connection.                               *)

\* d is c without some of what was in the socket, or with a message that is no observation.
Alike(c, d) == (d.open => c.open) /\ d.at = c.at /\ d.answer = c.answer /\ d.msg = c.msg /\ ObsLess(c, d)

LEMMA SameObs == ASSUME NEW c, NEW d, d.up = c.up PROVE ObsLess(c, d)
<1>1. 0 \in Nat /\ \A p \in Obs(d) : p + 0 = p
  BY DEF Obs
<1>2. QED
  BY <1>1 DEF ObsLess, Obs

LEMMA TakenAlike == ASSUME NEW c \in Connections PROVE Alike(c, TakenFrom(c))
<1>1. PICK d : d = TakenFrom(c)
  OBVIOUS
<1>2. d.up = c.up /\ d.open = c.open /\ d.at = c.at /\ d.answer = c.answer /\ d.msg = c.msg
  BY <1>1 DEF TakenFrom, Connections
<1>3. QED
  BY <1>1, <1>2, SameObs DEF Alike

\* A message that is no observation is posted.
LEMMA PostedAlike ==
  ASSUME NEW c \in Connections, NEW type, type \in {"start", "end"}, NEW k \in Nat, NEW i \in Nat
  PROVE  Alike(c, Posted(c, type, k, i))
<1>1. PICK d : d = Posted(c, type, k, i)
  OBVIOUS
<1>2. PICK m : m = [type |-> type, seq |-> k, of |-> i]
  OBVIOUS
<1>3. m \in Messages /\ m.type # "obs"
  BY <1>2 DEF Messages
<1>4. Longer(c, m, d)
  BY <1>1, <1>2 DEF Longer, Posted
<1>5. /\ d.open = c.open /\ d.at = c.at /\ d.msg = c.msg /\ Len(c.up) \in Nat /\ Len(d.up) = Len(c.up) + 1
      /\ \A p \in 1 .. Len(c.up) : d.up[p] = c.up[p]
      /\ d.up[Len(c.up) + 1] = m
  BY <1>3, <1>4, AppendUp
<1>6. d.answer = c.answer
  BY <1>1 DEF Posted, Connections
<1>7. \A p \in Obs(d) : p \in Obs(c) /\ d.up[p] = c.up[p] /\ p + 0 = p
  <2>1. \A p \in 1 .. Len(d.up) : p \in 1 .. Len(c.up) \/ p = Len(c.up) + 1
    BY <1>5
  <2>2. QED
    BY <1>3, <1>5, <2>1 DEF Obs
<1>8. ObsLess(c, d)
  BY <1>7 DEF ObsLess
<1>9. QED
  BY <1>1, <1>5, <1>6, <1>8 DEF Alike

LEMMA AlikeTwice == ASSUME NEW c, NEW d, NEW f, Alike(c, d), Alike(d, f) PROVE Alike(c, f)
<1>1. PICK o \in Nat : \A p \in Obs(d) : p + o \in Obs(c) /\ d.up[p] = c.up[p + o]
  BY DEF Alike, ObsLess
<1>2. PICK a \in Nat : \A p \in Obs(f) : p + a \in Obs(d) /\ f.up[p] = d.up[p + a]
  BY DEF Alike, ObsLess
<1>3. \A p \in Obs(f) : p \in Int
  BY DEF Obs
<1>4. \A p \in Obs(f) : p + (a + o) = p + a + o
  BY <1>3
<1>5. a + o \in Nat
  OBVIOUS
<1>6. ObsLess(c, f)
  BY <1>1, <1>2, <1>4, <1>5 DEF ObsLess
<1>7. QED
  BY <1>6 DEF Alike

LEMMA ShutAlike ==
  ASSUME NEW c \in Connections, NEW d, d = [c EXCEPT !.open = FALSE, !.down = <<>>] PROVE Alike(c, d)
<1>1. d.up = c.up /\ ~d.open /\ d.at = c.at /\ d.answer = c.answer /\ d.msg = c.msg
  BY DEF Connections
<1>2. QED
  BY <1>1, SameObs DEF Alike

LEMMA EndPostedAlike ==
  ASSUME DataOK, NEW c \in Connections PROVE Alike(c, EndPosted(c))
<1>1. client.n \in Nat /\ scenario.steps + 1 \in Nat
  BY StepsAreNumbers DEF DataOK, ClientFits, Clients
<1>2. NextSeq(client.n, scenario.steps + 1) \in Nat
  BY <1>1, OursOwn
<1>3. Alike(c, c)
  BY SameObs DEF Alike
<1>4. QED
  BY <1>1, <1>2, <1>3, PostedAlike DEF EndPosted

\* The client leaves its connection much as it was, and has sent nothing new.
LEMMA OwnBox ==
  ASSUME ServerInv, ServerInv', ClientInv, BoxInv, ServerRests,
         mode = "clocked" =>
           /\ NothingSent(client')
           /\ \/ UNCHANGED conn
              \/ \E d : client.sess # 0 /\ conn' = [conn EXCEPT ![client.sess] = d] /\ Alike(conn[client.sess], d)
  PROVE  BoxInv'
<1>1. UNCHANGED <<scenario, ep>> /\ AskedStays
  BY AllAsked DEF ServerRests
<1>2. ASSUME mode = "clocked" PROVE WaitsKept /\ \A s \in Conns : ObsLess(conn[s], conn'[s])
  <2>1. CASE UNCHANGED conn
    BY <2>1, WaitsStay, SameObs
  <2>2. CASE \E d : client.sess # 0 /\ conn' = [conn EXCEPT ![client.sess] = d] /\ Alike(conn[client.sess], d)
    <3>1. PICK s, d : s \in Conns /\ s = client.sess /\ conn' = [conn EXCEPT ![s] = d] /\ Alike(conn[s], d)
      BY <2>2, OwnFacts
    <3>2. WaitsKept
      BY <1>1, <3>1, OneWaits DEF Alike, WaitKept
    <3>3. conn'[s] = d /\ \A t \in Conns \ {s} : conn'[t] = conn[t]
      BY <3>1 DEF ServerInv, DataOK
    <3>4. ASSUME NEW t \in Conns PROVE ObsLess(conn[t], conn'[t])
      <4>1. CASE t = s
        BY <3>1, <3>3, <4>1 DEF Alike
      <4>2. CASE t # s
        BY <3>3, <4>2, SameObs
      <4>3. QED
        BY <4>1, <4>2
    <3>5. QED
      BY <3>2, <3>4
  <2>3. QED
    BY <1>2, <2>1, <2>2
<1>3. QED
  BY <1>1, <1>2, QuietBox DEF AskedStays

LEMMA NotBusy == ASSUME NEW cl, cl.at \notin Busy PROVE NothingSent(cl)
BY DEF NothingSent

LEMMA StartReadBox ==
  ASSUME ServerInv, ServerInv', ClientInv, BoxInv, DropsEarly \/ StartReady \/ StartRefused
  PROVE  BoxInv'
<1>1. client \in Clients /\ DataOK /\ ServerRests /\ client.n \in Nat /\ client.steps \in Nat
  BY ClientTypes DEF DropsEarly, StartReady, StartRefused, Clients
<1>2. Inbox # <<>> /\ Take /\ client.at \in {"starting", "asking"}
  BY DEF DropsEarly, StartReady, StartRefused, Receives
<1>3. client.sess # 0 /\ conn[client.sess] \in Connections
  BY <1>2, InboxFits, OwnFacts
<1>4. PICK d : d = TakenFrom(conn[client.sess])
  OBVIOUS
<1>5. conn' = [conn EXCEPT ![client.sess] = d] /\ Alike(conn[client.sess], d)
  BY <1>2, <1>3, <1>4, TakenAlike DEF Take
<1>6. NothingSent(client')
  <2>1. CASE DropsEarly
    <3>1. client' = client /\ Newest(client) \in Nat
      BY <1>1, <2>1, NewestFacts DEF DropsEarly
    <3>2. QED
      BY <3>1 DEF NothingSent
  <2>2. CASE StartReady
    <3>1. PICK cl : cl = client'
      OBVIOUS
    <3>2. cl.at = "sending" /\ cl.n = client.n /\ cl.steps = client.steps /\ client.at = "starting"
      BY <1>1, <2>2, <3>1 DEF StartReady, Receives, Clients
    <3>3. Newest(client) = NextSeq(client.n, 0)
      BY <3>2 DEF Newest
    <3>4. NextSeq(cl.n, 0) <= Newest(cl)
      BY <1>1, <3>2, NewestFacts
    <3>5. QED
      BY <3>1, <3>2, <3>3, <3>4 DEF NothingSent, Busy
  <2>3. CASE StartRefused
    <3>1. client'.at = "idle"
      BY <1>1, <2>3 DEF StartRefused, Clients
    <3>2. QED
      BY <3>1, NotBusy DEF Busy
  <2>4. QED
    BY <2>1, <2>2, <2>3
<1>7. QED
  BY <1>1, <1>3, <1>5, <1>6, OwnBox

LEMMA GivesUpBox ==
  ASSUME ServerInv, ServerInv', ClientInv, BoxInv, TimesOut \/ LosesConnection \/ ActFails \/ StepFails \/ Stops
  PROVE  BoxInv'
<1>1. client \in Clients /\ DataOK /\ ServerRests
  BY ClientTypes DEF TimesOut, LosesConnection, ActFails, StepFails, Stops
<1>2. NothingSent(client')
  <2>1. client'.at \in {"idle", "done"}
    BY <1>1 DEF TimesOut, EndsAndCloses, LosesConnection, ActFails, StepFails, EndsWith, Stops, Clients
  <2>2. QED
    BY <2>1, NotBusy DEF Busy
<1>3. CASE TimesOut
  <2>1. client.sess # 0 /\ conn[client.sess] \in Connections
    BY <1>3, OwnFacts DEF TimesOut, Connected
  <2>2. PICK c : c = EndPosted(conn[client.sess])
    OBVIOUS
  <2>3. PICK d : d = [c EXCEPT !.open = FALSE, !.down = <<>>]
    OBVIOUS
  <2>4. conn' = [conn EXCEPT ![client.sess] = d]
    BY <1>3, <2>2, <2>3 DEF TimesOut, EndsAndCloses
  <2>5. c \in Connections
    BY <1>1, <2>1, <2>2, OwnFacts, EndPostedFits DEF BaseFits
  <2>6. Alike(conn[client.sess], c) /\ Alike(c, d)
    BY <1>1, <2>1, <2>2, <2>3, <2>5, EndPostedAlike, ShutAlike
  <2>7. Alike(conn[client.sess], d)
    BY <2>6, AlikeTwice
  <2>8. QED
    BY <1>1, <1>2, <2>1, <2>4, <2>7, OwnBox
<1>4. CASE LosesConnection
  BY <1>1, <1>2, <1>4, OwnBox DEF LosesConnection
<1>5. CASE ActFails
  <2>1. client.sess # 0 /\ conn[client.sess] \in Connections /\ TakenFrom(conn[client.sess]) \in Connections
    BY <1>5, InboxFits, OwnFacts DEF ActFails, Receives, BaseFits
  <2>2. PICK c : c = TakenFrom(conn[client.sess])
    OBVIOUS
  <2>3. PICK d : d = EndPosted(c)
    OBVIOUS
  <2>4. conn' = [conn EXCEPT ![client.sess] = d]
    BY <1>5, <2>2, <2>3 DEF ActFails, EndsWith
  <2>5. Alike(conn[client.sess], c) /\ Alike(c, d)
    BY <1>1, <2>1, <2>2, <2>3, TakenAlike, EndPostedAlike
  <2>6. Alike(conn[client.sess], d)
    BY <2>5, AlikeTwice
  <2>7. QED
    BY <1>1, <1>2, <2>1, <2>4, <2>6, OwnBox
<1>6. CASE StepFails
  <2>1. client.sess # 0 /\ conn[client.sess] \in Connections
    BY <1>6, OwnFacts DEF StepFails, Connected
  <2>2. PICK d : d = EndPosted(conn[client.sess])
    OBVIOUS
  <2>3. conn' = [conn EXCEPT ![client.sess] = d] /\ Alike(conn[client.sess], d)
    BY <1>1, <1>6, <2>1, <2>2, EndPostedAlike DEF StepFails, EndsWith
  <2>4. QED
    BY <1>1, <1>2, <2>1, <2>3, OwnBox
<1>7. CASE Stops
  <2>1. CASE Connected
    <3>1. client.sess # 0 /\ conn[client.sess] \in Connections
      BY <2>1, OwnFacts DEF Connected
    <3>2. PICK d : d = [conn[client.sess] EXCEPT !.open = FALSE, !.down = <<>>]
      OBVIOUS
    <3>3. conn' = [conn EXCEPT ![client.sess] = d] /\ Alike(conn[client.sess], d)
      BY <1>7, <2>1, <3>1, <3>2, ShutAlike DEF Stops
    <3>4. QED
      BY <1>1, <1>2, <3>1, <3>3, OwnBox
  <2>2. CASE ~Connected
    BY <1>1, <1>2, <1>7, <2>2, OwnBox DEF Stops
  <2>3. QED
    BY <2>1, <2>2
<1>8. QED
  BY <1>3, <1>4, <1>5, <1>6, <1>7

\* The answer is applied, and the episode goes on or ends.
LEMMA ActsBox ==
  ASSUME ServerInv, ServerInv', ClientInv, SyncInv, BoxInv, Acts \/ Ticks \/ Listens
  PROVE  BoxInv'
<1>1. client \in Clients /\ DataOK /\ ServerRests /\ client.n \in Nat /\ client.steps \in Nat
  BY ClientTypes DEF Acts, Ticks, Listens, Clients
<1>2. CASE mode # "clocked"
  BY <1>1, <1>2, OwnBox
<1>3. CASE mode = "clocked" /\ Acts
  <2>1. /\ client.at = "asking" /\ client.sess # 0 /\ conn[client.sess] \in Connections
        /\ TakenFrom(conn[client.sess]) \in Connections
    BY <1>3, InboxFits, OwnFacts DEF Acts, Receives, BaseFits
  <2>2. PICK c : c = TakenFrom(conn[client.sess])
    OBVIOUS
  <2>3. Alike(conn[client.sess], c) /\ Alike(c, EndPosted(c))
    BY <1>1, <2>1, <2>2, TakenAlike, EndPostedAlike
  <2>4. PICK new : new = [client EXCEPT !.action = Head(Inbox)]
    OBVIOUS
  <2>5. new.n = client.n /\ new.steps = client.steps /\ DOMAIN new = DOMAIN client
    BY <1>1, <2>4 DEF Clients
  <2>6. AfterStep(c, new)
    BY <1>3, <2>2, <2>4 DEF Acts
  <2>7. PICK cl : cl = client'
    OBVIOUS
  <2>8. CASE conn' = [conn EXCEPT ![client.sess] = c] /\ client' = [new EXCEPT !.at = "sending", !.steps = @ + 1]
    <3>1. cl.at = "sending" /\ cl.n = client.n /\ cl.steps = client.steps + 1
      BY <1>1, <2>4, <2>7, <2>8 DEF Clients
    <3>2. Newest(cl) = NextSeq(client.n, client.steps + 1) /\ Newest(client) = NextSeq(client.n, client.steps + 1)
      BY <2>1, <3>1 DEF Newest
    <3>3. Newest(client) \in Nat
      BY <1>1, NewestFacts
    <3>4. NothingSent(client')
      BY <2>1, <2>7, <3>1, <3>2, <3>3 DEF NothingSent, Busy
    <3>5. QED
      BY <1>1, <2>1, <2>3, <2>8, <3>4, OwnBox
  <2>9. CASE /\ conn' = [conn EXCEPT ![client.sess] = EndPosted(c)]
             /\ client' = [new EXCEPT !.at = "idle", !.active = FALSE, !.action = NoMsg]
    <3>1. cl.at = "idle"
      BY <1>1, <2>4, <2>7, <2>9 DEF Clients
    <3>2. NothingSent(client')
      BY <2>7, <3>1, NotBusy DEF Busy
    <3>3. Alike(conn[client.sess], EndPosted(c))
      BY <2>3, AlikeTwice
    <3>4. QED
      BY <1>1, <2>1, <2>9, <3>2, <3>3, OwnBox
  <2>10. QED
    BY <2>6, <2>8, <2>9 DEF AfterStep
<1>4. CASE mode = "clocked" /\ (Ticks \/ Listens)
  BY <1>4 DEF Ticks, Listens, SyncInv
<1>5. QED
  BY <1>2, <1>3, <1>4

LEMMA CutBox == ASSUME ServerInv, ServerInv', ClientInv, BoxInv, Cut PROVE BoxInv'
<1>1. ServerRests /\ UNCHANGED client /\ client.sess # 0 /\ DataOK
  BY ClientTypes DEF Cut, Connected
<1>2. PICK c \in Connections : c = conn[client.sess]
  BY <1>1, OwnFacts
<1>3. PICK m \in 0 .. Len(c.up) :
        conn' = [conn EXCEPT ![client.sess].open = FALSE, ![client.sess].up = SubSeq(@, 1, m), ![client.sess].down = <<>>]
  BY <1>2 DEF Cut
<1>4. PICK u : u = SubSeq(c.up, 1, m)
  OBVIOUS
<1>5. c.up \in Seq(Messages) /\ Len(c.up) \in Nat
  BY LenProperties DEF Connections
<1>6. Len(u) = m /\ \A p \in 1 .. Len(u) : p \in 1 .. Len(c.up) /\ u[p] = c.up[p] /\ p + 0 = p
  <2>1. m \in Nat /\ m <= Len(c.up) /\ \A p \in 1 .. m : p \in 1 .. Len(c.up)
    BY <1>3, <1>5
  <2>2. \A p \in 1 .. Len(c.up) : c.up[p] \in Messages
    BY <1>5, ElementOfSeq
  <2>3. Len(u) = m /\ \A p \in 1 .. m : u[p] = c.up[p]
    BY <1>4, <1>5, <2>1, <2>2
  <2>4. QED
    BY <2>1, <2>3
<1>7. PICK d : d = [c EXCEPT !.open = FALSE, !.up = u, !.down = <<>>]
  OBVIOUS
<1>8. ~d.open /\ d.at = c.at /\ d.answer = c.answer /\ d.msg = c.msg /\ d.up = u
  BY <1>7 DEF Connections
<1>9. conn' = [conn EXCEPT ![client.sess] = d]
  <2>1. conn \in [Conns -> Connections] /\ client.sess \in Conns
    BY <1>1, OwnConnection DEF DataOK
  <2>2. QED
    BY <1>2, <1>3, <1>4, <1>7, <2>1 DEF Connections
<1>10. ObsLess(c, d)
  <2>1. \A p \in Obs(d) : p + 0 \in Obs(c) /\ d.up[p] = c.up[p + 0]
    BY <1>6, <1>8 DEF Obs
  <2>2. QED
    BY <2>1 DEF ObsLess
<1>11. Alike(c, d)
  BY <1>8, <1>10 DEF Alike
<1>12. NothingSent(client')
  <2>1. Newest(client) \in Nat
    BY ClientTypes, NewestFacts
  <2>2. QED
    BY <1>1, <2>1 DEF NothingSent
<1>13. QED
  BY <1>1, <1>2, <1>9, <1>11, <1>12, OwnBox

\* An observation is sent when the one before was answered, and by a number of its own.
LEMMA SendsBox == ASSUME ServerInv, ServerInv', ClientInv, SyncInv, BoxInv, Sends PROVE BoxInv'
<1>1. /\ client \in Clients /\ DataOK /\ client.n \in Nat /\ client.steps \in Nat /\ client.sess # 0
      /\ client.at = "sending" /\ UNCHANGED <<scenario, ep>> /\ ServerRests
  BY ClientTypes DEF Sends, Connected, ServerRests
<1>2. CASE mode # "clocked"
  BY <1>1, <1>2, OwnBox
<1>3. CASE mode = "clocked"
  <2>1. PICK s \in Conns, c \in Connections : s = client.sess /\ c = conn[s] /\ ConnFits(client, s, c) /\ SyncPhase(client, c)
    BY <1>1, <1>3, OwnFacts, OwnSync
  <2>2. c.up = <<>> /\ c.at # "waiting" /\ c.open
    BY <1>1, <2>1 DEF SyncPhase, Sends, Connected
  <2>3. c.row = client.n
    BY <1>1, <2>1, <2>2 DEF ConnFits, WireFits, SteppingFits, Stepping
  <2>4. PICK n \in Episodes : n = client.n
    BY <1>1, RunsEpisode DEF Busy
  <2>5. PICK l \in Nat, k \in Nat : l = NextSeq(n, client.steps) /\ k = NextSeq(n, client.steps + 1) /\ k = l + 1
    <3>1. n \in Nat /\ client.steps + 1 \in Nat
      BY <1>1, <2>4
    <3>2. /\ NextSeq(n, 0) \in Nat /\ NextSeq(n, client.steps) = NextSeq(n, 0) + client.steps
          /\ NextSeq(n, client.steps + 1) = NextSeq(n, 0) + (client.steps + 1)
      BY <1>1, <3>1, Numbering
    <3>3. QED
      BY <1>1, <3>2
  <2>6. PICK m : m = [type |-> "obs", seq |-> k, of |-> n]
    OBVIOUS
  <2>7. m \in Messages /\ m.seq = k
    BY <1>1, <2>4, <2>6 DEF Messages
  <2>8. PICK d : d = [c EXCEPT !.up = Append(@, m)]
    OBVIOUS
  <2>9. Len(d.up) = 1 /\ d.up[1] = m /\ d.at = c.at /\ d.open = c.open
    <3>1. Longer(c, m, d)
      BY <2>8 DEF Longer
    <3>2. /\ d.at = c.at /\ d.open = c.open /\ Len(c.up) \in Nat /\ Len(d.up) = Len(c.up) + 1
          /\ d.up[Len(c.up) + 1] = m
      BY <2>7, <3>1, AppendUp
    <3>3. Len(c.up) = 0
      BY <2>2
    <3>4. QED
      BY <3>2, <3>3
  <2>10. conn' = [conn EXCEPT ![s] = d] /\ conn'[s] = d /\ \A t \in Conns \ {s} : conn'[t] = conn[t]
    <3>1. conn' = [conn EXCEPT ![s] = d]
      BY <2>1, <2>4, <2>5, <2>6, <2>8 DEF Sends, Posted
    <3>2. QED
      BY <1>1, <3>1 DEF DataOK
  <2>11. \A p \in Obs(d) : p = 1 /\ d.up[p].seq = k
    <3>1. \A p \in 1 .. Len(d.up) : p = 1
      BY <2>9
    <3>2. QED
      BY <2>7, <2>9, <3>1 DEF Obs
  <2>12. PICK cl : cl = client'
    OBVIOUS
  <2>13. cl.at = "asking" /\ cl.n = n /\ cl.steps = client.steps
    BY <1>1, <1>3, <2>4, <2>12 DEF Sends, Clients
  <2>14. Newest(client) = l /\ Newest(cl) = k
    BY <1>1, <2>4, <2>5, <2>13 DEF Newest
  <2>15. ep[n] \in EpisodeRows /\ SeenTill(ep[n], l) /\ \A t \in Conns : SentTill(conn[t], n, l)
    BY <1>1, <1>3, <2>4, <2>14, EachEp DEF BoxInv, Busy
  <2>16. \A i \in Episodes : BoxFits(ep'[i])
    BY <1>1 DEF BoxInv
  <2>17. ASSUME NEW i \in Episodes, Live(ep'[i]) PROVE PairFits(ep'[i], conn'[ep'[i].conn])
    <3>1. /\ ep'[i] = ep[i] /\ PairFits(ep[i], conn[ep[i].conn])
          /\ ep[i].conn \in Conns /\ conn[ep[i].conn].row = i
      BY <1>1, <1>3, <2>17 DEF BoxInv, Live, ServerInv, RowsFit, HasRow
    <3>2. CASE ep[i].conn # s
      BY <2>10, <3>1, <3>2
    <3>3. CASE ep[i].conn = s
      <4>1. i = n
        BY <2>1, <2>3, <2>4, <3>1, <3>3
      <4>2. ~Pending(ep[i])
        BY <2>1, <2>2, <3>1, <3>3 DEF PairFits, StillWaits
      <4>3. k \notin ep[i].held
        <5>1. \A h \in ep[i].held : h <= l
          BY <2>15, <2>17, <3>1, <4>1 DEF SeenTill, Seen, Live
        <5>2. ~(k <= l)
          BY <2>5
        <5>3. QED
          BY <5>1, <5>2
      <4>4. PairFits(ep[i], d)
        BY <2>11, <4>2, <4>3 DEF PairFits
      <4>5. QED
        BY <2>10, <3>1, <3>3, <4>4
    <3>4. QED
      BY <3>2, <3>3
  <2>18. ASSUME NEW t \in Conns PROVE OneObs(conn'[t]) /\ SentTill(conn'[t], n, k)
    <3>1. CASE t = s
      <4>1. k <= k
        BY <2>5
      <4>2. OneObs(d) /\ SentTill(d, n, k)
        BY <2>11, <4>1 DEF OneObs, SentTill
      <4>3. QED
        BY <2>10, <3>1, <4>2
    <3>2. CASE t # s
      <4>1. conn'[t] = conn[t] /\ conn[t] \in Connections /\ OneObs(conn[t]) /\ SentTill(conn[t], n, l)
        BY <1>3, <2>10, <2>15, <3>2, EachConn DEF BoxInv
      <4>2. l <= k
        BY <2>5
      <4>3. SentTill(conn[t], n, k)
        BY <2>5, <4>1, <4>2, TillGrows
      <4>4. QED
        BY <4>1, <4>3
    <3>3. QED
      BY <3>1, <3>2
  <2>19. SeenTill(ep'[n], k)
    <3>1. l <= k
      BY <2>5
    <3>2. SeenTill(ep[n], k)
      BY <2>5, <2>15, <3>1, TillGrows
    <3>3. QED
      BY <1>1, <3>2
  <2>20. SeenTill(ep'[client'.n], Newest(client')) /\ \A t \in Conns : SentTill(conn'[t], client'.n, Newest(client'))
    BY <2>12, <2>13, <2>14, <2>18, <2>19
  <2>21. QED
    BY <1>1, <2>16, <2>17, <2>18, <2>20, NextBox
<1>4. QED
  BY <1>2, <1>3

\* Nothing was asked yet of the episode that is started.
LEMMA StartBox == ASSUME ServerInv, ServerInv', ClientInv, BoxInv, Start PROVE BoxInv'
<1>1. client \in Clients /\ DataOK /\ client.n \in Nat /\ UNCHANGED <<scenario, ep>> /\ ServerRests
  BY ClientTypes DEF Start, ServerRests
<1>2. PICK n : n = client.n + 1
  OBVIOUS
<1>3. n \in Episodes /\ n \in Nat /\ n > client.n /\ ep[n].stage = "none"
  BY <1>2, StartsNext
<1>4. PICK s, c : StartsOn(s, c, n)
  BY <1>2, StartIsPosted
<1>5. CASE mode # "clocked"
  BY <1>1, <1>5, OwnBox
<1>6. CASE mode = "clocked"
  <2>1. s \in Conns /\ (c = conn[s] \/ (conn[s] = NewConn /\ c = [NewConn EXCEPT !.open = TRUE, !.at = "idle"]))
    BY <1>4 DEF StartsOn, FitToStart
  <2>2. NextSeq(n, 0) \in Nat
    BY <1>1, <1>3, Numbering
  <2>3. PICK d : d = Posted(c, "start", NextSeq(n, 0), n)
    OBVIOUS
  <2>4. conn'[s] = d /\ \A t \in Conns \ {s} : conn'[t] = [conn[t] EXCEPT !.down = <<>>]
    BY <1>4, <2>1, <2>3 DEF StartsOn, StartPosted
  <2>5. ASSUME NEW t \in Conns, t # s \/ conn[s] = c PROVE Alike(conn[t], conn'[t])
    <3>1. conn[t] \in Connections
      BY <1>1 DEF DataOK
    <3>2. CASE t = s
      BY <1>3, <2>2, <2>3, <2>4, <2>5, <3>1, <3>2, PostedAlike
    <3>3. CASE t # s
      <4>1. PICK b \in Connections : b = conn[t]
        BY <3>1
      <4>2. PICK f : f = [b EXCEPT !.down = <<>>]
        OBVIOUS
      <4>3. f.up = b.up /\ f.open = b.open /\ f.at = b.at /\ f.answer = b.answer /\ f.msg = b.msg
        BY <4>2 DEF Connections
      <4>4. Alike(b, f)
        BY <4>3, SameObs DEF Alike
      <4>5. QED
        BY <2>4, <3>3, <4>1, <4>2, <4>4
    <3>4. QED
      BY <3>2, <3>3
  <2>6. ASSUME conn[s] # c PROVE Obs(conn'[s]) = {} /\ conn[s].row = 0
    <3>1. conn[s].row = 0 /\ c.up = <<>>
      BY <2>1, <2>6 DEF NewConn
    <3>2. PICK m : m = [type |-> "start", seq |-> NextSeq(n, 0), of |-> n]
      OBVIOUS
    <3>3. d.up = <<m>>
      <4>1. c = [open |-> TRUE, up |-> <<>>, down |-> <<>>, at |-> "idle", row |-> 0, msg |-> NoMsg, answer |-> "none"]
        BY <2>1, <2>6 DEF NewConn
      <4>2. Append(<<>>, m) = <<m>>
        OBVIOUS
      <4>3. QED
        BY <2>3, <3>2, <4>1, <4>2 DEF Posted
    <3>4. \A p \in 1 .. Len(d.up) : d.up[p] = m
      BY <3>3
    <3>5. QED
      BY <2>4, <3>1, <3>2, <3>4 DEF Obs
  <2>7. ASSUME NEW t \in Conns PROVE ObsLess(conn[t], conn'[t])
    <3>1. CASE t # s \/ conn[s] = c
      BY <2>5, <3>1 DEF Alike
    <3>2. CASE t = s /\ conn[s] # c
      BY <2>6, <3>2 DEF ObsLess
    <3>3. QED
      BY <3>1, <3>2
  <2>8. ASSUME NEW i \in Episodes, Live(ep'[i]) PROVE PairFits(ep'[i], conn'[ep'[i].conn])
    <3>1. PICK e \in EpisodeRows, t \in Conns :
            e = ep[i] /\ ep'[i] = e /\ t = e.conn /\ PairFits(e, conn[t]) /\ conn[t].row = i
      BY <1>1, <1>6, <2>8, EachEp DEF BoxInv, Live, ServerInv, RowsFit, HasRow
    <3>2. i # 0
      BY EpisodesAreNumbers
    <3>3. Alike(conn[t], conn'[t])
      BY <2>5, <2>6, <3>1, <3>2
    <3>4. WaitKept(conn[t], conn'[t]) /\ ObsLess(conn[t], conn'[t])
      BY <3>3 DEF Alike, WaitKept
    <3>5. SameAsked(e, e)
      BY <2>8, <3>1, SelfShorter DEF SameAsked, Live
    <3>6. PairFits(e, conn'[t])
      BY <3>1, <3>4, <3>5, KeepsPair
    <3>7. QED
      BY <3>1, <3>6
  <2>9. PICK cl : cl = client'
    OBVIOUS
  <2>10. cl.n = n
    BY <1>1, <1>4, <2>9 DEF StartsOn, Clients
  <2>11. SeenTill(ep'[n], Newest(cl))
    <3>1. Unseen(ep[n])
      BY <1>3 DEF BoxInv, BoxFits, OffStage
    <3>2. QED
      BY <1>1, <3>1, UnseenFacts DEF SeenTill
  <2>12. ASSUME NEW t \in Conns PROVE OneObs(conn'[t]) /\ SentTill(conn'[t], n, Newest(cl))
    <3>1. PICK b \in Connections : b = conn[t] /\ ConnFits(client, t, b) /\ OneObs(b)
      BY <1>6, EachConn DEF BoxInv
    <3>2. ObsLess(b, conn'[t])
      BY <2>7, <3>1
    <3>3. ASSUME NEW p \in Obs(b) PROVE b.up[p].of # n
      <4>1. b.up \in Seq(Messages) /\ p \in 1 .. Len(b.up) /\ DOMAIN b.up = 1 .. Len(b.up)
        BY <3>3, LenProperties DEF Obs, Connections
      <4>2. b.up[p] \in Messages /\ b.up[p] \in Wire(b)
        BY <4>1, ElementOfSeq DEF Wire, ToSet
      <4>3. b.up[p].of <= client.n /\ b.up[p].of \in Nat
        BY <3>1, <4>2 DEF ConnFits, Numbered, Messages
      <4>4. QED
        BY <1>1, <1>3, <4>3
    <3>4. SentTill(b, n, Newest(cl))
      BY <3>3 DEF SentTill
    <3>5. QED
      BY <3>1, <3>2, <3>4, ObsFacts
  <2>13. \A i \in Episodes : BoxFits(ep'[i])
    BY <1>1 DEF BoxInv
  <2>14. SeenTill(ep'[client'.n], Newest(client')) /\ \A t \in Conns : SentTill(conn'[t], client'.n, Newest(client'))
    BY <2>9, <2>10, <2>11, <2>12
  <2>15. QED
    BY <1>1, <2>8, <2>12, <2>13, <2>14, NextBox
<1>7. QED
  BY <1>5, <1>6

-----------------------------------------------------------------------------
(* The mailbox keeps its bound.                                            *)

LEMMA BoxInvStep ==
  ASSUME ServerInv, ServerInv', ClientInv, SyncInv, BoxInv, [Next]_vars PROVE BoxInv'
<1>1. CASE Client
  <2>1. CASE Start
    BY <2>1, StartBox
  <2>2. CASE DropsEarly \/ StartReady \/ StartRefused
    BY <2>2, StartReadBox
  <2>3. CASE TimesOut \/ LosesConnection \/ ActFails \/ StepFails \/ Stops
    BY <2>3, GivesUpBox
  <2>4. CASE Sends
    BY <2>4, SendsBox
  <2>5. CASE Acts \/ Ticks \/ Listens
    BY <2>5, ActsBox
  <2>6. QED
    BY <1>1, <2>1, <2>2, <2>3, <2>4, <2>5 DEF Client
<1>2. CASE Cut
  BY <1>2, CutBox
<1>3. CASE Server /\ UNCHANGED client
  BY <1>3, ServerBox
<1>4. CASE UNCHANGED vars
  <2>1. UNCHANGED <<scenario, conn, ep, client>> /\ ServerRests
    BY <1>4 DEF vars, daemonVars, ServerRests
  <2>2. NothingSent(client')
    <3>1. Newest(client) \in Nat
      BY ClientTypes, NewestFacts
    <3>2. QED
      BY <2>1, <3>1 DEF NothingSent
  <2>3. QED
    BY <2>1, <2>2, OwnBox
<1>5. QED
  BY <1>1, <1>2, <1>3, <1>4 DEF Next

LEMMA BoxInvInit == Init => BoxInv
<1> SUFFICES ASSUME Init PROVE BoxInv
  OBVIOUS
<1>1. DataOK
  BY ServerInvInit DEF ServerInv
<1>2. \A i \in Episodes : ep[i] = NewEpisode
  BY DEF Init, DaemonsInit
<1>3. Unseen(NewEpisode) /\ ~Live(NewEpisode)
  BY DEF NewEpisode, Unseen, Live
<1>4. BoxFits(NewEpisode)
  BY <1>1, <1>3, UnseenFacts
<1>5. \A s \in Conns : Obs(conn[s]) = {}
  <2>1. NewConn.up = <<>> /\ Len(<<>>) = 0
    BY DEF NewConn
  <2>2. QED
    BY <2>1 DEF Init, DaemonsInit, Obs
<1>6. client.at \notin Busy
  BY DEF Init, ClientInit, Busy
<1>7. QED
  BY <1>2, <1>3, <1>4, <1>5, <1>6 DEF BoxInv, OneObs

\* On a sync clock an episode has one observation at most that its root has not
\* received, the one its client waits for (Connection.act, _observe, _deliver).
THEOREM OneObservationAtATime == Spec => []BoxInv
<1>1. Init => BoxInv
  BY BoxInvInit
<1>2. ServerInv /\ ServerInv' /\ ClientInv /\ SyncInv /\ BoxInv /\ [Next]_vars => BoxInv'
  BY BoxInvStep
<1>3. QED
  BY <1>1, <1>2, ClientInvariant, OneAnswerAtATime, PTL DEF Spec

LEMMA BoxBounded ==
  ASSUME ServerInv, BoxInv, NEW i \in Episodes
  PROVE  Len(ep[i].box) <= IF backlog = 0 THEN 1 ELSE backlog
<1>1. ep[i] \in EpisodeRows /\ EpisodeFits(ep[i]) /\ BoxFits(ep[i])
  BY EachEp DEF ServerInv, BoxInv
<1>2. PICK b \in Nat \ {0} : b = BoxBound
  BY BoundIsNumber DEF ServerInv
<1>3. PICK l \in Nat : l = Len(ep[i].box)
  BY <1>1, LenProperties DEF EpisodeRows
<1>4. l <= b
  <2>1. CASE ep[i].closing
    <3>1. l = 0
      BY <1>1, <1>3, <2>1 DEF EpisodeFits
    <3>2. QED
      BY <1>2, <3>1
  <2>2. CASE ~ep[i].closing
    <3>1. l <= 1 \/ l <= b
      BY <1>1, <1>2, <1>3, <2>2 DEF BoxFits, OneAtMost
    <3>2. QED
      BY <1>2, <1>3, <3>1
  <2>3. QED
    BY <2>1, <2>2
<1>5. QED
  BY <1>2, <1>3, <1>4 DEF BoxBound

LEMMA TypesSay == ASSUME ServerInv, BoxInv PROVE TypeOK
<1>1. DataOK
  BY DEF ServerInv
<1>2. ASSUME NEW s \in Conns
      PROVE  LET c == conn[s] IN
             /\ c.open \in BOOLEAN /\ c.row \in {0} \cup Episodes /\ c.answer \in {"none", "action", "error"}
             /\ c.at \in {"idle", "restarting", "starting", "rolling", "waiting", "ending", "leaving", "over"}
             /\ {c.msg} \cup ToSet(c.up) \cup ToSet(c.down) \subseteq Messages
  <2>1. PICK c \in Connections : c = conn[s]
    BY <1>1 DEF DataOK
  <2>2. ToSet(c.up) \subseteq Messages /\ ToSet(c.down) \subseteq Messages
    BY SetOf DEF Connections
  <2>3. QED
    BY <2>1, <2>2 DEF Connections
<1>3. ASSUME NEW i \in Episodes
      PROVE  LET e == ep[i] IN
             /\ e.stage \in {"none", "reset", "run", "end", "closed", "finish", "over"}
             /\ e.host \in {"none", "soon", "up", "drain", "exited"}
             /\ \A t \in Tasks : e.task[t] \in {"off", "ready", "call"}
             /\ Len(e.box) <= IF backlog = 0 THEN 1 ELSE backlog
  <2>1. PICK e \in EpisodeRows : e = ep[i]
    BY <1>1 DEF DataOK
  <2>2. QED
    BY <2>1, BoxBounded DEF EpisodeRows
<1>4. ToSet(jobs) \subseteq Jobs
  BY <1>1, SetOf DEF DataOK
<1>5. /\ client.at \in {"idle", "starting", "sending", "asking", "acting", "done"}
      /\ {client.latest, client.action} \subseteq Messages
  BY ClientTypes DEF Clients
<1>6. QED
  BY <1>1, <1>2, <1>3, <1>4, <1>5 DEF TypeOK, DataOK

\* Every variable has the values the code gives it, and no mailbox outgrows its
\* bound: on a sync clock because its client waits for each answer, otherwise
\* because put keeps the newest only, or fails the episode of a full FIFO (put,
\* on_observation, _deliver).
THEOREM TypeCorrect == Spec => []TypeOK
BY ClientInvariant, OneObservationAtATime, TypesSay, PTL

=============================================================================

-------------------------- MODULE EpisodeProtocol_proofs --------------------------
(***************************************************************************)
(* Proofs about the server half of EpisodeProtocol, for any connections,   *)
(* episodes, bounds and scenarios.                                         *)
(***************************************************************************)
EXTENDS EpisodeProtocol, SequenceTheorems, FiniteSetTheorems, TLAPS

-----------------------------------------------------------------------------
(* The inductive invariant.                                                *)

Deliveries == [seq : Nat, admitted : BOOLEAN, settles : Nat]

EpisodeRows ==
  [stage : {"none", "reset", "run", "end", "closed", "finish", "over"}, conn : {0} \cup Conns, seq : Nat,
   current : BOOLEAN, failed : BOOLEAN, sink : {"none", "due", "sent"}, hook : {"none", "reset", "finished"},
   closing : BOOLEAN, control : BOOLEAN, host : {"none", "soon", "up", "drain", "exited"},
   task : [Tasks -> {"off", "ready", "call"}], box : Seq(Nat), held : SUBSET Nat, moving : Seq(Deliveries),
   fresh : BOOLEAN, published : Nat]

Connections ==
  [open : BOOLEAN, up : Seq(Messages), down : Seq(Messages),
   at : {"idle", "restarting", "starting", "rolling", "waiting", "ending", "leaving", "over"},
   row : {0} \cup Episodes, msg : Messages, answer : {"none", "action", "error"}]

Clients ==
  [at : {"idle", "starting", "sending", "asking", "acting", "done"}, n : Nat, sess : {0} \cup Conns,
   epseq : Nat, active : BOOLEAN, actseq : Nat, steps : Nat, latest : Messages, fresh : BOOLEAN,
   action : Messages, blame : Nat]

\* The client numbers its episodes, and has a connection while it runs one.
ClientFits ==
  /\ client \in Clients /\ client.n <= scenario.episodes
  /\ client.at \notin {"idle", "done"} => client.sess # 0
  /\ \A s \in Conns : s > client.sess => conn[s] = NewConn

DataOK ==
  /\ scenario \in Scenarios /\ serve \in {"up", "cancelled", "stopping"}
  /\ conn \in [Conns -> Connections] /\ ep \in [Episodes -> EpisodeRows] /\ jobs \in Seq(Jobs)
  /\ ClientFits

OffStage == {"none", "reset", "over"}
HasRow   == {"run", "end", "closed", "finish"}

\* One episode: where its row, its host and its tasks stand fit each other.
EpisodeFits(e) ==
  /\ e.stage \in OffStage =>
       e.host = "none" /\ ~e.closing /\ ~e.failed /\ e.moving = <<>> /\ \A t \in Tasks : e.task[t] = "off"
  /\ e.stage = "none" => e.hook = "none"
  /\ e.stage = "reset" => e.hook \in {"none", "reset"}
  /\ e.stage \in HasRow => e.hook = "reset" /\ e.host # "none"
  /\ e.stage = "over" => e.hook \in {"none", "finished"}
  /\ e.stage \in {"closed", "finish"} => e.closing
  /\ e.stage = "finish" => e.host = "exited"
  /\ e.host # "up" => e.task["root"] = "off" /\ e.task["child"] = "off"
  /\ e.host \in {"drain", "exited"} => e.closing
  /\ e.host = "exited" => e.task["guest"] # "call"
  /\ e.closing => e.box = <<>>
  /\ e.failed => e.closing
  /\ e.stage = "run" /\ e.host = "up" /\ ~e.closing => e.task["root"] # "off" \/ e.task["child"] # "off"

\* One connection: what its handler does fits whether it has a row.
Calm == {"idle", "waiting", "over"}

HandlerFits(c) ==
  /\ c.at \in {"starting", "rolling", "over"} => c.row = 0
  /\ c.at \in {"ending", "leaving", "waiting"} => c.row # 0
  /\ c.answer # "none" => c.at = "waiting"

\* A row belongs to one connection, and a reset to the handler that waits for it.
RowsFit ==
  /\ \A s \in Conns : conn[s].row # 0 =>
       /\ ep[conn[s].row].conn = s
       /\ ep[conn[s].row].stage \in IF conn[s].at \in Calm THEN {"run"} ELSE {"end", "closed", "finish"}
  /\ \A i \in Episodes : ep[i].stage \in HasRow => ep[i].conn \in Conns /\ conn[ep[i].conn].row = i
  /\ \A s \in Conns : conn[s].at \in {"starting", "rolling"} =>
       /\ conn[s].msg.of \in Episodes /\ ep[conn[s].msg.of].conn = s
       /\ ep[conn[s].msg.of].stage = "reset"
       /\ ep[conn[s].msg.of].hook = IF conn[s].at = "starting" THEN "none" ELSE "reset"
  /\ \A i \in Episodes : ep[i].stage = "reset" =>
       /\ ep[i].conn \in Conns
       /\ conn[ep[i].conn].at \in {"starting", "rolling"} /\ conn[ep[i].conn].msg.of = i

\* A call is on the model thread exactly while somebody waits for it.
Awaits(e, fn, t) ==
  \/ fn = "call" /\ t \in Tasks /\ e.task[t] = "call"
  \/ fn = "reset" /\ t = "none" /\ e.stage = "reset" /\ e.hook = "none"
  \/ fn = "finish" /\ t = "none" /\ (e.stage = "finish" \/ (e.stage = "reset" /\ e.hook = "reset"))

Once(q) == \A p, r \in DOMAIN q : q[p] = q[r] => p = r

JobsFit ==
  /\ Once(jobs)
  /\ \A f \in Jobs : f \in ToSet(jobs) <=> Awaits(ep[f.of], f.fn, f.task)

\* A connection is to start episode i: it is the message at hand (p = 0), or one
\* of those that wait to be read.
StartIn(c, p, i) ==
  \/ p = 0 /\ c.at = "restarting" /\ c.msg.of = i
  \/ p \in 1 .. Len(c.up) /\ c.up[p].type = "start" /\ c.up[p].of = i

StartAt(s, p, i) == StartIn(conn[s], p, i)

\* An episode is started once.
StartsFit ==
  /\ \A s \in Conns, p, i \in Nat : StartAt(s, p, i) => i \in Episodes /\ i <= client.n /\ ep[i].stage = "none"
  /\ \A s, t \in Conns, p, q, i \in Nat : StartAt(s, p, i) /\ StartAt(t, q, i) => s = t /\ p = q
  /\ \A i \in Episodes : i > client.n => ep[i].stage = "none"

ServerInv ==
  /\ DataOK
  /\ \A i \in Episodes : EpisodeFits(ep[i])
  /\ \A s \in Conns : HandlerFits(conn[s])
  /\ RowsFit /\ JobsFit /\ StartsFit

-----------------------------------------------------------------------------
(* Sequences.                                                              *)

LEMMA AppendFacts ==
  ASSUME NEW S, NEW q \in Seq(S), NEW x \in S
  PROVE  /\ Append(q, x) \in Seq(S)
         /\ ToSet(Append(q, x)) = ToSet(q) \cup {x}
         /\ Once(q) /\ x \notin ToSet(q) => Once(Append(q, x))
<1>1. /\ Append(q, x) \in Seq(S) /\ Len(q) \in Nat /\ DOMAIN q = 1 .. Len(q)
      /\ DOMAIN Append(q, x) = 1 .. Len(q) + 1
      /\ \A p \in 1 .. Len(q) : Append(q, x)[p] = q[p]
      /\ Append(q, x)[Len(q) + 1] = x
  BY AppendProperties, LenProperties
<1>2. \A p \in 1 .. Len(q) + 1 : p \in 1 .. Len(q) \/ p = Len(q) + 1
  BY <1>1
<1>3. ToSet(Append(q, x)) = ToSet(q) \cup {x}
  BY <1>1, <1>2 DEF ToSet
<1>4. QED
  BY <1>1, <1>2, <1>3 DEF ToSet, Once

LEMMA TailFacts ==
  ASSUME NEW S, NEW q \in Seq(S), q # <<>>
  PROVE  /\ Tail(q) \in Seq(S) /\ Head(q) \in S
         /\ Len(q) \in Nat \ {0} /\ DOMAIN q = 1 .. Len(q) /\ Head(q) = q[1]
         /\ DOMAIN Tail(q) = 1 .. Len(q) - 1 /\ Len(Tail(q)) = Len(q) - 1
         /\ \A p \in 1 .. Len(q) - 1 : Tail(q)[p] = q[p + 1]
<1>1. Len(q) \in Nat \ {0} /\ DOMAIN q = 1 .. Len(q) /\ Head(q) = q[1] /\ Head(q) \in S
  BY EmptySeq, LenProperties, HeadTailProperties
<1>2. /\ Tail(q) \in Seq(S) /\ Len(Tail(q)) = Len(q) - 1
      /\ \A p \in 1 .. Len(Tail(q)) : Tail(q)[p] = q[p + 1]
  BY HeadTailProperties
<1>3. DOMAIN Tail(q) = 1 .. Len(Tail(q))
  BY <1>2, LenProperties
<1>4. QED
  BY <1>1, <1>2, <1>3

LEMMA TailOnce ==
  ASSUME NEW S, NEW q \in Seq(S), q # <<>>, Once(q)
  PROVE  /\ ToSet(Tail(q)) = ToSet(q) \ {Head(q)} /\ Head(q) \in ToSet(q)
         /\ Once(Tail(q))
<1>1. /\ Len(q) \in Nat \ {0} /\ DOMAIN q = 1 .. Len(q) /\ Head(q) = q[1]
      /\ DOMAIN Tail(q) = 1 .. Len(q) - 1
      /\ \A p \in 1 .. Len(q) - 1 : Tail(q)[p] = q[p + 1]
  BY TailFacts
<1>2. \A p \in 1 .. Len(q) : p = 1 \/ (p - 1 \in 1 .. Len(q) - 1 /\ (p - 1) + 1 = p)
  BY <1>1
<1>3. \A p \in 1 .. Len(q) - 1 : p + 1 \in 1 .. Len(q) /\ p + 1 # 1
  BY <1>1
<1>4. 1 \in DOMAIN q
  BY <1>1
<1>5. ASSUME NEW x PROVE x \in ToSet(Tail(q)) <=> x \in ToSet(q) \ {Head(q)}
  <2>1. ASSUME x \in ToSet(Tail(q)) PROVE x \in ToSet(q) \ {Head(q)}
    <3>1. PICK p \in 1 .. Len(q) - 1 : x = q[p + 1]
      BY <1>1, <2>1 DEF ToSet
    <3>2. QED
      BY <1>1, <1>3, <1>4, <3>1 DEF ToSet, Once
  <2>2. ASSUME x \in ToSet(q), x # Head(q) PROVE x \in ToSet(Tail(q))
    <3>1. PICK p \in 1 .. Len(q) : x = q[p]
      BY <1>1, <2>2 DEF ToSet
    <3>2. p - 1 \in 1 .. Len(q) - 1 /\ Tail(q)[p - 1] = x
      BY <1>1, <1>2, <2>2, <3>1
    <3>3. QED
      BY <1>1, <3>2 DEF ToSet
  <2>3. QED
    BY <2>1, <2>2
<1>6. Once(Tail(q))
  BY <1>1, <1>3 DEF Once
<1>7. QED
  BY <1>1, <1>4, <1>5, <1>6 DEF ToSet

\* No type says more than its range.
LEMMA SetOf ==
  ASSUME NEW S, NEW q \in Seq(S) PROVE ToSet(q) \subseteq S
BY LenProperties DEF ToSet

-----------------------------------------------------------------------------
(* What the steps of an episode leave.                                     *)

EpisodeOK(e) == e \in EpisodeRows /\ EpisodeFits(e)

SameRow(e, d) == d.stage = e.stage /\ d.conn = e.conn /\ d.hook = e.hook

\* It may end here: its row is on stage.
OnStage(e) == e.stage \in {"run", "end", "closed", "finish"}

LEMMA RunningIsOnStage ==
  ASSUME NEW e, EpisodeOK(e), e.host # "none" \/ e.closing \/ e.moving # <<>> \/ \E t \in Tasks : e.task[t] # "off"
  PROVE  OnStage(e)
BY DEF EpisodeOK, EpisodeRows, EpisodeFits, OnStage, OffStage

LEMMA ClosedOK ==
  ASSUME NEW e, EpisodeOK(e), OnStage(e)
  PROVE  EpisodeOK(Closed(e)) /\ SameRow(e, Closed(e)) /\ Closed(e).task = e.task
<1>1. <<>> \in Seq(Nat)
  OBVIOUS
<1>2. QED
  BY <1>1 DEF EpisodeOK, EpisodeRows, EpisodeFits, Closed, SameRow, OnStage, OffStage, HasRow

LEMMA FailedOK ==
  ASSUME NEW e, EpisodeOK(e), OnStage(e)
  PROVE  EpisodeOK(Failed(e)) /\ SameRow(e, Failed(e)) /\ Failed(e).task = e.task
<1>1. <<>> \in Seq(Nat)
  OBVIOUS
<1>2. QED
  BY ZenonT(20), <1>1 DEF EpisodeOK, EpisodeRows, EpisodeFits, Closed, Failed, SameRow, OnStage, OffStage, HasRow

\* A task that goes.
LEMMA GoneOK ==
  ASSUME NEW e, EpisodeOK(e), NEW t \in Tasks, e.task[t] # "off"
  PROVE  /\ EpisodeOK(Gone(e, t)) /\ SameRow(e, Gone(e, t))
         /\ Gone(e, t).task = [e.task EXCEPT ![t] = "off"]
<1>1. <<>> \in Seq(Nat) /\ OnStage(e)
  BY RunningIsOnStage
<1>2. Gone(e, t) \in EpisodeRows /\ SameRow(e, Gone(e, t)) /\ Gone(e, t).task = [e.task EXCEPT ![t] = "off"]
  BY ZenonT(20), <1>1 DEF EpisodeOK, EpisodeRows, Gone, Closed, Failed, SameRow, Tasks
<1>3. EpisodeFits(Gone(e, t))
  BY <1>1 DEF EpisodeOK, EpisodeRows, EpisodeFits, Gone, Closed, Failed, Tasks, OnStage, OffStage, HasRow
<1>4. QED
  BY <1>2, <1>3 DEF EpisodeOK

-----------------------------------------------------------------------------
(* What the steps of a connection leave.                                   *)

ConnOK(c) == c \in Connections /\ HandlerFits(c)

\* The handler has the row it had, and is as far, unless it is calm before and after.
SameHandler(c, d) ==
  /\ d.row = c.row
  /\ \/ d.at = c.at /\ d.msg = c.msg
     \/ c.at \in Calm /\ d.at \in Calm

LEMMA EpisodesAreNumbers ==
  /\ Episodes \subseteq Nat \ {0} /\ Conns \subseteq Nat \ {0}
  /\ \A i \in Episodes, n \in Nat \ {0} : n <= i => n \in Episodes
  /\ \A s \in Nat \ {0} : s <= Cardinality(Conns) => s \in Conns
<1>1. Cardinality(Episodes) \in Nat /\ Cardinality(Conns) \in Nat
  BY DaemonsAssumption, FS_CardinalityType
<1>2. QED
  BY <1>1, DaemonsAssumption

LEMMA SentOK ==
  ASSUME NEW c, ConnOK(c), NEW type, type \in {"ready", "action", "error", "publish", "episode_error"},
         NEW k \in Nat, NEW i \in Nat
  PROVE  LET d == Sent(c, type, k, i) IN
         /\ ConnOK(d) /\ d.up = c.up /\ d.at = c.at /\ d.row = c.row /\ d.msg = c.msg
         /\ d.answer = c.answer /\ d.open = c.open /\ (c = NewConn => d = NewConn)
<1>1. [type |-> type, seq |-> k, of |-> i] \in Messages
  BY DEF Messages
<1>2. Append(c.down, [type |-> type, seq |-> k, of |-> i]) \in Seq(Messages)
  BY <1>1, AppendFacts DEF ConnOK, Connections
<1>3. c = NewConn => ~c.open
  BY DEF NewConn
<1>4. QED
  BY <1>2, <1>3 DEF Sent, ConnOK, Connections, HandlerFits

LEMMA SweptOK ==
  ASSUME NEW c, ConnOK(c)
  PROVE  LET d == Swept(c) IN
         /\ ConnOK(d) /\ d.up = c.up /\ d.at = c.at /\ d.row = c.row /\ d.msg = c.msg /\ d.open = c.open
         /\ c = NewConn => d = NewConn
<1>1. c = NewConn => c.at # "waiting"
  BY DEF NewConn
<1>2. QED
  BY <1>1 DEF Swept, ConnOK, Connections, HandlerFits

LEMMA AnsweredOK ==
  ASSUME NEW c, ConnOK(c), NEW i \in Nat, NEW k \in Nat, NEW type, type \in {"action", "error"}
  PROVE  LET d == Answered(c, i, k, type) IN
         /\ ConnOK(d) /\ d.up = c.up /\ d.at = c.at /\ d.row = c.row /\ d.msg = c.msg /\ d.open = c.open
         /\ c = NewConn => d = NewConn
<1>1. CASE mode = "live"
  BY <1>1, SentOK DEF Answered
<1>2. CASE mode # "live"
  <2>1. c = NewConn => c.at # "waiting"
    BY DEF NewConn
  <2>2. QED
    BY <1>2, <2>1 DEF Answered, ConnOK, Connections, HandlerFits
<1>3. QED
  BY <1>1, <1>2

-----------------------------------------------------------------------------
(* Steps that move no row: what they touch still fits.                     *)

AllFit == (\A i \in Episodes : EpisodeFits(ep[i])) /\ (\A s \in Conns : HandlerFits(conn[s]))

EpQuiet ==
  ep' \in [Episodes -> EpisodeRows] /\ \A i \in Episodes : EpisodeFits(ep'[i]) /\ SameRow(ep[i], ep'[i])

ConnQuiet ==
  /\ conn' \in [Conns -> Connections]
  /\ \A s \in Conns : HandlerFits(conn'[s]) /\ SameHandler(conn[s], conn'[s])

\* What waits to be read stays, and a connection not yet made stays so.
UpStays ==
  \A s \in Conns : conn'[s].up = conn[s].up /\ (conn[s] = NewConn => conn'[s] = NewConn)

LEMMA EpTouch ==
  ASSUME DataOK, AllFit, NEW i \in Episodes, NEW e, ep' = [ep EXCEPT ![i] = e],
         EpisodeOK(e), SameRow(ep[i], e)
  PROVE  EpQuiet
BY DEF DataOK, AllFit, EpQuiet, EpisodeOK, SameRow

LEMMA EpStill == ASSUME DataOK, AllFit, UNCHANGED ep PROVE EpQuiet
BY DEF DataOK, AllFit, EpQuiet, SameRow

LEMMA ConnTouch ==
  ASSUME DataOK, AllFit, NEW s, NEW c, conn' = [conn EXCEPT ![s] = c],
         s \in Conns => ConnOK(c) /\ SameHandler(conn[s], c)
  PROVE  ConnQuiet
BY DEF DataOK, AllFit, ConnQuiet, ConnOK, SameHandler

LEMMA ConnStill == ASSUME DataOK, AllFit, UNCHANGED conn PROVE ConnQuiet /\ UpStays
BY DEF DataOK, AllFit, ConnQuiet, SameHandler, UpStays

\* Everything fits before a step.
LEMMA Each ==
  ASSUME DataOK, AllFit
  PROVE  /\ \A i \in Episodes : EpisodeOK(ep[i])
         /\ \A s \in Conns : ConnOK(conn[s])
BY DEF DataOK, AllFit, EpisodeOK, ConnOK

\* A reply to the client of an episode, if it has one.
LEMMA AnswerTouch ==
  ASSUME DataOK, AllFit, NEW s, NEW i \in Episodes, NEW k \in Nat, NEW type, type \in {"action", "error"},
         conn' = [conn EXCEPT ![s] = Answered(@, i, k, type)]
  PROVE  ConnQuiet /\ UpStays
<1>1. CASE s \in Conns
  <2>1. LET d == Answered(conn[s], i, k, type) IN
        /\ ConnOK(d) /\ d.up = conn[s].up /\ d.at = conn[s].at /\ d.row = conn[s].row /\ d.msg = conn[s].msg
        /\ conn[s] = NewConn => d = NewConn
    BY <1>1, Each, AnsweredOK, EpisodesAreNumbers
  <2>2. QED
    BY <1>1, <2>1 DEF DataOK, AllFit, ConnQuiet, ConnOK, SameHandler, UpStays
<1>2. CASE s \notin Conns
  <2>1. conn' = conn
    BY <1>2 DEF DataOK
  <2>2. QED
    BY <2>1, ConnStill
<1>3. QED
  BY <1>1, <1>2

LEMMA SendTouch ==
  ASSUME DataOK, AllFit, NEW s, NEW i \in Episodes, NEW k \in Nat,
         NEW type, type \in {"publish", "episode_error"},
         conn' = [conn EXCEPT ![s] = Sent(@, type, k, i)]
  PROVE  ConnQuiet /\ UpStays
<1>1. CASE s \in Conns
  <2>1. LET d == Sent(conn[s], type, k, i) IN
        /\ ConnOK(d) /\ d.up = conn[s].up /\ d.at = conn[s].at /\ d.row = conn[s].row /\ d.msg = conn[s].msg
        /\ conn[s] = NewConn => d = NewConn
    BY <1>1, Each, SentOK, EpisodesAreNumbers
  <2>2. QED
    BY <1>1, <2>1 DEF DataOK, AllFit, ConnQuiet, ConnOK, SameHandler, UpStays
<1>2. CASE s \notin Conns
  <2>1. conn' = conn
    BY <1>2 DEF DataOK
  <2>2. QED
    BY <2>1, ConnStill
<1>3. QED
  BY <1>1, <1>2

LEMMA SweepTouch ==
  ASSUME DataOK, AllFit, NEW s, conn' = [conn EXCEPT ![s] = Swept(@)]
  PROVE  ConnQuiet /\ UpStays
<1>1. CASE s \in Conns
  <2>1. LET d == Swept(conn[s]) IN
        /\ ConnOK(d) /\ d.up = conn[s].up /\ d.at = conn[s].at /\ d.row = conn[s].row /\ d.msg = conn[s].msg
        /\ conn[s] = NewConn => d = NewConn
    BY <1>1, Each, SweptOK
  <2>2. QED
    BY <1>1, <2>1 DEF DataOK, AllFit, ConnQuiet, ConnOK, SameHandler, UpStays
<1>2. CASE s \notin Conns
  <2>1. conn' = conn
    BY <1>2 DEF DataOK
  <2>2. QED
    BY <2>1, ConnStill
<1>3. QED
  BY <1>1, <1>2

LEMMA FailTouch ==
  ASSUME DataOK, AllFit, NEW i \in Episodes, NEW e,
         conn' = IF Fails(e) THEN [conn EXCEPT ![ep[i].conn] = Swept(@)] ELSE conn
  PROVE  ConnQuiet /\ UpStays
BY SweepTouch, ConnStill


-----------------------------------------------------------------------------
(* The quiet steps, one by one.                                            *)

CallsStill ==
  UNCHANGED jobs /\ \A i \in Episodes, t \in Tasks : ep'[i].task[t] = "call" <=> ep[i].task[t] = "call"

Quiet == EpQuiet /\ ConnQuiet /\ UpStays /\ CallsStill

\* A step of episode i that leaves its calls alone.
LEMMA EpisodeStep ==
  ASSUME DataOK, AllFit, NEW i \in Episodes, NEW e, ep' = [ep EXCEPT ![i] = e],
         EpisodeOK(e), SameRow(ep[i], e), ConnQuiet, UpStays, UNCHANGED jobs,
         \A t \in Tasks : e.task[t] = "call" <=> ep[i].task[t] = "call"
  PROVE  Quiet
<1>1. EpQuiet
  BY EpTouch
<1>2. CallsStill
  BY DEF CallsStill, DataOK
<1>3. QED
  BY <1>1, <1>2 DEF Quiet

LEMMA HostStep ==
  ASSUME DataOK, AllFit, NEW i \in Episodes, HostRuns(i) \/ HostLeaves(i) \/ HostExits(i)
  PROVE  Quiet
<1>1. EpisodeOK(ep[i])
  BY Each
<1>2. ConnQuiet /\ UpStays /\ UNCHANGED jobs
  BY ConnStill DEF HostRuns, HostLeaves, HostExits
<1>3. CASE HostRuns(i)
  <2> DEFINE e == IF ep[i].closing THEN [ep[i] EXCEPT !.host = "drain"]
                  ELSE [ep[i] EXCEPT !.host = "up", !.task["root"] = "ready"]
  <2>1. ep' = [ep EXCEPT ![i] = e] /\ ep[i].host = "soon"
    BY <1>3 DEF HostRuns
  <2>2. EpisodeOK(e) /\ SameRow(ep[i], e) /\ \A t \in Tasks : e.task[t] = "call" <=> ep[i].task[t] = "call"
    BY <1>1, <2>1 DEF EpisodeOK, EpisodeRows, EpisodeFits, SameRow, Tasks, OffStage, HasRow
  <2>3. QED
    BY <1>2, <2>1, <2>2, EpisodeStep
<1>4. CASE HostLeaves(i)
  <2> DEFINE e == [Closed(ep[i]) EXCEPT !.host = "drain"]
  <2>1. ep' = [ep EXCEPT ![i] = e] /\ ep[i].host = "up" /\ \A t \in Tasks \ {"guest"} : ep[i].task[t] = "off"
    BY <1>4 DEF HostLeaves
  <2>2. EpisodeOK(Closed(ep[i])) /\ SameRow(ep[i], Closed(ep[i])) /\ Closed(ep[i]).task = ep[i].task
    BY <1>1, <2>1, ClosedOK, RunningIsOnStage
  <2>3. OnStage(ep[i])
    BY <1>1, <2>1, RunningIsOnStage
  <2>4. EpisodeOK(e) /\ SameRow(ep[i], e) /\ \A t \in Tasks : e.task[t] = "call" <=> ep[i].task[t] = "call"
    <3> DEFINE c == Closed(ep[i])
    <3>1. c.closing /\ c.host = "up" /\ c.stage = ep[i].stage
      BY <1>1, <2>1 DEF Closed, EpisodeOK, EpisodeRows
    <3> HIDE DEF c
    <3>2. EpisodeOK([c EXCEPT !.host = "drain"]) /\ SameRow(c, [c EXCEPT !.host = "drain"])
      BY <2>1, <2>2, <2>3, <3>1 DEF c, EpisodeOK, EpisodeRows, EpisodeFits, SameRow, Tasks, OffStage, HasRow, OnStage
    <3>3. [c EXCEPT !.host = "drain"].task = ep[i].task
      BY <2>2 DEF c, EpisodeOK, EpisodeRows
    <3>4. QED
      BY <2>2, <3>2, <3>3 DEF c, SameRow
  <2>5. QED
    BY <1>2, <2>1, <2>4, EpisodeStep
<1>5. CASE HostExits(i)
  <2> DEFINE e == [ep[i] EXCEPT !.host = "exited"]
  <2>1. ep' = [ep EXCEPT ![i] = e] /\ ep[i].host = "drain" /\ Owned(ep[i]) = {}
    BY <1>5 DEF HostExits
  <2>2. EpisodeOK(e) /\ SameRow(ep[i], e) /\ \A t \in Tasks : e.task[t] = "call" <=> ep[i].task[t] = "call"
    BY <1>1, <2>1 DEF EpisodeOK, EpisodeRows, EpisodeFits, SameRow, Tasks, OffStage, HasRow, Owned
  <2>3. QED
    BY <1>2, <2>1, <2>2, EpisodeStep
<1>6. QED
  BY <1>3, <1>4, <1>5

LEMMA SinkStep ==
  ASSUME DataOK, AllFit, NEW i \in Episodes, SendsError(i)
  PROVE  Quiet
<1>1. EpisodeOK(ep[i]) /\ ep[i].seq \in Nat
  BY Each DEF DataOK, EpisodeRows
<1>2. ConnQuiet /\ UpStays /\ UNCHANGED jobs
  BY <1>1, ConnStill, SendTouch DEF SendsError
<1>3. ep' = [ep EXCEPT ![i] = [ep[i] EXCEPT !.sink = "sent"]]
  BY DEF SendsError
<1>4. LET e == [ep[i] EXCEPT !.sink = "sent"] IN
      EpisodeOK(e) /\ SameRow(ep[i], e) /\ e.task = ep[i].task
  <2> DEFINE e == [ep[i] EXCEPT !.sink = "sent"]
  <2>1. e \in EpisodeRows /\ SameRow(ep[i], e) /\ e.task = ep[i].task
    BY <1>1 DEF EpisodeOK, EpisodeRows, SameRow
  <2>2. EpisodeFits(e)
    BY <1>1 DEF EpisodeOK, EpisodeRows, EpisodeFits
  <2>3. QED
    BY <2>1, <2>2 DEF EpisodeOK
<1>5. QED
  BY <1>2, <1>3, <1>4, EpisodeStep

\* A mailbox takes an observation.
LEMMA PutOK ==
  ASSUME NEW e, EpisodeOK(e), ~e.closing, NEW k \in Nat
  PROVE  EpisodeOK(Put(e, k)) /\ SameRow(e, Put(e, k)) /\ Put(e, k).task = e.task /\ Put(e, k).moving = e.moving
<1>1. <<k>> \in Seq(Nat) /\ Append(e.box, k) \in Seq(Nat)
  BY AppendFacts DEF EpisodeOK, EpisodeRows
<1>2. QED
  BY <1>1 DEF Put, EpisodeOK, EpisodeRows, EpisodeFits, SameRow

LEMMA MovingFacts ==
  ASSUME NEW e, EpisodeOK(e), e.moving # <<>>
  PROVE  /\ Tail(e.moving) \in Seq(Deliveries) /\ Head(e.moving) \in Deliveries
         /\ Head(e.moving).seq \in Nat /\ Head(e.moving) = e.moving[1]
         /\ \A d \in Deliveries : [e.moving EXCEPT ![1] = d] \in Seq(Deliveries) /\ [e.moving EXCEPT ![1] = d] # <<>>
<1>1. /\ Tail(e.moving) \in Seq(Deliveries) /\ Head(e.moving) \in Deliveries /\ Head(e.moving) = e.moving[1]
      /\ 1 \in 1 .. Len(e.moving)
  BY TailFacts DEF EpisodeOK, EpisodeRows
<1>2. \A d \in Deliveries : [e.moving EXCEPT ![1] = d] \in Seq(Deliveries)
  BY <1>1, ExceptSeq DEF EpisodeOK, EpisodeRows
<1>3. \A d \in Deliveries : Len([e.moving EXCEPT ![1] = d]) = Len(e.moving)
  BY <1>1, ExceptSeq DEF EpisodeOK, EpisodeRows
<1>4. Len(e.moving) # 0 /\ Len(<<>>) = 0
  BY <1>1, LenProperties DEF EpisodeOK, EpisodeRows
<1>5. QED
  BY <1>1, <1>2, <1>3, <1>4 DEF Deliveries

LEMMA DeliveryStep ==
  ASSUME DataOK, AllFit, NEW i \in Episodes, Delivers(i)
  PROVE  Quiet
<1>1. EpisodeOK(ep[i]) /\ ep[i].moving # <<>> /\ UNCHANGED jobs
  BY Each DEF Delivers, Admits, Settles, Settled, StopsMoving, Moving
<1>2. OnStage(ep[i])
  BY <1>1, RunningIsOnStage
<1>3. /\ ep[i].moving[1] \in Deliveries /\ Head(ep[i].moving).seq \in Nat
      /\ Head(ep[i].moving) = ep[i].moving[1] /\ Tail(ep[i].moving) \in Seq(Deliveries)
      /\ \A x \in Deliveries : [ep[i].moving EXCEPT ![1] = x] \in Seq(Deliveries)
  BY <1>1, MovingFacts
<1>4. \A m \in Seq(Deliveries) :
        LET e == [ep[i] EXCEPT !.moving = m] IN EpisodeOK(e) /\ SameRow(ep[i], e) /\ e.task = ep[i].task /\ OnStage(e)
  BY <1>1, <1>2 DEF EpisodeOK, EpisodeRows, EpisodeFits, SameRow, OnStage, OffStage
<1>5. CASE Admits(i)
  <2> DEFINE k == Head(ep[i].moving).seq
             p == Put(ep[i], k)
             d == [ep[i].moving[1] EXCEPT !.admitted = TRUE]
             e == [p EXCEPT !.moving = [ep[i].moving EXCEPT ![1] = d]]
  <2>1. d \in Deliveries
    BY <1>3 DEF Deliveries
  <2>2. [ep[i].moving EXCEPT ![1] = d] \in Seq(Deliveries)
    BY <1>3, <2>1
  <2>3. EpisodeOK(p) /\ SameRow(ep[i], p) /\ p.task = ep[i].task /\ p.moving = ep[i].moving /\ ~ep[i].closing
    BY <1>1, <1>3, <1>5, PutOK DEF Admits
  <2>4. ep' = [ep EXCEPT ![i] = e]
    BY <1>5, <2>3 DEF Admits
  <2>5. EpisodeOK(e) /\ SameRow(ep[i], e) /\ e.task = ep[i].task
    BY ZenonT(20), <1>2, <2>2, <2>3 DEF EpisodeOK, EpisodeRows, EpisodeFits, SameRow, OnStage, OffStage
  <2>6. ConnQuiet /\ UpStays
    BY <1>5, ConnStill DEF Admits
  <2>7. QED
    BY <1>1, <2>4, <2>5, <2>6, EpisodeStep
<1>6. CASE Settles(i) /\ Head(ep[i].moving).settles < MaxSettles
  <2> DEFINE d == [ep[i].moving[1] EXCEPT !.settles = @ + 1]
             m == [ep[i].moving EXCEPT ![1] = d]
             e == [ep[i] EXCEPT !.fresh = FALSE, !.moving[1].settles = @ + 1]
  <2>1. d \in Deliveries
    <3>1. ep[i].moving[1].settles + 1 \in Nat
      BY <1>3 DEF Deliveries
    <3>2. QED
      BY <1>3, <3>1 DEF Deliveries
  <2>2. m \in Seq(Deliveries)
    BY <1>3, <2>1
  <2>3. ep' = [ep EXCEPT ![i] = e] /\ UNCHANGED conn
    BY <1>6 DEF Settles
  <2>4. EpisodeOK(e) /\ SameRow(ep[i], e) /\ e.task = ep[i].task
    <3>1. e = [ep[i] EXCEPT !.fresh = FALSE, !.moving = m]
      BY <1>1 DEF EpisodeOK, EpisodeRows
    <3> HIDE DEF e, m
    <3>2. QED
      BY <1>1, <1>2, <2>2, <3>1 DEF EpisodeOK, EpisodeRows, EpisodeFits, SameRow, OnStage, OffStage
  <2>5. QED
    BY <1>1, <2>3, <2>4, ConnStill, EpisodeStep
<1>7. CASE Settles(i) /\ ~(Head(ep[i].moving).settles < MaxSettles)
  <2> DEFINE f == [ep[i] EXCEPT !.moving = Tail(@)]
  <2>1. EpisodeOK(f) /\ SameRow(ep[i], f) /\ f.task = ep[i].task /\ OnStage(f)
    BY <1>3, <1>4
  <2>2. EpisodeOK(Failed(f)) /\ SameRow(f, Failed(f)) /\ Failed(f).task = f.task
    BY <2>1, FailedOK
  <2>3. Fail(i, f)
    BY <1>7 DEF Settles
  <2>4. ep' = [ep EXCEPT ![i] = Failed(f)] /\ ConnQuiet /\ UpStays
    BY <2>3, FailTouch DEF Fail
  <2>5. QED
    BY <1>1, <2>1, <2>2, <2>4, EpisodeStep DEF SameRow
<1>8. CASE Settled(i) \/ StopsMoving(i)
  <2> DEFINE e == [ep[i] EXCEPT !.moving = Tail(@)]
  <2>1. ep' = [ep EXCEPT ![i] = e]
    BY <1>8 DEF Settled, StopsMoving
  <2>2. EpisodeOK(e) /\ SameRow(ep[i], e) /\ e.task = ep[i].task
    BY <1>3, <1>4
  <2>3. ConnQuiet /\ UpStays
    <3>1. CASE Settled(i)
      BY <3>1, ConnStill DEF Settled
    <3>2. CASE StopsMoving(i)
      BY <1>3, <3>2, ConnStill, AnswerTouch DEF StopsMoving
    <3>3. QED
      BY <1>8, <3>1, <3>2
  <2>4. QED
    BY <1>1, <2>1, <2>2, <2>3, EpisodeStep
<1>9. QED
  BY <1>5, <1>6, <1>7, <1>8 DEF Delivers


LEMMA TaskStep ==
  ASSUME DataOK, AllFit, NEW i \in Episodes, NEW t \in Tasks,
         Finishes(i, t) \/ Raises(i, t) \/ Interrupts(i, t) \/ Publishes(i, t) \/ Cancelled(i, t)
  PROVE  Quiet
<1>1. EpisodeOK(ep[i]) /\ ep[i].task[t] = "ready" /\ UNCHANGED jobs /\ ep[i].seq \in Nat
  BY Each DEF Finishes, Raises, Interrupts, Publishes, Cancelled, Ready, EpisodeOK, EpisodeRows
<1>2. OnStage(ep[i])
  BY <1>1, RunningIsOnStage
<1>3. /\ EpisodeOK(Gone(ep[i], t)) /\ SameRow(ep[i], Gone(ep[i], t))
      /\ \A u \in Tasks : Gone(ep[i], t).task[u] = "call" <=> ep[i].task[u] = "call"
  <2>1. /\ EpisodeOK(Gone(ep[i], t)) /\ SameRow(ep[i], Gone(ep[i], t))
        /\ Gone(ep[i], t).task = [ep[i].task EXCEPT ![t] = "off"]
    BY <1>1, GoneOK
  <2>2. ep[i].task \in [Tasks -> {"off", "ready", "call"}]
    BY <1>1 DEF EpisodeOK, EpisodeRows
  <2>3. QED
    BY <1>1, <2>1, <2>2
<1>4. CASE Finishes(i, t)
  <2>1. ep' = [ep EXCEPT ![i] = Gone(ep[i], t)]
    BY <1>4 DEF Finishes, TaskGoes
  <2>2. ConnQuiet /\ UpStays
    BY <1>4, SweepTouch, ConnStill DEF Finishes, TaskGoes
  <2>3. QED
    BY <1>1, <1>3, <2>1, <2>2, EpisodeStep
<1>5. CASE Raises(i, t)
  <2> DEFINE f == [ep[i] EXCEPT !.task[t] = "off"]
             e == Failed(f)
  <2>1. Fail(i, f) /\ ~ep[i].closing
    BY <1>5 DEF Raises
  <2>2. ep' = [ep EXCEPT ![i] = e] /\ ConnQuiet /\ UpStays
    BY <2>1, FailTouch DEF Fail
  <2>3. <<>> \in Seq(Nat)
    OBVIOUS
  <2>4. e \in EpisodeRows /\ SameRow(ep[i], e) /\ e.task = [ep[i].task EXCEPT ![t] = "off"]
    BY <1>1, <2>3 DEF EpisodeOK, EpisodeRows, Closed, Failed, SameRow, Tasks
  <2>5. EpisodeFits(e)
    BY <1>1, <1>2 DEF EpisodeOK, EpisodeRows, EpisodeFits, Closed, Failed, Tasks, OnStage, OffStage, HasRow
  <2>6. \A u \in Tasks : e.task[u] = "call" <=> ep[i].task[u] = "call"
    BY <1>1, <2>4 DEF EpisodeOK, EpisodeRows
  <2>7. QED
    BY <1>1, <2>2, <2>4, <2>5, <2>6, EpisodeStep DEF EpisodeOK
<1>6. CASE Interrupts(i, t)
  <2> DEFINE e == [Closed(ep[i]) EXCEPT !.task[t] = "off", !.control = TRUE]
  <2>1. ep' = [ep EXCEPT ![i] = e] /\ ConnQuiet /\ UpStays
    BY <1>6, ConnStill DEF Interrupts
  <2>2. <<>> \in Seq(Nat)
    OBVIOUS
  <2>3. e \in EpisodeRows /\ SameRow(ep[i], e) /\ e.task = [ep[i].task EXCEPT ![t] = "off"]
    BY <1>1, <2>2 DEF EpisodeOK, EpisodeRows, Closed, SameRow, Tasks
  <2>4. EpisodeFits(e)
    BY <1>1, <1>2 DEF EpisodeOK, EpisodeRows, EpisodeFits, Closed, Tasks, OnStage, OffStage, HasRow
  <2>5. \A u \in Tasks : e.task[u] = "call" <=> ep[i].task[u] = "call"
    BY <1>1, <2>3 DEF EpisodeOK, EpisodeRows
  <2>6. QED
    BY <1>1, <2>1, <2>3, <2>4, <2>5, EpisodeStep DEF EpisodeOK
<1>7. CASE Publishes(i, t)
  <2> DEFINE e == [ep[i] EXCEPT !.published = @ + 1]
  <2>1. ep' = [ep EXCEPT ![i] = e] /\ ConnQuiet /\ UpStays
    BY <1>1, <1>7, SendTouch DEF Publishes
  <2>2. e \in EpisodeRows /\ SameRow(ep[i], e) /\ e.task = ep[i].task
    <3>1. ep[i].published + 1 \in Nat
      BY <1>1 DEF EpisodeOK, EpisodeRows
    <3>2. QED
      BY <1>1, <3>1 DEF EpisodeOK, EpisodeRows, SameRow
  <2>3. EpisodeFits(e)
    BY <1>1 DEF EpisodeOK, EpisodeRows, EpisodeFits
  <2>4. QED
    BY <1>1, <2>1, <2>2, <2>3, EpisodeStep DEF EpisodeOK
<1>8. CASE Cancelled(i, t)
  <2>1. ep' = [ep EXCEPT ![i] = Gone(ep[i], t)] /\ ConnQuiet /\ UpStays
    BY <1>8, ConnStill DEF Cancelled
  <2>2. QED
    BY <1>1, <1>3, <2>1, EpisodeStep
<1>9. QED
  BY <1>4, <1>5, <1>6, <1>7, <1>8

LEMMA RootStep ==
  ASSUME DataOK, AllFit, NEW i \in Episodes, Receive(i) \/ Spawns(i) \/ Visits(i)
  PROVE  Quiet
<1>1. EpisodeOK(ep[i]) /\ UNCHANGED jobs /\ ConnQuiet /\ UpStays
  BY Each, ConnStill DEF Receive, Spawns, Visits
<1>2. CASE Receive(i)
  <2> DEFINE e == [ep[i] EXCEPT !.box = Tail(@), !.held = @ \cup {Head(ep[i].box)}]
  <2>1. ep' = [ep EXCEPT ![i] = e] /\ ep[i].box # <<>>
    BY <1>2 DEF Receive
  <2>2. Tail(ep[i].box) \in Seq(Nat) /\ Head(ep[i].box) \in Nat
    BY <1>1, <2>1, TailFacts DEF EpisodeOK, EpisodeRows
  <2>3. EpisodeOK(e) /\ SameRow(ep[i], e) /\ e.task = ep[i].task
    BY <1>1, <2>1, <2>2 DEF EpisodeOK, EpisodeRows, EpisodeFits, SameRow
  <2>4. QED
    BY <1>1, <2>1, <2>3, EpisodeStep
<1>3. CASE Spawns(i)
  <2> DEFINE e == [ep[i] EXCEPT !.task["child"] = "ready"]
  <2>1. ep' = [ep EXCEPT ![i] = e] /\ ep[i].task["root"] = "ready" /\ ep[i].task["child"] = "off"
    BY <1>3 DEF Spawns, Ready
  <2>2. OnStage(ep[i])
    BY <1>1, <2>1, RunningIsOnStage DEF Tasks
  <2>3. EpisodeOK(e) /\ SameRow(ep[i], e) /\ \A u \in Tasks : e.task[u] = "call" <=> ep[i].task[u] = "call"
    BY <1>1, <2>1, <2>2 DEF EpisodeOK, EpisodeRows, EpisodeFits, SameRow, Tasks, OnStage, OffStage, HasRow
  <2>4. QED
    BY <1>1, <2>1, <2>3, EpisodeStep
<1>4. CASE Visits(i)
  <2> DEFINE e == [ep[i] EXCEPT !.task["guest"] = "ready"]
  <2>1. ep' = [ep EXCEPT ![i] = e] /\ ep[i].stage = "run" /\ ep[i].task["guest"] = "off"
    BY <1>4 DEF Visits
  <2>2. EpisodeOK(e) /\ SameRow(ep[i], e) /\ \A u \in Tasks : e.task[u] = "call" <=> ep[i].task[u] = "call"
    BY <1>1, <2>1 DEF EpisodeOK, EpisodeRows, EpisodeFits, SameRow, Tasks, OffStage, HasRow
  <2>3. QED
    BY <1>1, <2>1, <2>2, EpisodeStep
<1>5. QED
  BY <1>2, <1>3, <1>4

LEMMA ReplyStep ==
  ASSUME DataOK, AllFit, NEW i \in Episodes, NEW k \in ep[i].held, NEW type, type \in {"action", "error"},
         Reply(i, k, type)
  PROVE  Quiet
<1>1. EpisodeOK(ep[i]) /\ UNCHANGED jobs /\ k \in Nat
  BY Each DEF Reply, EpisodeOK, EpisodeRows
<1>2. ConnQuiet /\ UpStays
  <2>1. CASE ep[i].current
    <3>1. conn' = [conn EXCEPT ![ep[i].conn] = Answered(@, i, k, type)]
      BY <2>1 DEF Reply
    <3>2. QED
      BY <1>1, <3>1, AnswerTouch
  <2>2. CASE ~ep[i].current
    BY <2>2, ConnStill DEF Reply
  <2>3. QED
    BY <2>1, <2>2
<1>3. ep' = [ep EXCEPT ![i] = [ep[i] EXCEPT !.held = @ \ {k}]]
  BY DEF Reply
<1>4. LET e == [ep[i] EXCEPT !.held = @ \ {k}] IN EpisodeOK(e) /\ SameRow(ep[i], e) /\ e.task = ep[i].task
  <2> DEFINE e == [ep[i] EXCEPT !.held = @ \ {k}]
  <2>1. e \in EpisodeRows /\ SameRow(ep[i], e) /\ e.task = ep[i].task
    BY <1>1 DEF EpisodeOK, EpisodeRows, SameRow
  <2>2. EpisodeFits(e)
    BY <1>1 DEF EpisodeOK, EpisodeRows, EpisodeFits
  <2>3. QED
    BY <2>1, <2>2 DEF EpisodeOK
<1>5. QED
  BY <1>1, <1>2, <1>3, <1>4, EpisodeStep

LEMMA ShutdownStep ==
  ASSUME DataOK, AllFit, Shutdown \/ Sweeps
  PROVE  Quiet
<1>1. ConnQuiet /\ UpStays /\ UNCHANGED jobs
  BY ConnStill DEF Shutdown, Sweeps
<1>2. CASE Shutdown
  BY <1>1, <1>2, EpStill DEF Shutdown, Quiet, CallsStill
<1>3. CASE Sweeps
  <2>1. \A i \in Episodes : /\ EpisodeOK(ep'[i]) /\ SameRow(ep[i], ep'[i])
                            /\ ep'[i].task = ep[i].task
    <3> TAKE i \in Episodes
    <3>1. EpisodeOK(ep[i]) /\ ep'[i] = IF ep[i].stage = "run" THEN Closed(ep[i]) ELSE ep[i]
      BY <1>3, Each DEF Sweeps
    <3>2. CASE ep[i].stage = "run"
      BY <3>1, <3>2, ClosedOK DEF OnStage
    <3>3. CASE ep[i].stage # "run"
      BY <3>1, <3>3 DEF SameRow
    <3>4. QED
      BY <3>2, <3>3
  <2>2. EpQuiet
    BY <1>3, <2>1 DEF Sweeps, EpQuiet, EpisodeOK
  <2>3. QED
    BY <1>1, <2>1, <2>2 DEF Quiet, CallsStill
<1>4. QED
  BY <1>2, <1>3


-----------------------------------------------------------------------------
(* The handler's own quiet steps, and calls.                               *)

\* Nothing is to be started that was not, and a message moves up one place at most.
StartsShift ==
  \A s \in Conns : \E d \in {0, 1} : \A p, i \in Nat : StartIn(conn'[s], p, i) => StartIn(conn[s], p + d, i)

NewStays == \A s \in Conns : conn[s] = NewConn => conn'[s] = NewConn

LEMMA UpStaysShifts == ASSUME DataOK, ConnQuiet, UpStays PROVE StartsShift /\ NewStays
<1>1. NewStays
  BY DEF UpStays, NewStays
<1>2. ASSUME NEW s \in Conns PROVE \A p, i \in Nat : StartIn(conn'[s], p, i) => StartIn(conn[s], p + 0, i)
  BY <1>2 DEF UpStays, ConnQuiet, SameHandler, StartIn, Calm
<1>3. QED
  BY <1>1, <1>2 DEF StartsShift

LEMMA QuietShifts == ASSUME DataOK, Quiet PROVE EpQuiet /\ ConnQuiet /\ StartsShift /\ NewStays
BY UpStaysShifts DEF Quiet

\* A handler takes the next message that waits.
LEMMA TakeFacts ==
  ASSUME DataOK, NEW s \in Conns, conn[s].up # <<>>
  PROVE  /\ Head(conn[s].up) \in Messages /\ Tail(conn[s].up) \in Seq(Messages)
         /\ Head(conn[s].up) = conn[s].up[1] /\ 1 \in 1 .. Len(conn[s].up)
         /\ \A p \in 1 .. Len(Tail(conn[s].up)) :
              p + 1 \in 1 .. Len(conn[s].up) /\ Tail(conn[s].up)[p] = conn[s].up[p + 1]
<1>1. conn[s].up \in Seq(Messages)
  BY DEF DataOK, Connections
<1>2. QED
  BY <1>1, TailFacts

\* What is left after one message is to be started one place earlier.
LEMMA TakeShifts ==
  ASSUME DataOK, NEW s \in Conns, conn[s].up # <<>>,
         NEW c, c.up = Tail(conn[s].up), c.at # "restarting",
         NEW p \in Nat, NEW i \in Nat, StartIn(c, p, i)
  PROVE  StartIn(conn[s], p + 1, i)
BY TakeFacts DEF StartIn

\* The connection read as one state.
Read(c) == [c EXCEPT !.up = Tail(@)]
ReadWaiting(c) == [c EXCEPT !.up = Tail(@), !.msg = Head(c.up), !.at = "waiting"]

LEMMA ObserveConn ==
  ASSUME DataOK, AllFit, NEW s \in Conns, Observe(s)
  PROVE  \E c, d : /\ ConnOK(c) /\ ConnOK(d) /\ SameHandler(conn[s], d)
                   /\ d.up = Tail(conn[s].up) /\ d.at = c.at /\ d.at # "restarting"
                   /\ c = (IF mode = "live" THEN Read(conn[s]) ELSE ReadWaiting(conn[s]))
                   /\ conn' = [conn EXCEPT ![s] = d]
                   /\ \/ d = Answered(c, conn[s].row, Head(conn[s].up).seq, "error")
                      \/ d = c
                      \/ d = Swept(c)
<1>1. ConnOK(conn[s]) /\ conn[s].up # <<>> /\ conn[s].at = "idle" /\ conn[s].row # 0
  BY Each DEF Observe, Reads
<1>2. Head(conn[s].up) \in Messages /\ Tail(conn[s].up) \in Seq(Messages)
  BY <1>1, TakeFacts
<1>3. conn[s].row \in Episodes /\ conn[s].row \in Nat /\ Head(conn[s].up).seq \in Nat
  BY <1>1, <1>2, EpisodesAreNumbers DEF ConnOK, Connections, Messages
<1> DEFINE c == IF mode = "live" THEN Read(conn[s]) ELSE ReadWaiting(conn[s])
<1>4. /\ ConnOK(c) /\ c.up = Tail(conn[s].up) /\ c.row = conn[s].row /\ c.at \in {"idle", "waiting"}
      /\ mode = "live" => c.at = "idle"
  BY <1>1, <1>2 DEF ConnOK, Connections, HandlerFits, Read, ReadWaiting
<1>5. PICK d : /\ conn' = [conn EXCEPT ![s] = d]
               /\ \/ d = Answered(c, conn[s].row, Head(conn[s].up).seq, "error")
                  \/ d = c
                  \/ d = Swept(c)
  BY DEF Observe, Read, ReadWaiting
<1>6. ConnOK(d) /\ d.up = c.up /\ d.row = c.row /\ d.at = c.at
  BY <1>3, <1>4, <1>5, AnsweredOK, SweptOK
<1>7. SameHandler(conn[s], d)
  BY <1>1, <1>4, <1>6 DEF SameHandler, Calm
<1>8. QED
  BY <1>4, <1>5, <1>6, <1>7

\* An observation that a mailbox or a delivery takes.
LEMMA ObserveEp ==
  ASSUME DataOK, AllFit, RowsFit, NEW s \in Conns, Observe(s)
  PROVE  EpQuiet /\ CallsStill
<1>1. /\ ConnOK(conn[s]) /\ conn[s].up # <<>> /\ conn[s].at = "idle" /\ conn[s].row # 0
      /\ Reads(s, "obs") /\ UNCHANGED jobs
  BY Each DEF Observe, Reads
<1>2. Head(conn[s].up) \in Messages
  BY <1>1, TakeFacts
<1> DEFINE i == conn[s].row
           k == Head(conn[s].up).seq
<1>3. i \in Episodes /\ k \in Nat
  BY <1>1, <1>2 DEF ConnOK, Connections, Messages
<1>4. EpisodeOK(ep[i]) /\ ep[i].stage = "run"
  BY <1>1, <1>3, Each DEF RowsFit, Calm
<1>5. CASE UNCHANGED ep
  BY <1>1, <1>5, EpStill DEF CallsStill
<1>6. ASSUME NEW e, ep' = [ep EXCEPT ![i] = e], EpisodeOK(e), SameRow(ep[i], e), e.task = ep[i].task
      PROVE  EpQuiet /\ CallsStill
  <2>1. EpQuiet
    BY <1>3, <1>6, EpTouch
  <2>2. CallsStill
    BY <1>1, <1>3, <1>6 DEF CallsStill, DataOK
  <2>3. QED
    BY <2>1, <2>2
<1>7. CASE ~ep[i].closing /\ ep' = [ep EXCEPT ![i] = Put(@, k)]
  BY <1>3, <1>4, <1>6, <1>7, PutOK
<1>8. CASE ep' = [ep EXCEPT ![i] = Failed(@)]
  BY <1>4, <1>6, <1>8, FailedOK DEF OnStage
<1>9. CASE ep' = [ep EXCEPT ![i].moving = Append(@, [seq |-> k, admitted |-> FALSE, settles |-> 0])]
  <2> DEFINE m == Append(ep[i].moving, [seq |-> k, admitted |-> FALSE, settles |-> 0])
             e == [ep[i] EXCEPT !.moving = m]
  <2>1. m \in Seq(Deliveries)
    <3>1. [seq |-> k, admitted |-> FALSE, settles |-> 0] \in Deliveries
      BY <1>3 DEF Deliveries
    <3>2. QED
      BY <1>4, <3>1, AppendFacts DEF EpisodeOK, EpisodeRows
  <2> HIDE DEF m
  <2>2. EpisodeOK(e) /\ SameRow(ep[i], e) /\ e.task = ep[i].task
    BY <1>4, <2>1 DEF EpisodeOK, EpisodeRows, EpisodeFits, SameRow, OffStage
  <2>3. ep' = [ep EXCEPT ![i] = e]
    BY <1>9 DEF m
  <2>4. QED
    BY <1>6, <2>2, <2>3
<1>10. QED
  BY <1>5, <1>7, <1>8, <1>9 DEF Observe

LEMMA ObserveStep ==
  ASSUME DataOK, AllFit, RowsFit, NEW s \in Conns, Observe(s)
  PROVE  EpQuiet /\ ConnQuiet /\ StartsShift /\ NewStays /\ CallsStill
<1>1. PICK d : /\ ConnOK(d) /\ SameHandler(conn[s], d) /\ d.up = Tail(conn[s].up) /\ d.at # "restarting"
               /\ conn' = [conn EXCEPT ![s] = d]
  BY ObserveConn
<1>2. conn[s].up # <<>>
  BY DEF Observe, Reads
<1>3. ConnQuiet
  BY <1>1, ConnTouch
<1>4. conn'[s] = d /\ \A t \in Conns \ {s} : conn'[t] = conn[t]
  BY <1>1 DEF DataOK
<1>5. \A p, i \in Nat : StartIn(conn'[s], p, i) => StartIn(conn[s], p + 1, i)
  BY <1>1, <1>2, <1>4, TakeShifts
<1>6. \A t \in Conns \ {s} : \A p, i \in Nat : StartIn(conn'[t], p, i) => StartIn(conn[t], p + 0, i)
  BY <1>4
<1>7. StartsShift
  BY <1>5, <1>6 DEF StartsShift
<1>8. NewStays
  <2>1. conn[s] # NewConn
    BY DEF Observe, Reads, NewConn
  <2>2. QED
    BY <1>4, <2>1 DEF NewStays
<1>9. QED
  BY <1>3, <1>7, <1>8, ObserveEp


\* A handler that waits no more reads on.
LEMMA IdleOK ==
  ASSUME NEW c, ConnOK(c), c.at \notin {"ending", "leaving"}
  PROVE  /\ ConnOK(Idle(c)) /\ Idle(c).up = c.up /\ Idle(c).at = "idle" /\ Idle(c).row = c.row
         /\ Idle(c).down = c.down /\ Idle(c).open = c.open /\ Idle(c).msg = NoMsg /\ Idle(c).answer = "none"
<1>1. NoMsg \in Messages
  BY DEF NoMsg, Messages
<1>2. QED
  BY <1>1 DEF Idle, ConnOK, Connections, HandlerFits

LEMMA WaitStep ==
  ASSUME DataOK, AllFit, NEW s \in Conns, Replies(s) \/ StopsWaiting(s)
  PROVE  Quiet
<1>1. ConnOK(conn[s]) /\ conn[s].at = "waiting" /\ UNCHANGED <<ep, jobs>>
  BY Each DEF Replies, StopsWaiting
<1>2. EpQuiet /\ CallsStill
  BY <1>1, EpStill DEF CallsStill
<1>3. PICK c : /\ ConnOK(c) /\ c.up = conn[s].up /\ c.at = "waiting" /\ c.row = conn[s].row
               /\ conn' = [conn EXCEPT ![s] = Idle(c)]
  <2>1. CASE Replies(s)
    <3> DEFINE c == Sent(conn[s], conn[s].answer, conn[s].msg.seq, conn[s].row)
    <3>1. conn[s].answer \in {"action", "error"} /\ conn[s].msg.seq \in Nat /\ conn[s].row \in Nat
      <4>1. conn[s] \in Connections /\ conn[s].answer # "none"
        BY <1>1, <2>1 DEF Replies, ConnOK
      <4>2. conn[s].row \in {0} \cup Episodes /\ conn[s].msg \in Messages
            /\ conn[s].answer \in {"none", "action", "error"}
        BY <4>1 DEF Connections
      <4>3. conn[s].msg.seq \in Nat
        BY <4>2 DEF Messages
      <4>4. Episodes \subseteq Nat
        BY EpisodesAreNumbers
      <4>5. \A r \in {0} \cup Episodes : r \in Nat
        BY <4>4
      <4>6. conn[s].row \in Nat
        BY <4>2, <4>5
      <4>7. QED
        BY <4>1, <4>2, <4>3, <4>6
    <3>2. ConnOK(c) /\ c.up = conn[s].up /\ c.at = "waiting" /\ c.row = conn[s].row
      BY <1>1, <3>1, SentOK
    <3>3. conn' = [conn EXCEPT ![s] = Idle(c)]
      BY <2>1 DEF Replies
    <3>4. QED
      BY <3>2, <3>3
  <2>2. CASE StopsWaiting(s)
    BY <1>1, <2>2 DEF StopsWaiting
  <2>3. QED
    BY <2>1, <2>2
<1>4. ConnOK(Idle(c)) /\ Idle(c).up = c.up /\ SameHandler(conn[s], Idle(c))
  BY <1>1, <1>3, IdleOK DEF SameHandler, Calm
<1>5. ConnQuiet
  BY <1>3, <1>4, ConnTouch
<1>6. UpStays
  <2>1. conn[s] # NewConn
    BY <1>1 DEF NewConn
  <2>2. QED
    BY <1>3, <1>4, <2>1 DEF UpStays, DataOK
<1>7. QED
  BY <1>2, <1>5, <1>6 DEF Quiet

-----------------------------------------------------------------------------
(* Calls on the model thread.                                              *)

LEMMA JobsStay ==
  ASSUME DataOK, JobsFit, EpQuiet, CallsStill
  PROVE  jobs' \in Seq(Jobs) /\ JobsFit'
<1>1. jobs' = jobs /\ jobs' \in Seq(Jobs)
  BY DEF CallsStill, DataOK
<1>2. ASSUME NEW f \in Jobs PROVE Awaits(ep'[f.of], f.fn, f.task) <=> Awaits(ep[f.of], f.fn, f.task)
  <2>1. f.of \in Episodes
    BY DEF Jobs
  <2>2. QED
    BY <2>1 DEF EpQuiet, SameRow, CallsStill, Awaits
<1>3. QED
  BY <1>1, <1>2 DEF JobsFit, Once

LEMMA JobIsJob ==
  /\ \A i \in Episodes, t \in Tasks : Job("call", i, t) \in Jobs
  /\ \A i \in Episodes, fn \in {"reset", "finish"} : Job(fn, i, "none") \in Jobs
  /\ \A i, j, fn, gn, t, u : Job(fn, i, t) = Job(gn, j, u) <=> fn = gn /\ i = j /\ t = u
  /\ \A i, fn, t : Job(fn, i, t).of = i /\ Job(fn, i, t).fn = fn /\ Job(fn, i, t).task = t
BY DEF Job, Jobs

\* One call more: nobody waited for it before, and nobody waits for another one.
LEMMA JobAdded ==
  ASSUME DataOK, JobsFit, NEW f \in Jobs, jobs' = Append(jobs, f),
         ~Awaits(ep[f.of], f.fn, f.task),
         \A g \in Jobs : Awaits(ep'[g.of], g.fn, g.task) <=> g = f \/ Awaits(ep[g.of], g.fn, g.task)
  PROVE  jobs' \in Seq(Jobs) /\ JobsFit'
<1>1. f \notin ToSet(jobs)
  BY DEF JobsFit
<1>2. jobs' \in Seq(Jobs) /\ ToSet(jobs') = ToSet(jobs) \cup {f} /\ Once(jobs')
  BY <1>1, AppendFacts DEF DataOK, JobsFit
<1>3. QED
  BY <1>2 DEF JobsFit

\* The oldest call returns to the one who waited for it.
LEMMA JobTaken ==
  ASSUME DataOK, JobsFit, NEW f \in Jobs, jobs # <<>>, Head(jobs) = f, jobs' = Tail(jobs),
         \A g \in Jobs : Awaits(ep'[g.of], g.fn, g.task) <=> g # f /\ Awaits(ep[g.of], g.fn, g.task)
  PROVE  jobs' \in Seq(Jobs) /\ JobsFit'
<1>1. /\ jobs' \in Seq(Jobs) /\ ToSet(jobs') = ToSet(jobs) \ {f} /\ Once(jobs')
  BY TailFacts, TailOnce DEF DataOK, JobsFit
<1>2. QED
  BY <1>1 DEF JobsFit

\* Whose call returns waited for it.
LEMMA HeadAwaited ==
  ASSUME DataOK, JobsFit, jobs # <<>>
  PROVE  /\ Head(jobs) \in Jobs
         /\ Awaits(ep[Head(jobs).of], Head(jobs).fn, Head(jobs).task)
<1>1. Head(jobs) \in Jobs /\ Head(jobs) \in ToSet(jobs)
  BY TailFacts, TailOnce DEF DataOK, JobsFit
<1>2. QED
  BY <1>1 DEF JobsFit

CallsFit == EpQuiet /\ ConnQuiet /\ UpStays /\ jobs' \in Seq(Jobs) /\ JobsFit'

LEMMA CallStep ==
  ASSUME DataOK, AllFit, JobsFit, NEW i \in Episodes, NEW t \in Tasks, Calls(i, t)
  PROVE  CallsFit
<1> DEFINE e == [ep[i] EXCEPT !.task[t] = "call"]
<1>1. /\ EpisodeOK(ep[i]) /\ ep[i].task[t] = "ready" /\ ~ep[i].closing
      /\ ep' = [ep EXCEPT ![i] = e] /\ jobs' = Append(jobs, Job("call", i, t))
      /\ ConnQuiet /\ UpStays
  BY Each, ConnStill DEF Calls, Ready
<1>2. OnStage(ep[i])
  BY <1>1, RunningIsOnStage
<1>3. e \in EpisodeRows /\ SameRow(ep[i], e) /\ e.task = [ep[i].task EXCEPT ![t] = "call"]
  BY <1>1 DEF EpisodeOK, EpisodeRows, SameRow
<1>4. EpisodeFits(e)
  BY <1>1, <1>2 DEF EpisodeOK, EpisodeRows, EpisodeFits, Tasks, OnStage, OffStage, HasRow
<1>5. EpQuiet
  BY <1>1, <1>3, <1>4, EpTouch DEF EpisodeOK
<1>6. \A u \in Tasks : e.task[u] = "call" <=> u = t \/ ep[i].task[u] = "call"
  BY <1>1, <1>3 DEF EpisodeOK, EpisodeRows
<1>7. ep'[i] = e /\ \A j \in Episodes \ {i} : ep'[j] = ep[j]
  BY <1>1 DEF DataOK
<1> DEFINE f == Job("call", i, t)
<1>8. f \in Jobs /\ f.of = i /\ f.fn = "call" /\ f.task = t
  BY JobIsJob
<1>9. ~Awaits(ep[f.of], f.fn, f.task)
  BY <1>1, <1>8 DEF Awaits
<1>10. ASSUME NEW g \in Jobs
       PROVE  Awaits(ep'[g.of], g.fn, g.task) <=> g = f \/ Awaits(ep[g.of], g.fn, g.task)
  <2>1. g.of \in Episodes /\ g = Job(g.fn, g.of, g.task)
    BY DEF Jobs, Job
  <2>2. g = f <=> g.fn = "call" /\ g.of = i /\ g.task = t
    BY <2>1, JobIsJob
  <2>3. CASE g.of # i
    BY <1>7, <2>1, <2>2, <2>3
  <2>4. CASE g.of = i
    <3>1. Awaits(e, g.fn, g.task) <=> (g.fn = "call" /\ g.task = t) \/ Awaits(ep[i], g.fn, g.task)
      BY <1>3, <1>6 DEF Awaits, SameRow
    <3>2. QED
      BY <1>7, <2>2, <2>4, <3>1
  <2>5. QED
    BY <2>3, <2>4
<1>11. jobs' \in Seq(Jobs) /\ JobsFit'
  <2> HIDE DEF f
  <2>1. QED
    BY <1>1, <1>8, <1>9, <1>10, JobAdded DEF f
<1>12. QED
  BY <1>1, <1>5, <1>11 DEF CallsFit

LEMMA CallReturnStep ==
  ASSUME DataOK, AllFit, JobsFit, NEW i \in Episodes, NEW t \in Tasks, CallReturns(i, t)
  PROVE  CallsFit
<1> DEFINE f == Job("call", i, t)
           b == IF ep[i].closing THEN Gone(ep[i], t) ELSE [ep[i] EXCEPT !.task[t] = "ready"]
           e == [b EXCEPT !.fresh = mode = "clocked"]
<1>1. /\ EpisodeOK(ep[i])
      /\ ep' = [ep EXCEPT ![i] = e] /\ jobs # <<>> /\ Head(jobs) = f /\ jobs' = Tail(jobs)
      /\ ConnQuiet /\ UpStays
  BY Each, ConnStill DEF CallReturns, Returns
<1>2. f \in Jobs /\ f.of = i /\ f.fn = "call" /\ f.task = t
  BY JobIsJob
<1>3. ep[i].task[t] = "call"
  BY <1>1, <1>2, HeadAwaited DEF Awaits
<1>4. OnStage(ep[i])
  BY <1>1, <1>3, RunningIsOnStage
<1>5. /\ EpisodeOK(b) /\ SameRow(ep[i], b)
      /\ \A u \in Tasks : b.task[u] = "call" <=> u # t /\ ep[i].task[u] = "call"
  <2>1. CASE ep[i].closing
    <3>1. b = Gone(ep[i], t)
      BY <2>1
    <3>2. /\ EpisodeOK(Gone(ep[i], t)) /\ SameRow(ep[i], Gone(ep[i], t))
          /\ Gone(ep[i], t).task = [ep[i].task EXCEPT ![t] = "off"]
      BY <1>1, <1>3, GoneOK
    <3>3. ep[i].task \in [Tasks -> {"off", "ready", "call"}]
      BY <1>1 DEF EpisodeOK, EpisodeRows
    <3> HIDE DEF b
    <3>4. QED
      BY <3>1, <3>2, <3>3
  <2>2. CASE ~ep[i].closing
    <3>1. b = [ep[i] EXCEPT !.task[t] = "ready"]
      BY <2>2
    <3> HIDE DEF b
    <3>2. b \in EpisodeRows /\ SameRow(ep[i], b) /\ b.task = [ep[i].task EXCEPT ![t] = "ready"]
      BY <1>1, <3>1 DEF EpisodeOK, EpisodeRows, SameRow
    <3>3. EpisodeFits(b)
      BY <1>1, <1>3, <1>4, <3>1 DEF EpisodeOK, EpisodeRows, EpisodeFits, Tasks, OnStage, OffStage, HasRow
    <3>4. ep[i].task \in [Tasks -> {"off", "ready", "call"}]
      BY <1>1 DEF EpisodeOK, EpisodeRows
    <3>5. QED
      BY <3>2, <3>3, <3>4 DEF EpisodeOK
  <2>3. QED
    BY <2>1, <2>2
<1> HIDE DEF b
<1>6. EpisodeOK(e) /\ SameRow(ep[i], e) /\ e.task = b.task
  <2>1. e \in EpisodeRows /\ SameRow(ep[i], e) /\ e.task = b.task
    BY <1>5 DEF EpisodeOK, EpisodeRows, SameRow
  <2>2. EpisodeFits(e)
    BY <1>5 DEF EpisodeOK, EpisodeRows, EpisodeFits
  <2>3. QED
    BY <2>1, <2>2 DEF EpisodeOK
<1>7. EpQuiet
  BY <1>1, <1>6, EpTouch
<1>8. ep'[i] = e /\ \A j \in Episodes \ {i} : ep'[j] = ep[j]
  BY <1>1 DEF DataOK
<1>9. ASSUME NEW g \in Jobs
      PROVE  Awaits(ep'[g.of], g.fn, g.task) <=> g # f /\ Awaits(ep[g.of], g.fn, g.task)
  <2>1. g.of \in Episodes /\ g = Job(g.fn, g.of, g.task)
    BY DEF Jobs, Job
  <2>2. g = f <=> g.fn = "call" /\ g.of = i /\ g.task = t
    BY <2>1, JobIsJob
  <2>3. CASE g.of # i
    BY <1>8, <2>1, <2>2, <2>3
  <2>4. CASE g.of = i
    <3>1. Awaits(e, g.fn, g.task) <=> ~(g.fn = "call" /\ g.task = t) /\ Awaits(ep[i], g.fn, g.task)
      BY <1>5, <1>6 DEF Awaits, SameRow
    <3>2. QED
      BY <1>8, <2>2, <2>4, <3>1
  <2>5. QED
    BY <2>3, <2>4
<1>10. jobs' \in Seq(Jobs) /\ JobsFit'
  <2> HIDE DEF f, e
  <2>1. QED
    BY <1>1, <1>2, <1>9, JobTaken
<1>11. QED
  BY <1>1, <1>7, <1>10 DEF CallsFit


-----------------------------------------------------------------------------
(* The invariant after a quiet step.                                       *)

LEMMA RowsStay ==
  ASSUME DataOK, RowsFit, EpQuiet, ConnQuiet
  PROVE  RowsFit'
<1>1. \A s \in Conns : conn[s].row \in {0} \cup Episodes
  BY DEF DataOK, Connections
<1>2. /\ \A i \in Episodes : SameRow(ep[i], ep'[i])
      /\ \A s \in Conns : SameHandler(conn[s], conn'[s])
  BY DEF EpQuiet, ConnQuiet
<1>3. ASSUME NEW s \in Conns, conn'[s].row # 0
      PROVE  /\ ep'[conn'[s].row].conn = s
             /\ ep'[conn'[s].row].stage \in IF conn'[s].at \in Calm THEN {"run"} ELSE {"end", "closed", "finish"}
  BY <1>1, <1>2, <1>3 DEF RowsFit, SameRow, SameHandler
<1>4. ASSUME NEW i \in Episodes, ep'[i].stage \in HasRow
      PROVE  ep'[i].conn \in Conns /\ conn'[ep'[i].conn].row = i
  BY <1>2, <1>4 DEF RowsFit, SameRow, SameHandler
<1>5. ASSUME NEW s \in Conns, conn'[s].at \in {"starting", "rolling"}
      PROVE  /\ conn'[s].msg.of \in Episodes /\ ep'[conn'[s].msg.of].conn = s
             /\ ep'[conn'[s].msg.of].stage = "reset"
             /\ ep'[conn'[s].msg.of].hook = IF conn'[s].at = "starting" THEN "none" ELSE "reset"
  BY <1>2, <1>5 DEF RowsFit, SameRow, SameHandler, Calm
<1>6. ASSUME NEW i \in Episodes, ep'[i].stage = "reset"
      PROVE  /\ ep'[i].conn \in Conns
             /\ conn'[ep'[i].conn].at \in {"starting", "rolling"} /\ conn'[ep'[i].conn].msg.of = i
  BY <1>2, <1>6 DEF RowsFit, SameRow, SameHandler, Calm
<1>7. QED
  BY <1>3, <1>4, <1>5, <1>6 DEF RowsFit

\* The stage of an episode that is still to be started stays "none".
StagesStay == \A i \in Episodes : ep[i].stage = "none" => ep'[i].stage = "none"

LEMMA StartsStay ==
  ASSUME DataOK, StartsFit, StagesStay, StartsShift, client'.n = client.n
  PROVE  StartsFit'
<1>1. ASSUME NEW s \in Conns, NEW p \in Nat, NEW i \in Nat, StartIn(conn'[s], p, i)
      PROVE  i \in Episodes /\ i <= client'.n /\ ep'[i].stage = "none"
  <2>1. PICK d \in {0, 1} : StartIn(conn[s], p + d, i)
    BY <1>1 DEF StartsShift
  <2>2. p + d \in Nat
    OBVIOUS
  <2>3. i \in Episodes /\ i <= client.n /\ ep[i].stage = "none"
    BY <2>1, <2>2 DEF StartsFit, StartAt
  <2>4. QED
    BY <2>3 DEF StagesStay
<1>2. ASSUME NEW s \in Conns, NEW t \in Conns, NEW p \in Nat, NEW q \in Nat, NEW i \in Nat,
             StartIn(conn'[s], p, i), StartIn(conn'[t], q, i)
      PROVE  s = t /\ p = q
  <2>1. PICK d \in {0, 1} : \A x, j \in Nat : StartIn(conn'[s], x, j) => StartIn(conn[s], x + d, j)
    BY DEF StartsShift
  <2>2. PICK e \in {0, 1} : \A x, j \in Nat : StartIn(conn'[t], x, j) => StartIn(conn[t], x + e, j)
    BY DEF StartsShift
  <2>3. p + d \in Nat /\ q + e \in Nat
    OBVIOUS
  <2>4. s = t /\ p + d = q + e
    BY <1>2, <2>1, <2>2, <2>3 DEF StartsFit, StartAt
  <2>5. StartIn(conn[s], p + d, i) /\ StartIn(conn[s], q + d, i)
    BY <1>2, <2>1, <2>4
  <2>6. q + d \in Nat
    OBVIOUS
  <2>7. p + d = q + d
    BY <2>3, <2>5, <2>6 DEF StartsFit, StartAt
  <2>8. QED
    BY <2>4, <2>7
<1>3. \A i \in Episodes : i > client'.n => ep'[i].stage = "none"
  BY DEF StartsFit, StagesStay
<1>4. QED
  BY <1>1, <1>2, <1>3 DEF StartsFit, StartAt

LEMMA NewConnsStay ==
  ASSUME DataOK, NewStays, UNCHANGED <<scenario, client>>
  PROVE  ClientFits'
BY DEF DataOK, ClientFits, NewStays

LEMMA QuietInv ==
  ASSUME ServerInv, EpQuiet, ConnQuiet, StartsShift, NewStays, jobs' \in Seq(Jobs), JobsFit',
         UNCHANGED <<scenario, client>>, serve' \in {"up", "cancelled", "stopping"}
  PROVE  ServerInv'
<1>1. DataOK /\ RowsFit /\ StartsFit /\ StagesStay
  BY DEF ServerInv, EpQuiet, SameRow, StagesStay
<1>2. RowsFit' /\ StartsFit' /\ ClientFits'
  BY <1>1, RowsStay, StartsStay, NewConnsStay
<1>3. DataOK'
  BY <1>1, <1>2 DEF DataOK, EpQuiet, ConnQuiet
<1>4. QED
  BY <1>2, <1>3 DEF ServerInv, EpQuiet, ConnQuiet

\* The steps of the server that move no row.
QuietStep ==
  \/ \E s \in Conns : Observe(s) \/ Replies(s) \/ StopsWaiting(s)
  \/ \E i \in Episodes :
       \/ Hosts(i) \/ Delivers(i) \/ UserCode(i)
       \/ \E t \in Tasks : Cancelled(i, t) \/ CallReturns(i, t)
  \/ Shutdown \/ Sweeps

LEMMA QuietStepsQuiet ==
  ASSUME ServerInv, QuietStep
  PROVE  EpQuiet /\ ConnQuiet /\ StartsShift /\ NewStays /\ jobs' \in Seq(Jobs) /\ JobsFit'
<1>1. DataOK /\ AllFit /\ RowsFit /\ JobsFit
  BY DEF ServerInv, AllFit
<1>2. ASSUME Quiet PROVE EpQuiet /\ ConnQuiet /\ StartsShift /\ NewStays /\ jobs' \in Seq(Jobs) /\ JobsFit'
  BY <1>1, <1>2, QuietShifts, JobsStay DEF Quiet
<1>3. ASSUME CallsFit PROVE EpQuiet /\ ConnQuiet /\ StartsShift /\ NewStays /\ jobs' \in Seq(Jobs) /\ JobsFit'
  BY <1>1, <1>3, UpStaysShifts DEF CallsFit
<1>4. ASSUME NEW s \in Conns, Observe(s) \/ Replies(s) \/ StopsWaiting(s)
      PROVE  EpQuiet /\ ConnQuiet /\ StartsShift /\ NewStays /\ jobs' \in Seq(Jobs) /\ JobsFit'
  <2>1. CASE Observe(s)
    BY <1>1, <2>1, ObserveStep, JobsStay
  <2>2. CASE Replies(s) \/ StopsWaiting(s)
    BY <1>1, <1>2, <2>2, WaitStep
  <2>3. QED
    BY <1>4, <2>1, <2>2
<1>5. ASSUME NEW i \in Episodes, Hosts(i) \/ Delivers(i)
      PROVE  Quiet
  BY <1>1, <1>5, HostStep, SinkStep, DeliveryStep DEF Hosts
<1>6. ASSUME NEW i \in Episodes, NEW t \in Tasks, Cancelled(i, t)
      PROVE  Quiet
  BY <1>1, <1>6, TaskStep
<1>7. ASSUME NEW i \in Episodes, NEW t \in Tasks, CallReturns(i, t)
      PROVE  CallsFit
  BY <1>1, <1>7, CallReturnStep
<1>8. ASSUME NEW i \in Episodes, UserCode(i)
      PROVE  Quiet \/ CallsFit
  <2>1. CASE Receive(i) \/ Spawns(i) \/ Visits(i)
    BY <1>1, <2>1, RootStep
  <2>2. CASE \E k \in ep[i].held : Reply(i, k, "action") \/ Reply(i, k, "error")
    BY <1>1, <2>2, ReplyStep
  <2>3. CASE \E t \in Tasks : Finishes(i, t) \/ Raises(i, t) \/ Interrupts(i, t) \/ Publishes(i, t)
    BY <1>1, <2>3, TaskStep
  <2>4. CASE \E t \in Tasks : Calls(i, t)
    BY <1>1, <2>4, CallStep
  <2>5. QED
    BY <1>8, <2>1, <2>2, <2>3, <2>4 DEF UserCode
<1>9. CASE Shutdown \/ Sweeps
  BY <1>1, <1>2, <1>9, ShutdownStep
<1>10. QED
  BY <1>2, <1>3, <1>4, <1>5, <1>6, <1>7, <1>8, <1>9 DEF QuietStep

LEMMA QuietStepInv ==
  ASSUME ServerInv, QuietStep, UNCHANGED client
  PROVE  ServerInv'
<1>1. UNCHANGED scenario /\ serve' \in {"up", "cancelled", "stopping"}
  <2>1. serve \in {"up", "cancelled", "stopping"}
    BY DEF ServerInv, DataOK
  <2>2. QED
    BY ZenonT(20), <2>1 DEF QuietStep, Observe, Replies, StopsWaiting, Hosts, HostRuns, HostLeaves, HostExits, SendsError,
                Delivers, Admits, Settles, Settled, StopsMoving, UserCode, Receive, Spawns, Visits, Reply,
                Finishes, Raises, Interrupts, Calls, Publishes, Cancelled, CallReturns, Shutdown, Sweeps
<1>2. QED
  BY <1>1, QuietStepsQuiet, QuietInv


-----------------------------------------------------------------------------
(* A handler moves a row: its connection is left as c, its episode as e.   *)

\* What holds of connection s once it is c, and of episode i once it is e.
Moved(s, c, i, e) ==
  /\ ConnOK(c) /\ EpisodeOK(e)
  /\ conn' = [conn EXCEPT ![s] = c] /\ ep' = [ep EXCEPT ![i] = e]

LEMMA MovedTypes ==
  ASSUME DataOK, AllFit, NEW s \in Conns, NEW c, NEW i \in Episodes, NEW e, Moved(s, c, i, e)
  PROVE  /\ conn' \in [Conns -> Connections] /\ ep' \in [Episodes -> EpisodeRows] /\ AllFit'
         /\ conn'[s] = c /\ ep'[i] = e
         /\ \A t \in Conns \ {s} : conn'[t] = conn[t]
         /\ \A j \in Episodes \ {i} : ep'[j] = ep[j]
BY DEF DataOK, AllFit, Moved, ConnOK, EpisodeOK

\* Episode i is nobody's but connection s's, before and after.
Own(s, c, i, e) ==
  /\ ep[i].stage \in HasRow \cup {"reset"} => ep[i].conn = s
  /\ conn[s].row \in {0, i} /\ c.row \in {0, i}
  /\ conn[s].at \in {"starting", "rolling"} => conn[s].msg.of = i
  /\ c.row = i => /\ e.conn = s
                  /\ e.stage \in IF c.at \in Calm THEN {"run"} ELSE {"end", "closed", "finish"}
  /\ e.stage \in HasRow => e.conn = s /\ c.row = i
  /\ c.at \in {"starting", "rolling"} =>
       /\ c.msg.of = i /\ e.conn = s /\ e.stage = "reset"
       /\ e.hook = IF c.at = "starting" THEN "none" ELSE "reset"
  /\ e.stage = "reset" => e.conn = s /\ c.at \in {"starting", "rolling"} /\ c.msg.of = i

LEMMA MovedRows ==
  ASSUME DataOK, AllFit, RowsFit, NEW s \in Conns, NEW c, NEW i \in Episodes, NEW e,
         Moved(s, c, i, e), Own(s, c, i, e)
  PROVE  RowsFit'
<1>1. /\ conn'[s] = c /\ ep'[i] = e
      /\ \A t \in Conns \ {s} : conn'[t] = conn[t]
      /\ \A j \in Episodes \ {i} : ep'[j] = ep[j]
  BY DEF DataOK, Moved
<1>2. \A t \in Conns : conn[t].row \in {0} \cup Episodes
  BY DEF DataOK, Connections
<1>3. i # 0
  BY EpisodesAreNumbers
<1>4. ASSUME NEW t \in Conns, conn'[t].row # 0
      PROVE  /\ ep'[conn'[t].row].conn = t
             /\ ep'[conn'[t].row].stage \in IF conn'[t].at \in Calm THEN {"run"} ELSE {"end", "closed", "finish"}
  <2>1. CASE t = s
    BY <1>1, <1>4, <2>1 DEF Own
  <2>2. CASE t # s
    <3>1. conn'[t] = conn[t] /\ conn[t].row \in Episodes
      BY <1>1, <1>2, <1>4, <2>2
    <3>2. /\ ep[conn[t].row].conn = t
          /\ ep[conn[t].row].stage \in IF conn[t].at \in Calm THEN {"run"} ELSE {"end", "closed", "finish"}
      BY <1>4, <3>1 DEF RowsFit
    <3>3. conn[t].row # i
      BY <2>2, <3>2 DEF Own, HasRow
    <3>4. QED
      BY <1>1, <3>1, <3>2, <3>3
  <2>3. QED
    BY <2>1, <2>2
<1>5. ASSUME NEW j \in Episodes, ep'[j].stage \in HasRow
      PROVE  ep'[j].conn \in Conns /\ conn'[ep'[j].conn].row = j
  <2>1. CASE j = i
    BY <1>1, <1>5, <2>1 DEF Own
  <2>2. CASE j # i
    <3>1. ep'[j] = ep[j] /\ ep[j].conn \in Conns /\ conn[ep[j].conn].row = j
      BY <1>1, <1>5, <2>2 DEF RowsFit
    <3>2. ep[j].conn # s
      BY <2>2, <3>1, EpisodesAreNumbers DEF Own
    <3>3. QED
      BY <1>1, <3>1, <3>2
  <2>3. QED
    BY <2>1, <2>2
<1>6. ASSUME NEW t \in Conns, conn'[t].at \in {"starting", "rolling"}
      PROVE  /\ conn'[t].msg.of \in Episodes /\ ep'[conn'[t].msg.of].conn = t
             /\ ep'[conn'[t].msg.of].stage = "reset"
             /\ ep'[conn'[t].msg.of].hook = IF conn'[t].at = "starting" THEN "none" ELSE "reset"
  <2>1. CASE t = s
    BY <1>1, <1>6, <2>1 DEF Own
  <2>2. CASE t # s
    <3>1. conn'[t] = conn[t]
      BY <1>1, <2>2
    <3>2. /\ conn[t].msg.of \in Episodes /\ ep[conn[t].msg.of].conn = t
          /\ ep[conn[t].msg.of].stage = "reset"
          /\ ep[conn[t].msg.of].hook = IF conn[t].at = "starting" THEN "none" ELSE "reset"
      BY <1>6, <3>1 DEF RowsFit
    <3>3. conn[t].msg.of # i
      BY <2>2, <3>2 DEF Own
    <3>4. QED
      BY <1>1, <3>1, <3>2, <3>3
  <2>3. QED
    BY <2>1, <2>2
<1>7. ASSUME NEW j \in Episodes, ep'[j].stage = "reset"
      PROVE  /\ ep'[j].conn \in Conns
             /\ conn'[ep'[j].conn].at \in {"starting", "rolling"} /\ conn'[ep'[j].conn].msg.of = j
  <2>1. CASE j = i
    BY <1>1, <1>7, <2>1 DEF Own
  <2>2. CASE j # i
    <3>1. /\ ep'[j] = ep[j] /\ ep[j].conn \in Conns
          /\ conn[ep[j].conn].at \in {"starting", "rolling"} /\ conn[ep[j].conn].msg.of = j
      BY <1>1, <1>7, <2>2 DEF RowsFit
    <3>2. ep[j].conn # s
      BY <2>2, <3>1 DEF Own
    <3>3. QED
      BY <1>1, <3>1, <3>2
  <2>3. QED
    BY <2>1, <2>2
<1>8. QED
  BY <1>4, <1>5, <1>6, <1>7 DEF RowsFit

\* A handler without a row, which starts none.
LEMMA FreeRows ==
  ASSUME DataOK, AllFit, RowsFit, NEW s \in Conns, NEW c, conn' = [conn EXCEPT ![s] = c], UNCHANGED ep,
         conn[s].row = 0, c.row = 0,
         conn[s].at \notin {"starting", "rolling"}, c.at \notin {"starting", "rolling"}
  PROVE  RowsFit'
<1>1. conn'[s] = c /\ \A t \in Conns \ {s} : conn'[t] = conn[t]
  BY DEF DataOK
<1>2. \A i \in Episodes : ep'[i] = ep[i]
  OBVIOUS
<1>3. \A t \in Conns : conn[t].row \in {0} \cup Episodes
  BY DEF DataOK, Connections
<1>4. ASSUME NEW t \in Conns, conn'[t].row # 0
      PROVE  /\ ep'[conn'[t].row].conn = t
             /\ ep'[conn'[t].row].stage \in IF conn'[t].at \in Calm THEN {"run"} ELSE {"end", "closed", "finish"}
  BY <1>1, <1>3, <1>4 DEF RowsFit
<1>5. ASSUME NEW i \in Episodes, ep[i].stage \in HasRow
      PROVE  ep[i].conn \in Conns /\ conn'[ep[i].conn].row = i
  BY <1>1, <1>5, EpisodesAreNumbers DEF RowsFit
<1>6. ASSUME NEW t \in Conns, conn'[t].at \in {"starting", "rolling"}
      PROVE  t # s /\ conn'[t] = conn[t]
  BY <1>1, <1>6
<1>7. ASSUME NEW i \in Episodes, ep[i].stage = "reset"
      PROVE  ep[i].conn \in Conns /\ ep[i].conn # s /\ conn'[ep[i].conn] = conn[ep[i].conn]
  BY <1>1, <1>7 DEF RowsFit
<1>8. QED
  BY <1>2, <1>4, <1>5, <1>6, <1>7 DEF RowsFit

\* The row a handler has is its own.
LEMMA OwnRow ==
  ASSUME DataOK, AllFit, RowsFit, NEW s \in Conns, conn[s].row # 0
  PROVE  /\ conn[s].row \in Episodes /\ EpisodeOK(ep[conn[s].row]) /\ ep[conn[s].row].conn = s
         /\ ep[conn[s].row].stage \in IF conn[s].at \in Calm THEN {"run"} ELSE {"end", "closed", "finish"}
<1>1. conn[s].row \in Episodes
  BY DEF DataOK, Connections
<1>2. QED
  BY <1>1, Each DEF RowsFit

\* Who waits for a call after a move.
LEMMA MovedCalls ==
  ASSUME DataOK, NEW i \in Episodes, NEW e, ep' = [ep EXCEPT ![i] = e], NEW g \in Jobs
  PROVE  Awaits(ep'[g.of], g.fn, g.task) <=>
           IF g.of = i THEN Awaits(e, g.fn, g.task) ELSE Awaits(ep[g.of], g.fn, g.task)
<1>1. g.of \in Episodes
  BY DEF Jobs
<1>2. QED
  BY <1>1 DEF DataOK

\* An episode that waits for the calls it waited for.
LEMMA SameCalls ==
  ASSUME DataOK, JobsFit, NEW i \in Episodes, NEW e, ep' = [ep EXCEPT ![i] = e], UNCHANGED jobs,
         \A fn, t : Awaits(e, fn, t) <=> Awaits(ep[i], fn, t)
  PROVE  jobs' \in Seq(Jobs) /\ JobsFit'
<1>1. \A g \in Jobs : Awaits(ep'[g.of], g.fn, g.task) <=> Awaits(ep[g.of], g.fn, g.task)
  BY MovedCalls
<1>2. QED
  BY <1>1 DEF JobsFit, Once, DataOK

\* The oldest call, which is its own, returns.
LEMMA OneCallLess ==
  ASSUME DataOK, JobsFit, NEW i \in Episodes, NEW e, ep' = [ep EXCEPT ![i] = e],
         NEW fn, NEW t, jobs # <<>>, Head(jobs) = Job(fn, i, t), jobs' = Tail(jobs),
         \A gn, u : Awaits(e, gn, u) <=> ~(gn = fn /\ u = t) /\ Awaits(ep[i], gn, u)
  PROVE  jobs' \in Seq(Jobs) /\ JobsFit'
<1> DEFINE f == Job(fn, i, t)
<1>1. f.of = i /\ f.fn = fn /\ f.task = t /\ f \in Jobs
  BY JobIsJob, HeadAwaited
<1>2. ASSUME NEW g \in Jobs
      PROVE  Awaits(ep'[g.of], g.fn, g.task) <=> g # f /\ Awaits(ep[g.of], g.fn, g.task)
  <2>1. g = Job(g.fn, g.of, g.task)
    BY DEF Jobs, Job
  <2>2. g = f <=> g.fn = fn /\ g.of = i /\ g.task = t
    BY <2>1, JobIsJob
  <2>3. QED
    BY <2>2, MovedCalls
<1> HIDE DEF f
<1>3. QED
  BY <1>1, <1>2, JobTaken DEF f


\* What is left to be started: what waited before,
LEMMA KeptShift ==
  ASSUME DataOK, NEW s \in Conns, NEW c, conn' = [conn EXCEPT ![s] = c],
         c.up = conn[s].up \/ c.up = <<>>,
         c.at = "restarting" => conn[s].at = "restarting" /\ c.msg = conn[s].msg
  PROVE  StartsShift
<1>1. conn'[s] = c /\ \A t \in Conns \ {s} : conn'[t] = conn[t]
  BY DEF DataOK
<1>2. Len(<<>>) = 0
  OBVIOUS
<1>3. \A p, i \in Nat : StartIn(c, p, i) => StartIn(conn[s], p + 0, i)
  <2>1. CASE c.up = conn[s].up
    BY <2>1 DEF StartIn
  <2>2. CASE c.up = <<>>
    BY <1>2, <2>2 DEF StartIn
  <2>3. QED
    BY <2>1, <2>2
<1>4. \A t \in Conns \ {s} : \A p, i \in Nat : StartIn(conn'[t], p, i) => StartIn(conn[t], p + 0, i)
  BY <1>1
<1>5. QED
  BY <1>1, <1>3, <1>4 DEF StartsShift

\* or less by the message just read.
LEMMA TakenShift ==
  ASSUME DataOK, NEW s \in Conns, NEW c, conn' = [conn EXCEPT ![s] = c], conn[s].up # <<>>,
         c.up = Tail(conn[s].up),
         c.at = "restarting" => c.msg = Head(conn[s].up) /\ c.msg.type = "start"
  PROVE  StartsShift
<1>1. conn'[s] = c /\ \A t \in Conns \ {s} : conn'[t] = conn[t]
  BY DEF DataOK
<1>2. \A p, i \in Nat : StartIn(c, p, i) => StartIn(conn[s], p + 1, i)
  <2>1. /\ Head(conn[s].up) = conn[s].up[1] /\ 1 \in 1 .. Len(conn[s].up)
        /\ \A p \in 1 .. Len(Tail(conn[s].up)) :
             p + 1 \in 1 .. Len(conn[s].up) /\ Tail(conn[s].up)[p] = conn[s].up[p + 1]
    BY TakeFacts
  <2>2. ASSUME NEW p \in Nat, NEW i \in Nat, StartIn(c, p, i) PROVE StartIn(conn[s], p + 1, i)
    <3>1. CASE p = 0
      BY <2>1, <2>2, <3>1 DEF StartIn
    <3>2. CASE p # 0
      BY <2>1, <2>2, <3>2 DEF StartIn
    <3>3. QED
      BY <3>1, <3>2
  <2>3. QED
    BY <2>2
<1>3. \A t \in Conns \ {s} : \A p, i \in Nat : StartIn(conn'[t], p, i) => StartIn(conn[t], p + 0, i)
  BY <1>1
<1>4. QED
  BY <1>1, <1>2, <1>3 DEF StartsShift

LEMMA MovedNew ==
  ASSUME DataOK, NEW s \in Conns, NEW c, conn' = [conn EXCEPT ![s] = c], conn[s].at # "over"
  PROVE  NewStays
<1>1. conn[s] # NewConn
  BY DEF NewConn
<1>2. QED
  BY <1>1 DEF NewStays, DataOK

\* The invariant after a move.
LEMMA MovedInv ==
  ASSUME ServerInv, NEW s \in Conns, NEW c, NEW i \in Episodes, NEW e, Moved(s, c, i, e), Own(s, c, i, e),
         conn[s].at # "over", jobs' \in Seq(Jobs), JobsFit', StartsFit', UNCHANGED <<scenario, client, serve>>
  PROVE  ServerInv'
<1>1. DataOK /\ AllFit /\ RowsFit
  BY DEF ServerInv, AllFit
<1>2. conn' \in [Conns -> Connections] /\ ep' \in [Episodes -> EpisodeRows] /\ AllFit'
  BY <1>1, MovedTypes
<1>3. RowsFit'
  BY <1>1, MovedRows
<1>4. ClientFits'
  BY <1>1, MovedNew, NewConnsStay DEF Moved
<1>5. DataOK'
  BY <1>1, <1>2, <1>4 DEF DataOK
<1>6. QED
  BY <1>2, <1>3, <1>5 DEF ServerInv, AllFit

\* The same without an episode.
LEMMA FreeInv ==
  ASSUME ServerInv, NEW s \in Conns, NEW c, conn' = [conn EXCEPT ![s] = c], ConnOK(c), UNCHANGED ep,
         conn[s].row = 0, c.row = 0,
         conn[s].at \notin {"starting", "rolling"}, c.at \notin {"starting", "rolling"},
         conn[s].at # "over", StartsShift, UNCHANGED <<scenario, client, jobs, serve>>
  PROVE  ServerInv'
<1>1. DataOK /\ AllFit /\ RowsFit /\ JobsFit /\ StartsFit /\ StagesStay
  BY DEF ServerInv, AllFit, StagesStay
<1>2. RowsFit'
  BY <1>1, FreeRows
<1>3. EpQuiet /\ CallsStill
  BY <1>1, EpStill DEF CallsStill
<1>4. jobs' \in Seq(Jobs) /\ JobsFit'
  BY <1>1, <1>3, JobsStay
<1>5. StartsFit'
  BY <1>1, StartsStay
<1>6. ClientFits'
  BY <1>1, MovedNew, NewConnsStay
<1>7. conn' \in [Conns -> Connections] /\ \A t \in Conns : HandlerFits(conn'[t])
  BY <1>1 DEF DataOK, AllFit, ConnOK
<1>8. DataOK'
  BY <1>1, <1>4, <1>6, <1>7 DEF DataOK
<1>9. QED
  BY <1>1, <1>2, <1>4, <1>5, <1>7, <1>8 DEF ServerInv, AllFit

-----------------------------------------------------------------------------
(* The steps that move a row, one by one.                                  *)

LEMMA EndingOK ==
  ASSUME NEW e, EpisodeOK(e), e.stage = "run"
  PROVE  EpisodeOK(Ending(e)) /\ Ending(e).stage = "end" /\ Ending(e).conn = e.conn
         /\ \A fn, t : Awaits(Ending(e), fn, t) <=> Awaits(e, fn, t)
<1>1. Ending(e) \in EpisodeRows /\ Ending(e).stage = "end" /\ Ending(e).conn = e.conn
      /\ Ending(e).hook = e.hook /\ Ending(e).task = e.task
  BY DEF EpisodeOK, EpisodeRows, Ending
<1>2. EpisodeFits(Ending(e))
  BY DEF EpisodeOK, EpisodeRows, EpisodeFits, Ending, OffStage, HasRow
<1>3. QED
  BY <1>1, <1>2 DEF EpisodeOK, Awaits

\* An episode begins to end: its connection is left as c.
LEMMA EndingStep ==
  ASSUME ServerInv, NEW s \in Conns, NEW c, ConnOK(c), conn[s].row # 0, conn[s].at \in Calm, conn[s].at # "over",
         c.row = conn[s].row, c.at \in {"restarting", "ending", "leaving"},
         conn' = [conn EXCEPT ![s] = c], ep' = [ep EXCEPT ![conn[s].row] = Ending(@)], StartsShift,
         UNCHANGED <<scenario, client, jobs, serve>>
  PROVE  ServerInv'
<1>1. DataOK /\ AllFit /\ RowsFit /\ JobsFit /\ StartsFit
  BY DEF ServerInv, AllFit
<1>2. PICK i : i = conn[s].row
  OBVIOUS
<1>3. i \in Episodes /\ EpisodeOK(ep[i]) /\ ep[i].conn = s /\ ep[i].stage = "run"
  BY <1>1, <1>2, OwnRow
<1>4. PICK e : e = Ending(ep[i])
  OBVIOUS
<1>5. /\ EpisodeOK(e) /\ e.stage = "end" /\ e.conn = s
      /\ \A fn, t : Awaits(e, fn, t) <=> Awaits(ep[i], fn, t)
  BY <1>3, <1>4, EndingOK
<1>6. ep' = [ep EXCEPT ![i] = e]
  BY <1>2, <1>4
<1>7. Moved(s, c, i, e)
  BY <1>5, <1>6 DEF Moved
<1>8. Own(s, c, i, e)
  BY <1>2, <1>3, <1>5 DEF Own, Calm, HasRow
<1>9. jobs' \in Seq(Jobs) /\ JobsFit'
  BY <1>1, <1>3, <1>5, <1>6, SameCalls
<1>10. StagesStay
  BY <1>1, <1>3, <1>6 DEF StagesStay, DataOK
<1>11. StartsFit'
  BY <1>1, <1>10, StartsStay
<1>12. QED
  BY <1>3, <1>7, <1>8, <1>9, <1>11, MovedInv

LEMMA ReadStartStep ==
  ASSUME ServerInv, NEW s \in Conns, ReadStart(s), UNCHANGED client
  PROVE  ServerInv'
<1>1. DataOK /\ AllFit
  BY DEF ServerInv, AllFit
<1>2. PICK c : c = [conn[s] EXCEPT !.up = Tail(@), !.msg = Head(conn[s].up), !.at = "restarting"]
  OBVIOUS
<1>3. /\ ConnOK(conn[s]) /\ conn[s].up # <<>> /\ conn[s].at = "idle" /\ Head(conn[s].up).type = "start"
      /\ conn' = [conn EXCEPT ![s] = c] /\ UNCHANGED <<scenario, client, jobs, serve>>
  BY <1>1, <1>2, Each DEF ReadStart, Reads
<1>4. Head(conn[s].up) \in Messages /\ Tail(conn[s].up) \in Seq(Messages)
  BY <1>1, <1>3, TakeFacts
<1>5. /\ ConnOK(c) /\ c.row = conn[s].row /\ c.at = "restarting" /\ c.up = Tail(conn[s].up)
      /\ c.msg = Head(conn[s].up)
  BY <1>2, <1>3, <1>4 DEF ConnOK, Connections, HandlerFits
<1>6. StartsShift
  BY <1>1, <1>3, <1>5, TakenShift
<1>7. CASE conn[s].row = 0
  <2>1. UNCHANGED ep
    BY <1>7 DEF ReadStart
  <2>2. QED
    BY <1>3, <1>5, <1>6, <1>7, <2>1, FreeInv
<1>8. CASE conn[s].row # 0
  <2>1. ep' = [ep EXCEPT ![conn[s].row] = Ending(@)]
    BY <1>8 DEF ReadStart
  <2>2. QED
    BY <1>3, <1>5, <1>6, <1>8, <2>1, EndingStep DEF Calm
<1>9. QED
  BY <1>7, <1>8

LEMMA ReadEndStep ==
  ASSUME ServerInv, NEW s \in Conns, ReadEnd(s), UNCHANGED client
  PROVE  ServerInv'
<1>1. DataOK /\ AllFit
  BY DEF ServerInv, AllFit
<1>2. PICK c : c = [conn[s] EXCEPT !.up = Tail(@), !.at = IF conn[s].row = 0 THEN "idle" ELSE "ending"]
  OBVIOUS
<1>3. /\ ConnOK(conn[s]) /\ conn[s].up # <<>> /\ conn[s].at = "idle"
      /\ conn' = [conn EXCEPT ![s] = c] /\ UNCHANGED <<scenario, client, jobs, serve>>
  BY <1>1, <1>2, Each DEF ReadEnd, Reads
<1>4. Head(conn[s].up) \in Messages /\ Tail(conn[s].up) \in Seq(Messages)
  BY <1>1, <1>3, TakeFacts
<1>5. /\ ConnOK(c) /\ c.row = conn[s].row /\ c.up = Tail(conn[s].up)
      /\ c.at = IF conn[s].row = 0 THEN "idle" ELSE "ending"
  BY <1>2, <1>3, <1>4 DEF ConnOK, Connections, HandlerFits
<1>6. StartsShift
  BY <1>1, <1>3, <1>5, TakenShift
<1>7. CASE conn[s].row = 0
  <2>1. UNCHANGED ep
    BY <1>7 DEF ReadEnd
  <2>2. QED
    BY <1>3, <1>5, <1>6, <1>7, <2>1, FreeInv
<1>8. CASE conn[s].row # 0
  <2>1. ep' = [ep EXCEPT ![conn[s].row] = Ending(@)]
    BY <1>8 DEF ReadEnd
  <2>2. QED
    BY <1>3, <1>5, <1>6, <1>8, <2>1, EndingStep DEF Calm
<1>9. QED
  BY <1>7, <1>8

LEMMA LeavesStep ==
  ASSUME ServerInv, NEW s \in Conns, Leaves(s), UNCHANGED client
  PROVE  ServerInv'
<1>1. DataOK /\ AllFit
  BY DEF ServerInv, AllFit
<1>2. PICK c : c = [conn[s] EXCEPT !.at = IF conn[s].row = 0 THEN "over" ELSE "leaving",
                                   !.open = FALSE, !.up = <<>>, !.msg = NoMsg, !.answer = "none"]
  OBVIOUS
<1>3. /\ ConnOK(conn[s]) /\ conn[s].at \in {"idle", "waiting", "restarting"}
      /\ conn[s].at = "restarting" => conn[s].row = 0
      /\ conn' = [conn EXCEPT ![s] = c] /\ UNCHANGED <<scenario, client, jobs, serve>>
  BY <1>1, <1>2, Each DEF Leaves
<1>4. NoMsg \in Messages /\ <<>> \in Seq(Messages)
  BY DEF NoMsg, Messages
<1>5. /\ ConnOK(c) /\ c.row = conn[s].row /\ c.up = <<>>
      /\ c.at = IF conn[s].row = 0 THEN "over" ELSE "leaving"
  BY <1>2, <1>3, <1>4 DEF ConnOK, Connections, HandlerFits
<1>6. StartsShift
  BY <1>1, <1>3, <1>5, KeptShift
<1>7. CASE conn[s].row = 0
  <2>1. UNCHANGED ep
    BY <1>7 DEF Leaves
  <2>2. QED
    BY <1>3, <1>5, <1>6, <1>7, <2>1, FreeInv
<1>8. CASE conn[s].row # 0
  <2>1. ep' = [ep EXCEPT ![conn[s].row] = Ending(@)]
    BY <1>8 DEF Leaves
  <2>2. QED
    BY <1>3, <1>5, <1>6, <1>8, <2>1, EndingStep DEF Calm
<1>9. QED
  BY <1>7, <1>8


\* A step of an ending row that leaves it on stage.
LEMMA StageStep ==
  ASSUME ServerInv, NEW s \in Conns, NEW e, IsEnding(s), EpisodeOK(e),
         e.stage \in {"end", "closed", "finish"}, e.conn = ep[conn[s].row].conn,
         ep' = [ep EXCEPT ![conn[s].row] = e], UNCHANGED <<scenario, client, conn, serve>>,
         jobs' \in Seq(Jobs), JobsFit'
  PROVE  ServerInv'
<1>1. DataOK /\ AllFit /\ RowsFit /\ JobsFit /\ StartsFit
  BY DEF ServerInv, AllFit
<1>2. PICK i, c : i = conn[s].row /\ c = conn[s]
  OBVIOUS
<1>3. i # 0 /\ c.at \in {"restarting", "ending", "leaving"}
  BY <1>2 DEF IsEnding
<1>4. /\ i \in Episodes /\ ep[i].conn = s /\ ep[i].stage \in {"end", "closed", "finish"} /\ ConnOK(c)
  BY <1>1, <1>2, <1>3, OwnRow, Each DEF Calm
<1>5. conn' = [conn EXCEPT ![s] = c] /\ ep' = [ep EXCEPT ![i] = e]
  BY <1>1, <1>2 DEF DataOK
<1>6. Moved(s, c, i, e)
  BY <1>4, <1>5 DEF Moved
<1>7. Own(s, c, i, e)
  BY <1>2, <1>3, <1>4 DEF Own, Calm, HasRow
<1>8. StagesStay
  BY <1>1, <1>4, <1>5 DEF StagesStay, DataOK
<1>9. StartsShift
  BY <1>1, <1>2, <1>5, KeptShift
<1>10. StartsFit'
  BY <1>1, <1>8, <1>9, StartsStay
<1>11. QED
  BY <1>2, <1>3, <1>4, <1>6, <1>7, <1>10, MovedInv

LEMMA CloseStep ==
  ASSUME ServerInv, NEW s \in Conns, CloseEnded(s), UNCHANGED client
  PROVE  ServerInv'
<1>1. DataOK /\ AllFit /\ RowsFit /\ JobsFit
  BY DEF ServerInv, AllFit
<1>2. PICK i : i = conn[s].row
  OBVIOUS
<1>3. /\ i # 0 /\ ep[i].stage = "end" /\ ep[i].moving = <<>> /\ IsEnding(s)
      /\ UNCHANGED <<scenario, client, conn, jobs, serve>>
  BY <1>2 DEF CloseEnded, IsEnding
<1>4. i \in Episodes /\ EpisodeOK(ep[i])
  BY <1>1, <1>2, <1>3, OwnRow
<1>5. PICK e : e = [Closed(ep[i]) EXCEPT !.stage = "closed"]
  OBVIOUS
<1>6. <<>> \in Seq(Nat)
  OBVIOUS
<1>7. /\ e \in EpisodeRows /\ e.stage = "closed" /\ e.conn = ep[i].conn
      /\ e.hook = ep[i].hook /\ e.task = ep[i].task
  BY <1>4, <1>5, <1>6 DEF EpisodeOK, EpisodeRows, Closed
<1>8. EpisodeFits(e)
  BY <1>3, <1>4, <1>5 DEF EpisodeOK, EpisodeRows, EpisodeFits, Closed, OffStage, HasRow
<1>9. ep' = [ep EXCEPT ![i] = e]
  BY <1>2, <1>5 DEF CloseEnded
<1>10. \A fn, t : Awaits(e, fn, t) <=> Awaits(ep[i], fn, t)
  BY <1>3, <1>7 DEF Awaits
<1>11. jobs' \in Seq(Jobs) /\ JobsFit'
  BY <1>1, <1>3, <1>4, <1>9, <1>10, SameCalls
<1>12. QED
  BY <1>2, <1>3, <1>7, <1>8, <1>9, <1>11, StageStep DEF EpisodeOK

\* finish is asked for once the host has exited.
LEMMA FinishStep ==
  ASSUME ServerInv, NEW s \in Conns, FinishEnded(s), UNCHANGED client
  PROVE  ServerInv'
<1>1. DataOK /\ AllFit /\ RowsFit /\ JobsFit
  BY DEF ServerInv, AllFit
<1>2. PICK i : i = conn[s].row
  OBVIOUS
<1>3. /\ i # 0 /\ ep[i].stage = "closed" /\ ep[i].host = "exited" /\ IsEnding(s)
      /\ jobs' = Append(jobs, Job("finish", i, "none"))
      /\ UNCHANGED <<scenario, client, conn, serve>>
  BY <1>2 DEF FinishEnded, IsEnding
<1>4. i \in Episodes /\ EpisodeOK(ep[i])
  BY <1>1, <1>2, <1>3, OwnRow
<1>5. PICK e : e = [ep[i] EXCEPT !.stage = "finish"]
  OBVIOUS
<1>6. /\ e \in EpisodeRows /\ e.stage = "finish" /\ e.conn = ep[i].conn
      /\ e.hook = ep[i].hook /\ e.task = ep[i].task
  BY <1>4, <1>5 DEF EpisodeOK, EpisodeRows
<1>7. EpisodeFits(e)
  BY <1>3, <1>4, <1>5 DEF EpisodeOK, EpisodeRows, EpisodeFits, OffStage, HasRow
<1>8. ep' = [ep EXCEPT ![i] = e]
  BY <1>2, <1>5 DEF FinishEnded
<1>9. \A gn, u : Awaits(e, gn, u) <=> (gn = "finish" /\ u = "none") \/ Awaits(ep[i], gn, u)
  BY <1>3, <1>6 DEF Awaits
<1>10. ~Awaits(ep[i], "finish", "none")
  BY <1>3 DEF Awaits
<1>11. jobs' \in Seq(Jobs) /\ JobsFit'
  <2>1. Job("finish", i, "none") \in Jobs
    BY <1>4, JobIsJob
  <2>2. PICK f \in Jobs : f = Job("finish", i, "none")
    BY <2>1
  <2>3. f.of = i /\ f.fn = "finish" /\ f.task = "none"
    BY <2>2, JobIsJob
  <2>4. ~Awaits(ep[f.of], f.fn, f.task)
    BY <1>10, <2>3
  <2>5. ASSUME NEW g \in Jobs
        PROVE  Awaits(ep'[g.of], g.fn, g.task) <=> g = f \/ Awaits(ep[g.of], g.fn, g.task)
    <3>1. g = Job(g.fn, g.of, g.task)
      BY DEF Jobs, Job
    <3>2. g = f <=> g.fn = "finish" /\ g.of = i /\ g.task = "none"
      BY <2>2, <3>1, JobIsJob
    <3>3. Awaits(ep'[g.of], g.fn, g.task) <=>
            IF g.of = i THEN Awaits(e, g.fn, g.task) ELSE Awaits(ep[g.of], g.fn, g.task)
      BY <1>1, <1>4, <1>8, MovedCalls
    <3>4. QED
      BY <1>9, <3>2, <3>3
  <2>6. jobs' = Append(jobs, f)
    BY <1>3, <2>2
  <2>7. QED
    BY <1>1, <2>4, <2>5, <2>6, JobAdded
<1>12. QED
  BY <1>2, <1>3, <1>6, <1>7, <1>8, <1>11, StageStep DEF EpisodeOK

\* What is left of a row that is let go.
LEMMA ReleasedOK ==
  ASSUME NEW e, EpisodeOK(e), e.hook # "reset"
  PROVE  /\ EpisodeOK(Released(e)) /\ Released(e).stage = "over" /\ Released(e).hook = e.hook
         /\ \A fn, t : ~Awaits(Released(e), fn, t)
<1>1. <<>> \in Seq(Nat) /\ <<>> \in Seq(Deliveries)
  OBVIOUS
<1>2. /\ Released(e) \in EpisodeRows /\ Released(e).stage = "over" /\ Released(e).hook = e.hook
      /\ Released(e).task = [t \in Tasks |-> "off"]
  BY <1>1 DEF EpisodeOK, EpisodeRows, Released, NewEpisode
<1>3. EpisodeFits(Released(e))
  BY DEF EpisodeOK, EpisodeRows, EpisodeFits, Released, NewEpisode, OffStage, HasRow, Tasks
<1>4. QED
  BY <1>2, <1>3 DEF EpisodeOK, Awaits

LEMMA FinishedOK ==
  ASSUME NEW e, EpisodeOK(e), e.hook = "reset"
  PROVE  /\ EpisodeOK(Released(Finished(e))) /\ Released(Finished(e)).stage = "over"
         /\ Released(Finished(e)).hook = "finished"
         /\ \A fn, t : ~Awaits(Released(Finished(e)), fn, t)
<1>1. <<>> \in Seq(Nat) /\ <<>> \in Seq(Deliveries)
  OBVIOUS
<1> DEFINE f == Finished(e)
           d == Released(f)
<1>2. /\ f.hook = "finished" /\ f.sink = e.sink /\ f.conn = e.conn /\ f.seq = e.seq
  BY DEF EpisodeOK, EpisodeRows, Finished
<1> HIDE DEF f
<1>3. /\ d \in EpisodeRows /\ d.stage = "over" /\ d.hook = "finished"
      /\ d.task = [t \in Tasks |-> "off"]
  BY <1>1, <1>2 DEF EpisodeOK, EpisodeRows, Released, NewEpisode
<1>4. EpisodeFits(d)
  BY <1>2 DEF EpisodeOK, EpisodeRows, EpisodeFits, Released, NewEpisode, OffStage, HasRow, Tasks
<1>5. QED
  BY <1>3, <1>4 DEF EpisodeOK, Awaits, f

LEMMA EndedStep ==
  ASSUME ServerInv, NEW s \in Conns, Ended(s), UNCHANGED client
  PROVE  ServerInv'
<1>1. DataOK /\ AllFit /\ RowsFit /\ JobsFit /\ StartsFit
  BY DEF ServerInv, AllFit
<1>2. PICK i : i = conn[s].row
  OBVIOUS
<1>3. /\ i # 0 /\ conn[s].at \in {"restarting", "ending", "leaving"}
      /\ jobs # <<>> /\ Head(jobs) = Job("finish", i, "none") /\ jobs' = Tail(jobs)
      /\ UNCHANGED <<scenario, client, serve>>
  BY <1>2 DEF Ended, IsEnding, Returns
<1>4. /\ i \in Episodes /\ EpisodeOK(ep[i]) /\ ep[i].conn = s /\ ConnOK(conn[s])
      /\ ep[i].stage \in {"end", "closed", "finish"}
  BY <1>1, <1>2, <1>3, OwnRow, Each DEF Calm
<1>5. Awaits(ep[i], "finish", "none")
  BY <1>1, <1>3, HeadAwaited, JobIsJob
<1>6. ep[i].stage = "finish" /\ ep[i].hook = "reset" /\ ep[i].host = "exited"
  BY <1>4, <1>5 DEF Awaits, EpisodeOK, EpisodeFits, HasRow
<1>7. \A t \in Tasks : ep[i].task[t] # "call"
  BY <1>4, <1>6 DEF EpisodeOK, EpisodeFits, Tasks
<1>8. PICK e : e = Released(Finished(ep[i]))
  OBVIOUS
<1>9. EpisodeOK(e) /\ e.stage = "over" /\ e.hook = "finished" /\ \A fn, t : ~Awaits(e, fn, t)
  BY <1>4, <1>6, <1>8, FinishedOK
<1>10. PICK a : a = CASE conn[s].at = "ending" -> "idle" [] conn[s].at = "leaving" -> "over" [] OTHER -> conn[s].at
  OBVIOUS
<1>11. PICK c : c = [conn[s] EXCEPT !.row = 0, !.at = a]
  OBVIOUS
<1>12. a \in {"idle", "over", "restarting"} /\ (a = "restarting" => conn[s].at = "restarting")
  BY <1>3, <1>10
<1>13. /\ ConnOK(c) /\ c.row = 0 /\ c.at = a /\ c.up = conn[s].up /\ c.msg = conn[s].msg
  BY <1>3, <1>4, <1>11, <1>12 DEF ConnOK, Connections, HandlerFits
<1>14. conn' = [conn EXCEPT ![s] = c] /\ ep' = [ep EXCEPT ![i] = e]
  BY <1>2, <1>8, <1>10, <1>11 DEF Ended
<1>15. Moved(s, c, i, e)
  BY <1>9, <1>13, <1>14 DEF Moved
<1>16. Own(s, c, i, e)
  BY <1>2, <1>3, <1>4, <1>9, <1>12, <1>13, EpisodesAreNumbers DEF Own, HasRow
<1>17. \A gn, u : Awaits(e, gn, u) <=> ~(gn = "finish" /\ u = "none") /\ Awaits(ep[i], gn, u)
  BY <1>6, <1>7, <1>9 DEF Awaits
<1>18. jobs' \in Seq(Jobs) /\ JobsFit'
  BY ZenonT(20), <1>1, <1>3, <1>4, <1>14, <1>17, OneCallLess
<1>19. StagesStay
  BY <1>1, <1>4, <1>6, <1>14 DEF StagesStay, DataOK
<1>20. StartsShift
  BY <1>1, <1>12, <1>13, <1>14, KeptShift
<1>21. StartsFit'
  BY <1>1, <1>3, <1>19, <1>20, StartsStay
<1>22. QED
  BY <1>3, <1>4, <1>15, <1>16, <1>18, <1>21, MovedInv


\* Who resets an episode.
LEMMA OwnReset ==
  ASSUME DataOK, AllFit, RowsFit, NEW s \in Conns, conn[s].at \in {"starting", "rolling"}
  PROVE  LET i == conn[s].msg.of IN
         /\ i \in Episodes /\ EpisodeOK(ep[i]) /\ ep[i].conn = s /\ ep[i].stage = "reset"
         /\ ep[i].hook = IF conn[s].at = "starting" THEN "none" ELSE "reset"
         /\ ConnOK(conn[s]) /\ conn[s].row = 0
<1>1. ConnOK(conn[s])
  BY Each
<1>2. QED
  BY <1>1, Each DEF RowsFit, ConnOK, HandlerFits

\* An episode that was about to start, on a handler that was: the handler is
\* left as c, the episode as e.
LEMMA ResetStep ==
  ASSUME ServerInv, NEW s \in Conns, NEW c, NEW i \in Episodes, NEW e, Moved(s, c, i, e),
         conn[s].at \in {"starting", "rolling"}, conn[s].msg.of = i, c.up = conn[s].up, c.at # "restarting",
         \/ c.row = 0 /\ c.at = "idle" /\ e.stage = "over"
         \/ c.row = i /\ c.at = "idle" /\ e.stage = "run" /\ e.conn = s
         \/ /\ c.row = 0 /\ c.at = "rolling" /\ c.msg.of = i
            /\ e.stage = "reset" /\ e.hook = "reset" /\ e.conn = s,
         jobs' \in Seq(Jobs), JobsFit', UNCHANGED <<scenario, client, serve>>
  PROVE  ServerInv'
<1>1. DataOK /\ AllFit /\ RowsFit /\ JobsFit /\ StartsFit
  BY DEF ServerInv, AllFit
<1>2. ep[i].conn = s /\ ep[i].stage = "reset" /\ conn[s].row = 0
  BY <1>1, OwnReset
<1>3. i # 0
  BY EpisodesAreNumbers
<1>4. Own(s, c, i, e)
  BY <1>2, <1>3 DEF Own, HasRow, Calm
<1>5. StagesStay
  BY <1>1, <1>2 DEF StagesStay, DataOK, Moved
<1>6. StartsShift
  BY <1>1, KeptShift DEF Moved
<1>7. StartsFit'
  BY <1>1, <1>5, <1>6, StartsStay
<1>8. QED
  BY <1>4, <1>7, MovedInv

LEMMA StartFailsStep ==
  ASSUME ServerInv, NEW s \in Conns, StartFails(s), UNCHANGED client
  PROVE  ServerInv'
<1>1. DataOK /\ AllFit /\ RowsFit /\ JobsFit
  BY DEF ServerInv, AllFit
<1>2. PICK i : i = conn[s].msg.of
  OBVIOUS
<1>3. /\ conn[s].at = "starting"
      /\ jobs # <<>> /\ Head(jobs) = Job("reset", i, "none") /\ jobs' = Tail(jobs)
      /\ UNCHANGED <<scenario, client, serve>>
  BY <1>2 DEF StartFails, Returns
<1>4. /\ i \in Episodes /\ EpisodeOK(ep[i]) /\ ep[i].conn = s /\ ep[i].stage = "reset" /\ ep[i].hook = "none"
      /\ ConnOK(conn[s]) /\ conn[s].row = 0
  BY <1>1, <1>2, <1>3, OwnReset
<1>5. PICK e : e = Released(ep[i])
  OBVIOUS
<1>6. EpisodeOK(e) /\ e.stage = "over" /\ \A fn, t : ~Awaits(e, fn, t)
  BY <1>4, <1>5, ReleasedOK
<1>7. PICK d : d = Sent(conn[s], "error", conn[s].msg.seq, i)
  OBVIOUS
<1>8. conn[s].msg.seq \in Nat /\ i \in Nat
  <2>1. conn[s].msg \in Messages
    BY <1>4 DEF ConnOK, Connections
  <2>2. conn[s].msg.seq \in Nat
    BY <2>1 DEF Messages
  <2>3. QED
    BY <1>4, <2>2, EpisodesAreNumbers
<1>9. ConnOK(d) /\ d.up = conn[s].up /\ d.at = "starting" /\ d.row = 0
  BY <1>3, <1>4, <1>7, <1>8, SentOK
<1>10. ConnOK(Idle(d)) /\ Idle(d).up = conn[s].up /\ Idle(d).at = "idle" /\ Idle(d).row = 0
  BY <1>9, IdleOK
<1>11. Moved(s, Idle(d), i, e)
  BY <1>2, <1>5, <1>6, <1>7, <1>10 DEF StartFails, Moved
<1>12. \A t \in Tasks : ep[i].task[t] # "call"
  BY <1>4 DEF EpisodeOK, EpisodeFits, OffStage
<1>13. \A gn, u : Awaits(e, gn, u) <=> ~(gn = "reset" /\ u = "none") /\ Awaits(ep[i], gn, u)
  BY <1>4, <1>6, <1>12 DEF Awaits
<1>14. jobs' \in Seq(Jobs) /\ JobsFit'
  BY <1>1, <1>3, <1>4, <1>11, <1>13, OneCallLess DEF Moved
<1> HIDE DEF StartFails
<1>15. QED
  BY <1>2, <1>3, <1>4, <1>6, <1>10, <1>11, <1>14, ResetStep

LEMMA StartsStep ==
  ASSUME ServerInv, NEW s \in Conns, Starts(s), UNCHANGED client
  PROVE  ServerInv'
<1>1. DataOK /\ AllFit /\ RowsFit /\ JobsFit
  BY DEF ServerInv, AllFit
<1>2. PICK i : i = conn[s].msg.of
  OBVIOUS
<1>3. /\ conn[s].at = "starting"
      /\ jobs # <<>> /\ Head(jobs) = Job("reset", i, "none") /\ jobs' = Tail(jobs)
      /\ UNCHANGED <<scenario, client, serve>>
  BY <1>2 DEF Starts, Returns
<1>4. /\ i \in Episodes /\ EpisodeOK(ep[i]) /\ ep[i].conn = s /\ ep[i].stage = "reset" /\ ep[i].hook = "none"
      /\ ConnOK(conn[s]) /\ conn[s].row = 0
  BY <1>1, <1>2, <1>3, OwnReset
<1>5. PICK e : e = [ep[i] EXCEPT !.stage = "run", !.host = "soon", !.hook = "reset"]
  OBVIOUS
<1>6. /\ e \in EpisodeRows /\ e.stage = "run" /\ e.conn = s /\ e.hook = "reset" /\ e.task = ep[i].task
  BY <1>4, <1>5 DEF EpisodeOK, EpisodeRows
<1>7. EpisodeFits(e)
  BY <1>4, <1>5 DEF EpisodeOK, EpisodeRows, EpisodeFits, OffStage, HasRow, Tasks
<1>8. PICK d : d = Sent(conn[s], "ready", conn[s].msg.seq, i)
  OBVIOUS
<1>9. conn[s].msg.seq \in Nat /\ i \in Nat
  <2>1. conn[s].msg \in Messages
    BY <1>4 DEF ConnOK, Connections
  <2>2. conn[s].msg.seq \in Nat
    BY <2>1 DEF Messages
  <2>3. QED
    BY <1>4, <2>2, EpisodesAreNumbers
<1>10. ConnOK(d) /\ d.up = conn[s].up /\ d.at = "starting" /\ d.row = 0
  BY <1>3, <1>4, <1>8, <1>9, SentOK
<1>11. PICK c : c = [Idle(d) EXCEPT !.row = i]
  OBVIOUS
<1>12. ConnOK(c) /\ c.up = conn[s].up /\ c.at = "idle" /\ c.row = i
  <2>1. ConnOK(Idle(d)) /\ Idle(d).up = conn[s].up /\ Idle(d).at = "idle" /\ Idle(d).answer = "none"
    BY <1>10, IdleOK
  <2>2. QED
    BY <1>4, <1>11, <2>1 DEF ConnOK, Connections, HandlerFits
<1>13. Moved(s, c, i, e)
  BY <1>2, <1>5, <1>6, <1>7, <1>8, <1>11, <1>12 DEF Starts, Moved, EpisodeOK
<1>14. \A gn, u : Awaits(e, gn, u) <=> ~(gn = "reset" /\ u = "none") /\ Awaits(ep[i], gn, u)
  BY <1>4, <1>6 DEF Awaits
<1>15. jobs' \in Seq(Jobs) /\ JobsFit'
  BY <1>1, <1>3, <1>4, <1>13, <1>14, OneCallLess DEF Moved
<1>16. QED
  BY <1>2, <1>3, <1>4, <1>6, <1>12, <1>13, <1>15, ResetStep

LEMMA RolledBackStep ==
  ASSUME ServerInv, NEW s \in Conns, RolledBack(s), UNCHANGED client
  PROVE  ServerInv'
<1>1. DataOK /\ AllFit /\ RowsFit /\ JobsFit
  BY DEF ServerInv, AllFit
<1>2. PICK i : i = conn[s].msg.of
  OBVIOUS
<1>3. /\ conn[s].at = "rolling"
      /\ jobs # <<>> /\ Head(jobs) = Job("finish", i, "none") /\ jobs' = Tail(jobs)
      /\ UNCHANGED <<scenario, client, serve>>
  BY <1>2 DEF RolledBack, Returns
<1>4. /\ i \in Episodes /\ EpisodeOK(ep[i]) /\ ep[i].conn = s /\ ep[i].stage = "reset" /\ ep[i].hook = "reset"
      /\ ConnOK(conn[s]) /\ conn[s].row = 0
  BY <1>1, <1>2, <1>3, OwnReset
<1>5. PICK e : e = Released(Finished(ep[i]))
  OBVIOUS
<1>6. EpisodeOK(e) /\ e.stage = "over" /\ \A fn, t : ~Awaits(e, fn, t)
  BY <1>4, <1>5, FinishedOK
<1>7. PICK c : c = Idle(conn[s])
  OBVIOUS
<1>8. ConnOK(c) /\ c.up = conn[s].up /\ c.at = "idle" /\ c.row = 0
  BY <1>3, <1>4, <1>7, IdleOK
<1>9. Moved(s, c, i, e)
  BY <1>2, <1>5, <1>6, <1>7, <1>8 DEF RolledBack, Moved
<1>10. \A t \in Tasks : ep[i].task[t] # "call"
  BY <1>4 DEF EpisodeOK, EpisodeFits, OffStage
<1>11. \A gn, u : Awaits(e, gn, u) <=> ~(gn = "finish" /\ u = "none") /\ Awaits(ep[i], gn, u)
  BY <1>4, <1>6, <1>10 DEF Awaits
<1>12. jobs' \in Seq(Jobs) /\ JobsFit'
  BY <1>1, <1>3, <1>4, <1>9, <1>11, OneCallLess DEF Moved
<1>13. QED
  BY <1>2, <1>3, <1>4, <1>6, <1>8, <1>9, <1>12, ResetStep

\* The reset returns and the finish is asked for, in one step.
LEMMA RollsBackStep ==
  ASSUME ServerInv, NEW s \in Conns, RollsBack(s), UNCHANGED client
  PROVE  ServerInv'
<1>1. DataOK /\ AllFit /\ RowsFit /\ JobsFit
  BY DEF ServerInv, AllFit
<1>2. PICK i : i = conn[s].msg.of
  OBVIOUS
<1>3. /\ conn[s].at = "starting"
      /\ jobs # <<>> /\ Head(jobs) = Job("reset", i, "none")
      /\ jobs' = Append(Tail(jobs), Job("finish", i, "none"))
      /\ UNCHANGED <<scenario, client, serve>>
  BY <1>2 DEF RollsBack
<1>4. /\ i \in Episodes /\ EpisodeOK(ep[i]) /\ ep[i].conn = s /\ ep[i].stage = "reset" /\ ep[i].hook = "none"
      /\ ConnOK(conn[s]) /\ conn[s].row = 0
  BY <1>1, <1>2, <1>3, OwnReset
<1>5. PICK e : e = [ep[i] EXCEPT !.hook = "reset"]
  OBVIOUS
<1>6. /\ e \in EpisodeRows /\ e.stage = "reset" /\ e.conn = s /\ e.hook = "reset" /\ e.task = ep[i].task
  BY <1>4, <1>5 DEF EpisodeOK, EpisodeRows
<1>7. EpisodeFits(e)
  BY <1>4, <1>5 DEF EpisodeOK, EpisodeRows, EpisodeFits, OffStage, HasRow
<1>8. PICK c : c = [conn[s] EXCEPT !.at = "rolling"]
  OBVIOUS
<1>9. ConnOK(c) /\ c.up = conn[s].up /\ c.at = "rolling" /\ c.row = 0 /\ c.msg = conn[s].msg
  BY <1>3, <1>4, <1>8 DEF ConnOK, Connections, HandlerFits
<1>10. Moved(s, c, i, e)
  BY <1>2, <1>5, <1>6, <1>7, <1>8, <1>9 DEF RollsBack, Moved, EpisodeOK
<1> DEFINE f == Job("reset", i, "none")
           h == Job("finish", i, "none")
<1>11. f \in Jobs /\ h \in Jobs /\ f # h
  BY <1>4, JobIsJob
<1>12. Tail(jobs) \in Seq(Jobs) /\ ToSet(Tail(jobs)) = ToSet(jobs) \ {f} /\ Once(Tail(jobs))
  BY <1>1, <1>3, TailFacts, TailOnce DEF DataOK, JobsFit
<1>13. h \notin ToSet(jobs)
  <2>1. ~Awaits(ep[i], "finish", "none")
    BY <1>4 DEF Awaits
  <2>2. h.of = i /\ h.fn = "finish" /\ h.task = "none"
    BY JobIsJob
  <2> HIDE DEF h
  <2>3. QED
    BY <1>1, <1>11, <2>1, <2>2 DEF JobsFit
<1>14. /\ jobs' \in Seq(Jobs) /\ ToSet(jobs') = (ToSet(jobs) \ {f}) \cup {h} /\ Once(jobs')
  <2>1. jobs' = Append(Tail(jobs), h) /\ h \notin ToSet(Tail(jobs))
    BY <1>3, <1>12, <1>13
  <2> HIDE DEF f, h
  <2>2. PICK q \in Seq(Jobs) : q = Tail(jobs)
    BY <1>12
  <2>3. jobs' = Append(q, h) /\ h \notin ToSet(q) /\ ToSet(q) = ToSet(jobs) \ {f} /\ Once(q)
    BY <1>12, <2>1, <2>2
  <2>4. QED
    BY <1>11, <2>3, AppendFacts
<1>15. ASSUME NEW g \in Jobs
       PROVE  g \in ToSet(jobs') <=> Awaits(ep'[g.of], g.fn, g.task)
  <2>1. g \in ToSet(jobs') <=> (g # f /\ Awaits(ep[g.of], g.fn, g.task)) \/ g = h
    BY <1>1, <1>14, <1>15 DEF JobsFit
  <2>2. g = Job(g.fn, g.of, g.task)
    BY <1>15 DEF Jobs, Job
  <2>3. /\ g = f <=> g.fn = "reset" /\ g.of = i /\ g.task = "none"
        /\ g = h <=> g.fn = "finish" /\ g.of = i /\ g.task = "none"
    BY <2>2, JobIsJob
  <2>4. CASE g.of = i
    <3>1. \A t \in Tasks : ep[i].task[t] # "call"
      BY <1>4 DEF EpisodeOK, EpisodeFits, OffStage
    <3>2. \A gn, u : Awaits(e, gn, u) <=> gn = "finish" /\ u = "none"
      BY <1>6, <3>1 DEF Awaits
    <3>3. \A gn, u : Awaits(ep[i], gn, u) <=> gn = "reset" /\ u = "none"
      BY <1>4, <3>1 DEF Awaits
    <3>4. Awaits(ep'[i], g.fn, g.task) <=> g.fn = "finish" /\ g.task = "none"
      BY <1>1, <1>4, <1>10, <3>2 DEF Moved, DataOK
    <3>5. QED
      BY <2>1, <2>3, <2>4, <3>3, <3>4
  <2>5. CASE g.of # i
    <3>1. g.of \in Episodes
      BY <1>15 DEF Jobs
    <3>2. ep'[g.of] = ep[g.of]
      BY <1>1, <1>10, <2>5, <3>1 DEF Moved, DataOK
    <3>3. QED
      BY <2>1, <2>3, <2>5, <3>2
  <2>6. QED
    BY <2>4, <2>5
<1>16. JobsFit'
  BY <1>14, <1>15 DEF JobsFit
<1>17. QED
  BY <1>2, <1>3, <1>4, <1>6, <1>9, <1>10, <1>14, <1>16, ResetStep


\* The message at hand is taken off the list of what is to be started.
LEMMA AdmitStarts ==
  ASSUME DataOK, StartsFit, NEW s \in Conns, NEW i \in Episodes, StartIn(conn[s], 0, i),
         NEW c, NEW e, Moved(s, c, i, e), c.at = "starting", c.up = conn[s].up, UNCHANGED client
  PROVE  StartsFit'
<1>1. conn'[s] = c /\ \A t \in Conns \ {s} : conn'[t] = conn[t]
  BY DEF DataOK, Moved
<1>2. \A j \in Episodes \ {i} : ep'[j] = ep[j]
  BY DEF DataOK, Moved
<1>3. i \in Nat /\ StartIn(conn[s], 0, i)
  BY EpisodesAreNumbers
<1>4. i <= client.n
  BY <1>3 DEF StartsFit, StartAt
<1>5. ASSUME NEW t \in Conns, NEW p \in Nat, NEW j \in Nat, StartIn(conn'[t], p, j)
      PROVE  StartIn(conn[t], p, j) /\ j # i
  <2>1. StartIn(conn[t], p, j) /\ ~(t = s /\ p = 0)
    <3>1. CASE t = s
      BY <1>1, <1>5, <3>1 DEF StartIn
    <3>2. CASE t # s
      BY <1>1, <1>5, <3>2
    <3>3. QED
      BY <3>1, <3>2
  <2>2. j # i
    BY <1>3, <2>1 DEF StartsFit, StartAt
  <2>3. QED
    BY <2>1, <2>2
<1>6. \A t \in Conns, p, j \in Nat : StartIn(conn'[t], p, j) => j \in Episodes /\ j <= client'.n /\ ep'[j].stage = "none"
  BY <1>2, <1>5 DEF StartsFit, StartAt
<1>7. \A t, u \in Conns, p, q, j \in Nat : StartIn(conn'[t], p, j) /\ StartIn(conn'[u], q, j) => t = u /\ p = q
  BY <1>5 DEF StartsFit, StartAt
<1>8. ASSUME NEW j \in Episodes, j > client'.n PROVE ep'[j].stage = "none"
  <2>1. j # i
    <3>1. i <= client'.n /\ client'.n \in Nat /\ j \in Nat
      BY <1>4, EpisodesAreNumbers DEF DataOK, ClientFits, Clients
    <3>2. QED
      BY <1>3, <1>8, <3>1
  <2>2. QED
    BY <1>2, <1>8, <2>1 DEF StartsFit
<1>9. QED
  BY <1>6, <1>7, <1>8 DEF StartsFit, StartAt

LEMMA AdmitStep ==
  ASSUME ServerInv, NEW s \in Conns, conn[s].at = "restarting", conn[s].row = 0,
         NEW i, i = conn[s].msg.of,
         ep' = [ep EXCEPT ![i] = [@ EXCEPT !.stage = "reset", !.current = TRUE, !.conn = s, !.seq = conn[s].msg.seq]],
         jobs' = Append(jobs, Job("reset", i, "none")),
         conn' = [conn EXCEPT ![s].at = "starting"],
         UNCHANGED <<scenario, client, serve>>
  PROVE  ServerInv'
<1>1. DataOK /\ AllFit /\ RowsFit /\ JobsFit /\ StartsFit
  BY DEF ServerInv, AllFit
<1>2. ConnOK(conn[s]) /\ conn[s].msg \in Messages
  BY <1>1, Each DEF ConnOK, Connections
<1>3. conn[s].msg.seq \in Nat /\ i \in Nat
  BY <1>2 DEF Messages
<1>4. i \in Episodes /\ ep[i].stage = "none"
  <2>1. StartIn(conn[s], 0, i)
    BY DEF StartIn
  <2>2. QED
    BY SMTT(20), <1>1, <1>3, <2>1 DEF StartsFit, StartAt
<1>5. EpisodeOK(ep[i]) /\ ep[i].hook = "none"
  BY <1>1, <1>4, Each DEF EpisodeOK, EpisodeFits
<1>6. PICK e : e = [ep[i] EXCEPT !.stage = "reset", !.current = TRUE, !.conn = s, !.seq = conn[s].msg.seq]
  OBVIOUS
<1>7. /\ e \in EpisodeRows /\ e.stage = "reset" /\ e.conn = s /\ e.hook = "none" /\ e.task = ep[i].task
  BY ZenonT(20), <1>3, <1>5, <1>6 DEF EpisodeOK, EpisodeRows
<1>8. EpisodeFits(e)
  BY <1>4, <1>5, <1>6 DEF EpisodeOK, EpisodeRows, EpisodeFits, OffStage, HasRow
<1>9. PICK c : c = [conn[s] EXCEPT !.at = "starting"]
  OBVIOUS
<1>10. ConnOK(c) /\ c.row = 0 /\ c.up = conn[s].up /\ c.msg = conn[s].msg /\ c.at = "starting"
  BY <1>2, <1>9 DEF ConnOK, Connections, HandlerFits
<1>11. Moved(s, c, i, e)
  BY <1>6, <1>7, <1>8, <1>9, <1>10 DEF Moved, EpisodeOK
<1>12. i # 0
  BY <1>4, EpisodesAreNumbers
<1>13. Own(s, c, i, e)
  BY <1>4, <1>7, <1>10, <1>12 DEF Own, HasRow
<1>14. jobs' \in Seq(Jobs) /\ JobsFit'
  <2>1. PICK f \in Jobs : f = Job("reset", i, "none")
    BY <1>4, JobIsJob
  <2>2. f.of = i /\ f.fn = "reset" /\ f.task = "none"
    BY <2>1, JobIsJob
  <2>3. ~Awaits(ep[f.of], f.fn, f.task)
    BY <1>4, <2>2 DEF Awaits
  <2>4. \A gn, u : Awaits(e, gn, u) <=> (gn = "reset" /\ u = "none") \/ Awaits(ep[i], gn, u)
    BY <1>4, <1>7 DEF Awaits
  <2>5. ASSUME NEW g \in Jobs
        PROVE  Awaits(ep'[g.of], g.fn, g.task) <=> g = f \/ Awaits(ep[g.of], g.fn, g.task)
    <3>1. g = Job(g.fn, g.of, g.task)
      BY DEF Jobs, Job
    <3>2. g = f <=> g.fn = "reset" /\ g.of = i /\ g.task = "none"
      BY <2>1, <3>1, JobIsJob
    <3>3. Awaits(ep'[g.of], g.fn, g.task) <=>
            IF g.of = i THEN Awaits(e, g.fn, g.task) ELSE Awaits(ep[g.of], g.fn, g.task)
      BY <1>1, <1>4, <1>11, MovedCalls DEF Moved
    <3>4. QED
      BY <2>4, <3>2, <3>3
  <2>6. jobs' = Append(jobs, f)
    BY <2>1
  <2>7. QED
    BY <1>1, <2>3, <2>5, <2>6, JobAdded
<1>15. StartsFit'
  <2>1. StartIn(conn[s], 0, i)
    BY DEF StartIn
  <2>2. QED
    BY <1>1, <1>4, <1>10, <1>11, <2>1, AdmitStarts
<1>16. QED
  BY <1>4, <1>11, <1>13, <1>14, <1>15, MovedInv

LEMMA StartEpisodeStep ==
  ASSUME ServerInv, NEW s \in Conns, StartEpisode(s), UNCHANGED client
  PROVE  ServerInv'
<1>1. DataOK /\ AllFit
  BY DEF ServerInv, AllFit
<1>2. PICK i : i = conn[s].msg.of
  OBVIOUS
<1>3. conn[s].at = "restarting" /\ conn[s].row = 0 /\ UNCHANGED <<scenario, client, serve>>
  BY DEF StartEpisode
<1>4. CASE /\ ep' = [ep EXCEPT ![i] = [@ EXCEPT !.stage = "reset", !.current = TRUE, !.conn = s, !.seq = conn[s].msg.seq]]
           /\ jobs' = Append(jobs, Job("reset", i, "none"))
           /\ conn' = [conn EXCEPT ![s].at = "starting"]
  BY <1>2, <1>3, <1>4, AdmitStep
<1>5. ASSUME NEW stays \in BOOLEAN,
             conn' = [conn EXCEPT ![s] = [Idle(Sent(conn[s], "error", conn[s].msg.seq, i)) EXCEPT
                                           !.open = conn[s].open /\ stays]],
             UNCHANGED <<ep, jobs>>
      PROVE  ServerInv'
  <2>1. ConnOK(conn[s]) /\ conn[s].msg \in Messages
    BY <1>1, Each DEF ConnOK, Connections
  <2>2. conn[s].msg.seq \in Nat /\ i \in Nat
    BY <1>2, <2>1 DEF Messages
  <2>3. PICK d : d = Idle(Sent(conn[s], "error", conn[s].msg.seq, i))
    OBVIOUS
  <2>4. ConnOK(d) /\ d.up = conn[s].up /\ d.at = "idle" /\ d.row = 0
    <3>1. PICK b : b = Sent(conn[s], "error", conn[s].msg.seq, i)
      OBVIOUS
    <3>2. ConnOK(b) /\ b.up = conn[s].up /\ b.at = "restarting" /\ b.row = 0
      BY <1>3, <2>1, <2>2, <3>1, SentOK
    <3>3. QED
      BY <2>3, <3>1, <3>2, IdleOK
  <2>5. PICK c : c = [d EXCEPT !.open = conn[s].open /\ stays]
    OBVIOUS
  <2>6. (conn[s].open /\ stays) \in BOOLEAN
    BY <2>1 DEF ConnOK, Connections
  <2>7. ConnOK(c) /\ c.up = conn[s].up /\ c.at = "idle" /\ c.row = 0
    BY <2>1, <2>4, <2>5 DEF ConnOK, Connections, HandlerFits
  <2>8. conn' = [conn EXCEPT ![s] = c]
    BY <1>5, <2>3, <2>5
  <2>9. StartsShift
    BY <1>1, <2>7, <2>8, KeptShift
  <2>10. QED
    BY <1>3, <1>5, <2>7, <2>8, <2>9, FreeInv
<1>6. QED
  BY <1>2, <1>4, <1>5 DEF StartEpisode

\* Every step of the server keeps the invariant.
LEMMA ServerStep ==
  ASSUME ServerInv, Server, UNCHANGED client
  PROVE  ServerInv'
<1>1. CASE QuietStep
  BY <1>1, QuietStepInv
<1>2. ASSUME NEW s \in Conns, Handler(s) PROVE QuietStep \/ ServerInv'
  BY <1>2, ReadStartStep, StartEpisodeStep, StartFailsStep, StartsStep, RollsBackStep, RolledBackStep,
     ReadEndStep, LeavesStep, CloseStep, FinishStep, EndedStep DEF Handler, QuietStep
<1>3. QED
  BY <1>1, <1>2 DEF Server, QuietStep


-----------------------------------------------------------------------------
(* The client's steps: its connection b is left as c.                      *)

Keeps(b, c) ==
  /\ ConnOK(c) /\ c.at = b.at /\ c.row = b.row /\ c.msg = b.msg /\ c.answer = b.answer
  /\ \A p \in 1 .. Len(c.up) : c.up[p].type = "start" => p \in 1 .. Len(b.up) /\ b.up[p] = c.up[p]

LEMMA KeepsItself == ASSUME NEW b, ConnOK(b) PROVE Keeps(b, b)
BY DEF Keeps

LEMMA PostedKeeps ==
  ASSUME NEW b, NEW c, Keeps(b, c), NEW type, type \in {"obs", "end"}, NEW k \in Nat, NEW i \in Nat
  PROVE  Keeps(b, Posted(c, type, k, i))
<1> DEFINE m == [type |-> type, seq |-> k, of |-> i]
<1>1. m \in Messages /\ m.type # "start"
  BY DEF Messages
<1>2. c.up \in Seq(Messages)
  BY DEF Keeps, ConnOK, Connections
<1> HIDE DEF m
<1>3. /\ Append(c.up, m) \in Seq(Messages) /\ Len(Append(c.up, m)) = Len(c.up) + 1 /\ Len(c.up) \in Nat
      /\ \A p \in 1 .. Len(c.up) : Append(c.up, m)[p] = c.up[p]
      /\ Append(c.up, m)[Len(c.up) + 1] = m
  BY <1>1, <1>2, AppendProperties, LenProperties
<1>4. \A p \in 1 .. Len(c.up) + 1 : p \in 1 .. Len(c.up) \/ p = Len(c.up) + 1
  BY <1>3
<1>5. PICK d : d = [c EXCEPT !.up = Append(c.up, m)]
  OBVIOUS
<1>6. /\ ConnOK(d) /\ d.at = c.at /\ d.row = c.row /\ d.msg = c.msg /\ d.answer = c.answer
      /\ d.up = Append(c.up, m)
  BY <1>3, <1>5 DEF Keeps, ConnOK, Connections, HandlerFits
<1>7. \A p \in 1 .. Len(d.up) : d.up[p].type = "start" => p \in 1 .. Len(c.up) /\ c.up[p] = d.up[p]
  BY <1>1, <1>3, <1>4, <1>6
<1>8. Keeps(b, d)
  BY <1>6, <1>7 DEF Keeps
<1>9. Posted(c, type, k, i) = d
  BY <1>5 DEF Posted, m
<1>10. QED
  BY <1>8, <1>9

LEMMA TakenKeeps ==
  ASSUME NEW b, ConnOK(b), b.down # <<>>
  PROVE  Keeps(b, TakenFrom(b)) /\ Head(b.down) \in Messages
<1>1. Tail(b.down) \in Seq(Messages) /\ Head(b.down) \in Messages
  BY TailFacts DEF ConnOK, Connections
<1>2. QED
  BY <1>1 DEF Keeps, ConnOK, Connections, HandlerFits, TakenFrom

LEMMA ShutKeeps ==
  ASSUME NEW b, NEW c, Keeps(b, c)
  PROVE  Keeps(b, [c EXCEPT !.open = FALSE, !.down = <<>>])
<1>1. <<>> \in Seq(Messages)
  OBVIOUS
<1>2. QED
  BY <1>1 DEF Keeps, ConnOK, Connections, HandlerFits

\* Messages are numbered from the episode.
LEMMA SeqIsNumber ==
  ASSUME DataOK, NEW n \in Nat, NEW k \in Nat
  PROVE  NextSeq(n, k) \in Nat /\ scenario.steps \in Nat \ {0} /\ scenario.episodes \in Episodes
<1>1. scenario.steps \in Nat \ {0} /\ scenario.episodes \in Episodes
  BY DaemonsAssumption DEF DataOK
<1>2. n * (scenario.steps + 2) \in Nat
  BY <1>1
<1>3. QED
  BY <1>1, <1>2 DEF NextSeq

LEMMA EndPostedKeeps ==
  ASSUME DataOK, NEW b, NEW c, Keeps(b, c)
  PROVE  Keeps(b, EndPosted(c))
<1>1. client.n \in Nat
  BY DEF DataOK, ClientFits, Clients
<1>2. scenario.steps \in Nat \ {0}
  BY DaemonsAssumption DEF DataOK
<1>5. scenario.steps + 1 \in Nat
  BY <1>2
<1>3. NextSeq(client.n, scenario.steps + 1) \in Nat
  BY <1>1, <1>5, SeqIsNumber
<1>4. QED
  BY <1>1, <1>3, PostedKeeps DEF EndPosted

Waits(c) == c.at = "waiting" /\ c.answer = "none"

\* No handler begins to wait.
HoldsOn(s) == Waits(conn'[s]) => Waits(conn[s]) /\ conn'[s].row = conn[s].row

\* What a step of the client keeps.
ClientKeeps == ServerInv' /\ \A s \in Conns : HoldsOn(s)

LEMMA ClientStep ==
  ASSUME ServerInv, ServerRests, client.sess # 0,
         NEW c, Keeps(conn[client.sess], c), conn' = [conn EXCEPT ![client.sess] = c],
         client' \in Clients, client'.n = client.n, client'.sess = client.sess
  PROVE  ClientKeeps
<1>1. DataOK /\ AllFit /\ RowsFit /\ JobsFit /\ StartsFit /\ StagesStay /\ UNCHANGED <<scenario, ep, jobs, serve>>
  BY DEF ServerInv, AllFit, ServerRests, StagesStay
<1>2. PICK s \in Conns : s = client.sess
  BY <1>1 DEF DataOK, ClientFits, Clients
<1>3. ConnOK(c) /\ SameHandler(conn[s], c) /\ conn' = [conn EXCEPT ![s] = c]
  BY <1>2 DEF Keeps, SameHandler
<1>4. ConnQuiet /\ EpQuiet /\ CallsStill
  BY <1>1, <1>3, ConnTouch, EpStill DEF CallsStill
<1>5. conn'[s] = c /\ \A t \in Conns \ {s} : conn'[t] = conn[t]
  BY <1>1, <1>3 DEF DataOK
<1>6. StartsShift
  <2>1. \A p, i \in Nat : StartIn(c, p, i) => StartIn(conn[s], p + 0, i)
    BY <1>2 DEF Keeps, StartIn
  <2>2. \A t \in Conns \ {s} : \A p, i \in Nat : StartIn(conn'[t], p, i) => StartIn(conn[t], p + 0, i)
    BY <1>5
  <2>3. QED
    BY <1>5, <2>1, <2>2 DEF StartsShift
<1>7. RowsFit' /\ StartsFit' /\ jobs' \in Seq(Jobs) /\ JobsFit'
  BY <1>1, <1>4, <1>6, RowsStay, StartsStay, JobsStay
<1>8. ClientFits'
  <2>1. client'.n <= scenario'.episodes /\ client'.sess # 0 /\ client'.sess = s
    BY <1>1, <1>2 DEF DataOK, ClientFits
  <2>2. \A t \in Conns : t > client'.sess => t # s
    BY <1>2, EpisodesAreNumbers
  <2>3. \A t \in Conns : t > client'.sess => conn'[t] = NewConn
    BY <1>1, <1>5, <2>2 DEF DataOK, ClientFits
  <2>4. QED
    BY <2>1, <2>3 DEF ClientFits
<1>9. DataOK'
  BY <1>1, <1>4, <1>7, <1>8 DEF DataOK, ConnQuiet
<1>10. \A t \in Conns : HoldsOn(t)
  BY <1>2, <1>5 DEF HoldsOn, Waits, Keeps
<1>11. QED
  BY <1>1, <1>4, <1>7, <1>9, <1>10 DEF ClientKeeps, ServerInv, ConnQuiet, EpQuiet

\* The same with the connections as they were, whether the client has one or not.
LEMMA ClientRest ==
  ASSUME ServerInv, ServerRests, UNCHANGED conn,
         client' \in Clients, client'.n = client.n, client'.sess = client.sess,
         client'.at \in {"idle", "done"} \/ client.sess # 0
  PROVE  ClientKeeps
<1>1. DataOK /\ AllFit /\ RowsFit /\ JobsFit /\ StartsFit /\ StagesStay /\ UNCHANGED <<scenario, ep, jobs, serve>>
  BY DEF ServerInv, AllFit, ServerRests, StagesStay
<1>2. ConnQuiet /\ EpQuiet /\ CallsStill /\ UpStays
  BY <1>1, ConnStill, EpStill DEF CallsStill
<1>3. RowsFit' /\ StartsFit' /\ jobs' \in Seq(Jobs) /\ JobsFit'
  BY <1>1, <1>2, UpStaysShifts, RowsStay, StartsStay, JobsStay
<1>4. ClientFits'
  BY <1>1 DEF DataOK, ClientFits
<1>5. DataOK'
  BY <1>1, <1>2, <1>3, <1>4 DEF DataOK, ConnQuiet
<1>6. \A t \in Conns : HoldsOn(t)
  BY DEF HoldsOn
<1>7. QED
  BY <1>1, <1>2, <1>3, <1>5, <1>6 DEF ClientKeeps, ServerInv, ConnQuiet, EpQuiet

\* What the client can read is on its connection.
LEMMA InboxFacts ==
  ASSUME ServerInv, Inbox # <<>>
  PROVE  /\ client.sess # 0 /\ Head(Inbox) \in Messages
         /\ Keeps(conn[client.sess], TakenFrom(conn[client.sess]))
<1>1. DataOK /\ AllFit /\ client.sess # 0 /\ Inbox = conn[client.sess].down
  BY DEF ServerInv, AllFit, Inbox
<1>2. client.sess \in Conns
  BY <1>1 DEF DataOK, ClientFits, Clients
<1>3. ConnOK(conn[client.sess])
  BY <1>1, <1>2, Each
<1>4. QED
  BY <1>1, <1>3, TakenKeeps

LEMMA OwnConnection ==
  ASSUME ServerInv, client.sess # 0
  PROVE  client.sess \in Conns /\ ConnOK(conn[client.sess]) /\ Keeps(conn[client.sess], conn[client.sess])
<1>1. DataOK /\ AllFit
  BY DEF ServerInv, AllFit
<1>2. client.sess \in Conns
  BY <1>1 DEF DataOK, ClientFits, Clients
<1>3. ConnOK(conn[client.sess])
  BY <1>1, <1>2, Each
<1>4. QED
  BY <1>2, <1>3, KeepsItself

LEMMA ClientTypes == ASSUME ServerInv PROVE DataOK /\ client \in Clients /\ client.n \in Nat /\ client.steps \in Nat
BY DEF ServerInv, DataOK, ClientFits, Clients

\* The client ends its episode, or not: c is its connection so far.
LEMMA EndsWithStep ==
  ASSUME ServerInv, ServerRests, client.sess # 0, NEW c, Keeps(conn[client.sess], c), EndsWith(c)
  PROVE  ClientKeeps
<1>1. DataOK /\ client \in Clients
  BY ClientTypes
<1>2. Keeps(conn[client.sess], EndPosted(c))
  BY <1>1, EndPostedKeeps
<1>3. [type |-> "none", seq |-> 0, of |-> 0] \in Messages
  BY DEF Messages
<1>4. client' \in Clients /\ client'.n = client.n /\ client'.sess = client.sess
  BY <1>1, <1>3 DEF Clients, EndsWith, NoMsg
<1>5. conn' = [conn EXCEPT ![client.sess] = EndPosted(c)]
  BY DEF EndsWith
<1>6. QED
  BY <1>2, <1>4, <1>5, ClientStep

LEMMA AfterStepStep ==
  ASSUME ServerInv, ServerRests, client.sess # 0, NEW c, Keeps(conn[client.sess], c),
         NEW new \in Clients, new.n = client.n, new.sess = client.sess, AfterStep(c, new)
  PROVE  ClientKeeps
<1>1. DataOK
  BY ClientTypes
<1>2. [type |-> "none", seq |-> 0, of |-> 0] \in Messages
  BY DEF Messages
<1>3. new.steps + 1 \in Nat
  BY DEF Clients
<1>4. CASE conn' = [conn EXCEPT ![client.sess] = c] /\ client' = [new EXCEPT !.at = "sending", !.steps = @ + 1]
  <2>1. client' \in Clients /\ client'.n = client.n /\ client'.sess = client.sess
    BY <1>3, <1>4 DEF Clients
  <2>2. QED
    BY <1>4, <2>1, ClientStep
<1>5. CASE /\ conn' = [conn EXCEPT ![client.sess] = EndPosted(c)]
           /\ client' = [new EXCEPT !.at = "idle", !.active = FALSE, !.action = NoMsg]
  <2>1. client' \in Clients /\ client'.n = client.n /\ client'.sess = client.sess
    BY <1>2, <1>5 DEF Clients, NoMsg
  <2>2. Keeps(conn[client.sess], EndPosted(c))
    BY <1>1, EndPostedKeeps
  <2>3. QED
    BY <1>5, <2>1, <2>2, ClientStep
<1>6. QED
  BY <1>4, <1>5 DEF AfterStep

\* It reads one message, and goes on as new.
LEMMA TakeStep ==
  ASSUME ServerInv, ServerRests, Inbox # <<>>, Take,
         client' \in Clients, client'.n = client.n, client'.sess = client.sess
  PROVE  ClientKeeps
<1>1. client.sess # 0 /\ Keeps(conn[client.sess], TakenFrom(conn[client.sess]))
  BY InboxFacts
<1>2. conn' = [conn EXCEPT ![client.sess] = TakenFrom(conn[client.sess])]
  BY DEF Take
<1>3. QED
  BY <1>1, <1>2, ClientStep

LEMMA StartsReadStep ==
  ASSUME ServerInv, DropsEarly \/ StartReady \/ StartRefused
  PROVE  ClientKeeps
<1>1. client \in Clients /\ Inbox # <<>> /\ Take /\ ServerRests
  BY ClientTypes DEF DropsEarly, StartReady, StartRefused, Receives
<1>2. [type |-> "none", seq |-> 0, of |-> 0] \in Messages
  BY DEF Messages
<1>3. CASE DropsEarly
  BY <1>1, <1>3, TakeStep DEF DropsEarly
<1>4. CASE StartReady
  <2>1. client' \in Clients /\ client'.n = client.n /\ client'.sess = client.sess
    BY <1>1, <1>2, <1>4 DEF StartReady, Clients, NoMsg
  <2>2. QED
    BY <1>1, <2>1, TakeStep
<1>5. CASE StartRefused
  <2>1. client' \in Clients /\ client'.n = client.n /\ client'.sess = client.sess
    <3>1. client' = [client EXCEPT !.at = "idle", !.active = Head(Inbox).type # "error"]
      BY <1>5 DEF StartRefused
    <3>2. PICK a \in BOOLEAN : a = (Head(Inbox).type # "error")
      OBVIOUS
    <3>3. QED
      BY <1>1, <3>1, <3>2 DEF Clients
  <2>2. QED
    BY <1>1, <2>1, TakeStep
<1>6. QED
  BY <1>3, <1>4, <1>5

LEMMA GivesUpStep ==
  ASSUME ServerInv, TimesOut \/ LosesConnection
  PROVE  ClientKeeps
<1>1. DataOK /\ client \in Clients
  BY ClientTypes
<1>2. [type |-> "none", seq |-> 0, of |-> 0] \in Messages
  BY DEF Messages
<1>3. CASE TimesOut
  <2>1. client.sess # 0 /\ EndsAndCloses /\ ServerRests
    BY <1>3 DEF TimesOut, Connected
  <2>2. Keeps(conn[client.sess], EndPosted(conn[client.sess]))
    BY <1>1, <2>1, OwnConnection, EndPostedKeeps
  <2>3. PICK d : d = EndPosted(conn[client.sess])
    OBVIOUS
  <2>4. PICK c : c = [d EXCEPT !.open = FALSE, !.down = <<>>]
    OBVIOUS
  <2>5. Keeps(conn[client.sess], c)
    BY <2>2, <2>3, <2>4, ShutKeeps
  <2>6. conn' = [conn EXCEPT ![client.sess] = c]
    BY <2>1, <2>3, <2>4 DEF EndsAndCloses
  <2>7. client' \in Clients /\ client'.n = client.n /\ client'.sess = client.sess
    BY <1>1, <1>2, <2>1 DEF Clients, EndsAndCloses, NoMsg
  <2>8. QED
    BY <2>1, <2>5, <2>6, <2>7, ClientStep
<1>4. CASE LosesConnection
  <2>1. client' \in Clients /\ client'.n = client.n /\ client'.sess = client.sess /\ client'.at = "idle"
    BY <1>1, <1>2, <1>4 DEF Clients, LosesConnection, NoMsg
  <2>2. UNCHANGED conn /\ ServerRests
    BY <1>4 DEF LosesConnection
  <2>3. QED
    BY <2>1, <2>2, ClientRest
<1>5. QED
  BY <1>3, <1>4

LEMMA StepsStep ==
  ASSUME ServerInv, Sends \/ Acts \/ ActFails \/ Ticks \/ StepFails
  PROVE  ClientKeeps
<1>1. DataOK /\ client \in Clients /\ client.n \in Nat /\ client.steps \in Nat
  BY ClientTypes
<1>2. CASE Sends
  <2>1. client.sess # 0 /\ ServerRests
    BY <1>2 DEF Sends, Connected
  <2>2. client.steps + 1 \in Nat
    BY <1>1
  <2>3. PICK k \in Nat : k = NextSeq(client.n, client.steps + 1)
    BY <1>1, <2>2, SeqIsNumber
  <2>4. Keeps(conn[client.sess], Posted(conn[client.sess], "obs", k, client.n))
    BY <1>1, <2>1, OwnConnection, PostedKeeps
  <2>5. conn' = [conn EXCEPT ![client.sess] = Posted(conn[client.sess], "obs", k, client.n)]
    BY <1>2, <2>3 DEF Sends
  <2>6. client' \in Clients /\ client'.n = client.n /\ client'.sess = client.sess
    BY <1>1, <1>2 DEF Sends, Clients
  <2>7. QED
    BY <2>1, <2>4, <2>5, <2>6, ClientStep
<1>3. CASE Acts
  <2>1. Inbox # <<>> /\ ServerRests
    BY <1>3 DEF Acts, Receives
  <2>2. /\ client.sess # 0 /\ Head(Inbox) \in Messages
        /\ Keeps(conn[client.sess], TakenFrom(conn[client.sess]))
    BY <2>1, InboxFacts
  <2>3. PICK new : new = [client EXCEPT !.action = Head(Inbox)]
    OBVIOUS
  <2>4. new \in Clients /\ new.n = client.n /\ new.sess = client.sess
    BY <1>1, <2>2, <2>3 DEF Clients
  <2>5. AfterStep(TakenFrom(conn[client.sess]), new)
    BY <1>3, <2>3 DEF Acts
  <2>6. QED
    BY <2>1, <2>2, <2>4, <2>5, AfterStepStep
<1>4. CASE ActFails
  <2>1. Inbox # <<>> /\ ServerRests /\ EndsWith(TakenFrom(conn[client.sess]))
    BY <1>4 DEF ActFails, Receives
  <2>2. QED
    BY <2>1, InboxFacts, EndsWithStep
<1>5. CASE Ticks
  <2>1. client.sess # 0 /\ ServerRests
    BY <1>1, <1>5 DEF Ticks, DataOK, ClientFits
  <2>2. PICK new : new = [client EXCEPT !.fresh = FALSE]
    OBVIOUS
  <2>3. new \in Clients /\ new.n = client.n /\ new.sess = client.sess
    BY <1>1, <2>2 DEF Clients
  <2>4. AfterStep(conn[client.sess], new)
    BY <1>5, <2>2 DEF Ticks
  <2>5. QED
    BY <2>1, <2>3, <2>4, OwnConnection, AfterStepStep
<1>6. CASE StepFails
  <2>1. client.sess # 0 /\ ServerRests /\ EndsWith(conn[client.sess])
    BY <1>6 DEF StepFails, Connected
  <2>2. QED
    BY <2>1, OwnConnection, EndsWithStep
<1>7. QED
  BY <1>2, <1>3, <1>4, <1>5, <1>6

LEMMA ListensStep ==
  ASSUME ServerInv, Listens
  PROVE  ClientKeeps
<1>1. DataOK /\ client \in Clients /\ Inbox # <<>> /\ ServerRests
  BY ClientTypes DEF Listens, Receives
<1>2. PICK m : m = Head(Inbox)
  OBVIOUS
<1>3. /\ client.sess # 0 /\ m \in Messages
      /\ Keeps(conn[client.sess], TakenFrom(conn[client.sess]))
  BY <1>1, <1>2, InboxFacts
<1>4. m.seq \in Nat /\ m.of \in Nat
  BY <1>3 DEF Messages
<1>5. CASE Take /\ client' = Buffers(m)
  <2>1. client' \in Clients /\ client'.n = client.n /\ client'.sess = client.sess
    BY <1>1, <1>3, <1>4, <1>5 DEF Buffers, Clients
  <2>2. QED
    BY <1>1, <1>5, <2>1, TakeStep
<1>6. CASE /\ conn' = [conn EXCEPT ![client.sess] = EndPosted(TakenFrom(@))]
           /\ client' = [client EXCEPT !.at = "idle", !.active = FALSE, !.action = NoMsg, !.blame = m.of]
  <2>1. Keeps(conn[client.sess], EndPosted(TakenFrom(conn[client.sess])))
    BY <1>1, <1>3, EndPostedKeeps
  <2>2. [type |-> "none", seq |-> 0, of |-> 0] \in Messages
    BY DEF Messages
  <2>3. client' \in Clients /\ client'.n = client.n /\ client'.sess = client.sess
    BY <1>1, <1>4, <1>6, <2>2 DEF Clients, NoMsg
  <2>4. conn' = [conn EXCEPT ![client.sess] = EndPosted(TakenFrom(conn[client.sess]))]
    BY <1>6
  <2>5. QED
    BY <1>1, <1>3, <2>1, <2>3, <2>4, ClientStep
<1>7. CASE Take /\ UNCHANGED client
  BY <1>1, <1>7, TakeStep
<1>8. QED
  BY <1>2, <1>5, <1>6, <1>7 DEF Listens

LEMMA StopsStep ==
  ASSUME ServerInv, Stops
  PROVE  ClientKeeps
<1>1. client \in Clients /\ ServerRests
  BY ClientTypes DEF Stops
<1>2. client' \in Clients /\ client'.n = client.n /\ client'.sess = client.sess /\ client'.at = "done"
  BY <1>1 DEF Stops, Clients
<1>3. CASE Connected
  <2>1. PICK c : c = [conn[client.sess] EXCEPT !.open = FALSE, !.down = <<>>]
    OBVIOUS
  <2>2. client.sess # 0 /\ Keeps(conn[client.sess], c)
    BY <1>3, <2>1, OwnConnection, ShutKeeps DEF Connected
  <2>3. conn' = [conn EXCEPT ![client.sess] = c]
    BY <1>3, <2>1 DEF Stops
  <2>4. QED
    BY <1>1, <1>2, <2>2, <2>3, ClientStep
<1>4. CASE ~Connected
  BY <1>1, <1>2, <1>4, ClientRest DEF Stops
<1>5. QED
  BY <1>3, <1>4

LEMMA CutStep ==
  ASSUME ServerInv, Cut
  PROVE  ClientKeeps
<1>1. client \in Clients /\ ServerRests /\ UNCHANGED client /\ client.sess # 0
  BY ClientTypes DEF Cut, Connected
<1>2. PICK b : b = conn[client.sess]
  OBVIOUS
<1>3. ConnOK(b) /\ b.up \in Seq(Messages)
  BY <1>1, <1>2, OwnConnection DEF ConnOK, Connections
<1>4. PICK m \in 0 .. Len(b.up) :
        conn' = [conn EXCEPT ![client.sess].open = FALSE, ![client.sess].up = SubSeq(@, 1, m), ![client.sess].down = <<>>]
  BY <1>2 DEF Cut
<1>5. PICK u : u = SubSeq(b.up, 1, m)
  OBVIOUS
<1>6. Len(b.up) \in Nat /\ \A p \in 1 .. Len(b.up) : b.up[p] \in Messages
  BY <1>3, LenProperties, ElementOfSeq
<1>7. /\ u \in Seq(Messages) /\ Len(u) = m
      /\ \A p \in 1 .. Len(u) : p \in 1 .. Len(b.up) /\ u[p] = b.up[p]
  <2>1. \A p \in 1 .. m : p \in 1 .. Len(b.up)
    BY <1>4, <1>6
  <2>2. 1 \in 1 .. Len(b.up) + 1 /\ m \in 1 - 1 .. Len(b.up)
    BY <1>4, <1>6
  <2>3. u \in Seq(Messages) /\ Len(u) = m /\ \A p \in 1 .. m : u[p] = b.up[p]
    BY <1>3, <1>4, <1>5, <1>6, <2>1
  <2>4. QED
    BY <2>1, <2>3
<1>8. PICK c : c = [b EXCEPT !.open = FALSE, !.up = u, !.down = <<>>]
  OBVIOUS
<1>9. Keeps(b, c)
  <2>1. <<>> \in Seq(Messages)
    OBVIOUS
  <2>2. ConnOK(c) /\ c.at = b.at /\ c.row = b.row /\ c.msg = b.msg /\ c.answer = b.answer /\ c.up = u
    BY <1>3, <1>7, <1>8, <2>1 DEF ConnOK, Connections, HandlerFits
  <2>3. QED
    BY <1>7, <2>2 DEF Keeps
<1>10. conn' = [conn EXCEPT ![client.sess] = c]
  <2>1. conn \in [Conns -> Connections] /\ client.sess \in Conns
    BY <1>1, ClientTypes, OwnConnection DEF DataOK
  <2>2. QED
    BY <1>2, <1>3, <1>4, <1>5, <1>8, <2>1 DEF ConnOK, Connections
<1>11. QED
  BY <1>1, <1>2, <1>9, <1>10, ClientStep

\* EPISODE_START number n goes into connection s, which was c; the others lose
\* what the client did not read of them.
StartPosted(s, c, n) ==
  conn' = [t \in Conns |-> IF t = s THEN Posted(c, "start", NextSeq(n, 0), n) ELSE [conn[t] EXCEPT !.down = <<>>]]

\* A connection fit to be started on: the one at hand, or a new one.
FitToStart(s, c) ==
  /\ s \in Conns /\ s >= client.sess
  /\ \/ c = conn[s]
     \/ conn[s] = NewConn /\ c = [NewConn EXCEPT !.open = TRUE, !.at = "idle"]

\* What waits to be started is what did, and one more.
StartsPlus(s, n) ==
  \E l \in Nat : \A t \in Conns, p, i \in Nat :
    StartIn(conn'[t], p, i) => StartIn(conn[t], p, i) \/ (t = s /\ p = l + 1 /\ i = n)

LEMMA StartPostedFits ==
  ASSUME ServerInv, NEW s, NEW c, FitToStart(s, c), NEW n \in Episodes, n = client.n + 1,
         StartPosted(s, c, n)
  PROVE  /\ ConnQuiet
         /\ \A t \in Conns \ {s} : conn[t] = NewConn => conn'[t] = NewConn
         /\ StartsPlus(s, n)
         /\ \A p, i \in Nat : StartIn(c, p, i) => StartIn(conn[s], p, i)
<1>1. DataOK /\ AllFit /\ \A t \in Conns : ConnOK(conn[t])
  BY Each DEF ServerInv, AllFit
<1>2. NextSeq(n, 0) \in Nat /\ n \in Nat
  BY <1>1, SeqIsNumber, EpisodesAreNumbers
<1>3. PICK m : m = [type |-> "start", seq |-> NextSeq(n, 0), of |-> n]
  OBVIOUS
<1>4. m \in Messages /\ m.of = n
  BY <1>2, <1>3 DEF Messages
<1>5. s \in Conns /\ <<>> \in Seq(Messages)
  BY DEF FitToStart
<1>6. ConnOK(c) /\ SameHandler(conn[s], c) /\ c.up \in Seq(Messages)
  <2>1. CASE c = conn[s]
    BY <1>1, <1>5, <2>1 DEF SameHandler, ConnOK, Connections
  <2>2. CASE conn[s] = NewConn /\ c = [NewConn EXCEPT !.open = TRUE, !.at = "idle"]
    <3>1. ConnOK(NewConn)
      BY <1>1, <1>5, <2>2
    <3>2. ConnOK(c) /\ c.up = <<>>
      BY <2>2, <3>1 DEF ConnOK, Connections, HandlerFits, NewConn
    <3>3. SameHandler(NewConn, c)
      BY <2>2 DEF SameHandler, NewConn, Calm
    <3>4. QED
      BY <1>5, <2>2, <3>2, <3>3
  <2>3. QED
    BY <2>1, <2>2 DEF FitToStart
<1>7. \A p, i \in Nat : StartIn(c, p, i) => StartIn(conn[s], p, i)
  <2>1. CASE c = conn[s]
    BY <2>1
  <2>2. CASE c = [NewConn EXCEPT !.open = TRUE, !.at = "idle"]
    <3>1. c.at = "idle" /\ c.up = <<>>
      BY <2>2 DEF NewConn
    <3>2. QED
      BY <3>1 DEF StartIn
  <2>3. QED
    BY <2>1, <2>2 DEF FitToStart
<1>8. PICK u : u = Append(c.up, m)
  OBVIOUS
<1>9. PICK l \in Nat : l = Len(c.up)
  BY <1>6, LenProperties
<1>10. /\ u \in Seq(Messages) /\ Len(u) = l + 1
       /\ \A p \in 1 .. l : u[p] = c.up[p]
       /\ u[l + 1] = m
  BY <1>4, <1>6, <1>8, <1>9, AppendProperties
<1>11. PICK d : d = [c EXCEPT !.up = u]
  OBVIOUS
<1>12. ConnOK(d) /\ d.at = c.at /\ d.row = c.row /\ d.msg = c.msg /\ d.up = u /\ SameHandler(conn[s], d)
  BY <1>6, <1>10, <1>11 DEF ConnOK, Connections, HandlerFits, SameHandler
<1>13. conn'[s] = d
  BY <1>3, <1>5, <1>8, <1>11 DEF StartPosted, Posted
<1>14. ASSUME NEW t \in Conns \ {s}
       PROVE  /\ ConnOK(conn'[t]) /\ SameHandler(conn[t], conn'[t])
              /\ conn[t] = NewConn => conn'[t] = NewConn
              /\ \A p, i \in Nat : StartIn(conn'[t], p, i) => StartIn(conn[t], p, i)
  <2>1. PICK b : b = conn[t]
    OBVIOUS
  <2>2. conn'[t] = [b EXCEPT !.down = <<>>] /\ ConnOK(b)
    BY <1>1, <2>1 DEF StartPosted
  <2>3. PICK a : a = [b EXCEPT !.down = <<>>]
    OBVIOUS
  <2>4. /\ ConnOK(a) /\ a.at = b.at /\ a.row = b.row /\ a.msg = b.msg /\ a.up = b.up
        /\ b = NewConn => a = NewConn
    <3>1. ConnOK(a) /\ a.at = b.at /\ a.row = b.row /\ a.msg = b.msg /\ a.up = b.up
      BY <1>5, <2>2, <2>3 DEF ConnOK, Connections, HandlerFits
    <3>2. b.down = <<>> => a = b
      BY <2>2, <2>3 DEF ConnOK, Connections
    <3>3. NewConn.down = <<>>
      BY DEF NewConn
    <3>4. QED
      BY <3>1, <3>2, <3>3
  <2>5. SameHandler(b, a) /\ \A p, i \in Nat : StartIn(a, p, i) => StartIn(b, p, i)
    BY <2>4 DEF SameHandler, StartIn
  <2>6. QED
    BY <2>1, <2>2, <2>3, <2>4, <2>5
<1>15. ConnQuiet
  <2>1. ASSUME NEW t \in Conns PROVE ConnOK(conn'[t]) /\ SameHandler(conn[t], conn'[t])
    BY <1>12, <1>13, <1>14
  <2>2. conn' \in [Conns -> Connections]
    <3>1. conn' = [t \in Conns |-> conn'[t]]
      BY DEF StartPosted
    <3>2. QED
      BY <2>1, <3>1 DEF ConnOK
  <2>3. QED
    BY <2>1, <2>2 DEF ConnQuiet, ConnOK
<1>16. ASSUME NEW p \in Nat, NEW i \in Nat, StartIn(d, p, i)
       PROVE  StartIn(conn[s], p, i) \/ (p = l + 1 /\ i = n)
  <2>1. CASE p = 0 /\ d.at = "restarting" /\ d.msg.of = i
    <3>1. StartIn(c, p, i)
      BY <1>12, <2>1 DEF StartIn
    <3>2. QED
      BY <1>7, <3>1
  <2>2. CASE p \in 1 .. Len(u) /\ u[p].type = "start" /\ u[p].of = i
    <3>1. p \in 1 .. l \/ p = l + 1
      BY <1>10, <2>2
    <3>2. CASE p \in 1 .. l
      <4>1. StartIn(c, p, i)
        BY <1>9, <1>10, <2>2, <3>2 DEF StartIn
      <4>2. QED
        BY <1>7, <4>1
    <3>3. CASE p = l + 1
      BY <1>4, <1>10, <2>2, <3>3
    <3>4. QED
      BY <3>1, <3>2, <3>3
  <2>3. QED
    BY <1>12, <1>16, <2>1, <2>2 DEF StartIn
<1>17. \A t \in Conns, p, i \in Nat :
         StartIn(conn'[t], p, i) => StartIn(conn[t], p, i) \/ (t = s /\ p = l + 1 /\ i = n)
  BY <1>13, <1>14, <1>16
<1>18. StartsPlus(s, n)
  BY <1>17 DEF StartsPlus
<1>19. QED
  BY <1>7, <1>14, <1>15, <1>18

\* Episode n is started on connection s, which was c.
StartsOn(s, c, n) ==
  /\ FitToStart(s, c) /\ s # 0 /\ StartPosted(s, c, n)
  /\ client' = [client EXCEPT !.at = "starting", !.n = n, !.sess = s, !.epseq = NextSeq(n, 0),
                              !.active = TRUE, !.blame = 0, !.steps = 0]

LEMMA StartIsPosted ==
  ASSUME ServerInv, Start
  PROVE  \E s, c : StartsOn(s, c, client.n + 1)
<1>1. DataOK /\ client \in Clients
  BY ClientTypes
<1>2. PICK s : s = IF Connected THEN client.sess ELSE client.sess + 1
  OBVIOUS
<1>3. PICK c : c = IF Connected THEN conn[s] ELSE [NewConn EXCEPT !.open = TRUE, !.at = "idle"]
  OBVIOUS
<1>4. FitToStart(s, c) /\ s # 0
  <2>1. CASE Connected
    <3>1. client.sess # 0
      BY <2>1 DEF Connected
    <3>2. client.sess \in Conns /\ client.sess \in Nat
      BY <3>1, OwnConnection, EpisodesAreNumbers
    <3>3. QED
      BY <1>2, <1>3, <2>1, <3>1, <3>2 DEF FitToStart
  <2>2. CASE ~Connected
    <3>1. client.sess < Cardinality(Conns) /\ Cardinality(Conns) \in Nat
      BY <2>2, DaemonsAssumption, FS_CardinalityType DEF Start
    <3>2. client.sess \in {0} \cup Conns
      BY <1>1 DEF Clients
    <3>3. \A r \in {0} \cup Conns : r \in Nat
      BY EpisodesAreNumbers
    <3>4. client.sess \in Nat
      BY <3>2, <3>3
    <3>5. s = client.sess + 1 /\ s \in Nat \ {0} /\ s <= Cardinality(Conns) /\ s > client.sess
      BY <1>2, <2>2, <3>1, <3>4
    <3>6. s \in Conns
      BY <3>5, EpisodesAreNumbers
    <3>7. conn[s] = NewConn
      BY <1>1, <3>5, <3>6 DEF DataOK, ClientFits
    <3>8. QED
      BY <1>3, <2>2, <3>4, <3>5, <3>6, <3>7 DEF FitToStart
  <2>3. QED
    BY <2>1, <2>2
<1>5. StartsOn(s, c, client.n + 1)
  BY <1>2, <1>3, <1>4 DEF Start, StartPosted, StartsOn
<1>6. QED
  BY <1>5

LEMMA StartsNext ==
  ASSUME ServerInv, Start, NEW n, n = client.n + 1
  PROVE  n \in Episodes /\ n \in Nat /\ n > client.n /\ n <= scenario.episodes /\ ep[n].stage = "none"
<1>1. client.n \in Nat /\ client.n < scenario.episodes /\ scenario.episodes \in Episodes
  BY ClientTypes, DaemonsAssumption DEF Start, DataOK
<1>2. n \in Nat \ {0} /\ n <= scenario.episodes /\ n > client.n
  <2>1. scenario.episodes \in Nat
    BY <1>1, EpisodesAreNumbers
  <2>2. QED
    BY <1>1, <2>1
<1>3. n \in Episodes
  BY <1>1, <1>2, EpisodesAreNumbers
<1>4. QED
  BY <1>2, <1>3 DEF ServerInv, StartsFit

LEMMA StartStep ==
  ASSUME ServerInv, Start
  PROVE  ClientKeeps
<1>1. DataOK /\ AllFit /\ RowsFit /\ JobsFit /\ StartsFit /\ StagesStay /\ UNCHANGED <<scenario, ep, jobs, serve>>
  BY DEF ServerInv, AllFit, Start, ServerRests, StagesStay
<1>2. PICK n : n = client.n + 1
  OBVIOUS
<1>3. client \in Clients /\ client.n \in Nat
  BY ClientTypes
<1>4. n \in Episodes /\ n \in Nat /\ n > client.n /\ n <= scenario.episodes /\ ep[n].stage = "none"
  BY <1>2, StartsNext
<1>5. PICK s, c : StartsOn(s, c, n)
  BY <1>2, StartIsPosted
<1>7. FitToStart(s, c) /\ s # 0
  BY <1>5 DEF StartsOn
<1>8. /\ StartPosted(s, c, n)
      /\ client' = [client EXCEPT !.at = "starting", !.n = n, !.sess = s, !.epseq = NextSeq(n, 0),
                                  !.active = TRUE, !.blame = 0, !.steps = 0]
  BY <1>5 DEF StartsOn
<1>9. /\ ConnQuiet
      /\ \A t \in Conns \ {s} : conn[t] = NewConn => conn'[t] = NewConn
      /\ StartsPlus(s, n)
  BY <1>2, <1>4, <1>7, <1>8, StartPostedFits
<1>10. PICK l \in Nat : \A t \in Conns, p, i \in Nat :
         StartIn(conn'[t], p, i) => StartIn(conn[t], p, i) \/ (t = s /\ p = l + 1 /\ i = n)
  BY <1>9 DEF StartsPlus
<1>11. EpQuiet /\ CallsStill
  BY <1>1, EpStill DEF CallsStill
<1>12. RowsFit' /\ jobs' \in Seq(Jobs) /\ JobsFit'
  BY <1>1, <1>9, <1>11, RowsStay, JobsStay
<1>13. client'.n = n /\ client'.sess = s /\ client' \in Clients
  <2>1. NextSeq(n, 0) \in Nat
    BY <1>1, <1>4, SeqIsNumber
  <2>2. QED
    BY <1>3, <1>4, <1>7, <1>8, <2>1 DEF Clients, FitToStart
<1>14. StartsFit'
  <2>1. ASSUME NEW t \in Conns, NEW p \in Nat, NEW i \in Nat, StartIn(conn'[t], p, i)
        PROVE  i \in Episodes /\ i <= client'.n /\ ep'[i].stage = "none"
    <3>1. CASE StartIn(conn[t], p, i)
      <4>1. i \in Episodes /\ i <= client.n /\ ep[i].stage = "none"
        BY <1>1, <3>1 DEF StartsFit, StartAt
      <4>2. QED
        BY <1>1, <1>3, <1>4, <1>13, <4>1
    <3>2. CASE i = n
      BY <1>1, <1>4, <1>13, <3>2
    <3>3. QED
      BY <1>10, <2>1, <3>1, <3>2
  <2>2. ASSUME NEW t \in Conns, NEW r \in Conns, NEW p \in Nat, NEW q \in Nat, NEW i \in Nat,
               StartIn(conn'[t], p, i), StartIn(conn'[r], q, i)
        PROVE  t = r /\ p = q
    <3>1. \A x \in Conns, y \in Nat : StartIn(conn[x], y, i) => i <= client.n
      BY <1>1 DEF StartsFit, StartAt
    <3>2. CASE i = n
      <4>1. ~(i <= client.n)
        BY <1>3, <1>4, <3>2
      <4>2. QED
        BY <1>10, <2>2, <3>1, <4>1
    <3>3. CASE i # n
      <4>1. StartIn(conn[t], p, i) /\ StartIn(conn[r], q, i)
        BY <1>10, <2>2, <3>3
      <4>2. QED
        BY <1>1, <4>1 DEF StartsFit, StartAt
    <3>4. QED
      BY <3>2, <3>3
  <2>3. \A i \in Episodes : i > client'.n => ep'[i].stage = "none"
    <3>1. ASSUME NEW i \in Episodes, i > n PROVE i > client.n
      <4>1. i \in Nat
        BY EpisodesAreNumbers
      <4>2. QED
        BY <1>3, <1>4, <3>1, <4>1
    <3>2. QED
      BY <1>1, <1>13, <3>1 DEF StartsFit
  <2>4. QED
    BY <2>1, <2>2, <2>3 DEF StartsFit, StartAt
<1>15. ClientFits'
  <2>1. ASSUME NEW t \in Conns, t > s PROVE conn'[t] = NewConn
    <3>1. client.sess \in {0} \cup Conns /\ s \in Conns /\ s >= client.sess
      BY <1>3, <1>7 DEF Clients, FitToStart
    <3>2. \A r \in {0} \cup Conns : r \in Nat
      BY EpisodesAreNumbers
    <3>3. t > client.sess /\ t # s
      <4>1. client.sess \in Nat /\ s \in Nat /\ t \in Nat
        BY <3>1, <3>2
      <4>2. QED
        BY <2>1, <3>1, <4>1
    <3>4. QED
      BY <1>1, <1>9, <3>3 DEF DataOK, ClientFits
  <2>2. QED
    BY <1>1, <1>4, <1>7, <1>13, <2>1 DEF ClientFits
<1>16. DataOK'
  BY <1>1, <1>9, <1>12, <1>15 DEF DataOK, ConnQuiet
<1>17. ASSUME NEW t \in Conns PROVE HoldsOn(t)
  <2>1. conn[t] \in Connections
    BY <1>1 DEF DataOK
  <2>2. CASE t = s
    <3>1. conn'[t] = Posted(c, "start", NextSeq(n, 0), n)
      BY <1>8, <2>2 DEF StartPosted
    <3>2. CASE c = conn[s]
      BY <2>1, <2>2, <3>1, <3>2 DEF Posted, Connections, HoldsOn, Waits
    <3>3. CASE c = [NewConn EXCEPT !.open = TRUE, !.at = "idle"]
      BY <3>1, <3>3 DEF Posted, NewConn, HoldsOn, Waits
    <3>4. QED
      BY <1>7, <3>2, <3>3 DEF FitToStart
  <2>3. CASE t # s
    BY <1>8, <2>1, <2>3 DEF StartPosted, Connections, HoldsOn, Waits
  <2>4. QED
    BY <2>2, <2>3
<1>18. QED
  BY <1>9, <1>11, <1>12, <1>14, <1>16, <1>17 DEF ClientKeeps, ServerInv, ConnQuiet, EpQuiet

\* Every step of the client, and of its network.
LEMMA ClientStepKeeps ==
  ASSUME ServerInv, Client \/ Cut
  PROVE  ClientKeeps
BY StartStep, StartsReadStep, GivesUpStep, StepsStep, ListensStep, StopsStep, CutStep DEF Client

LEMMA ServerInvStep ==
  ASSUME ServerInv, [Next]_vars
  PROVE  ServerInv'
<1>1. CASE Client
  BY <1>1, ClientStepKeeps DEF ClientKeeps
<1>2. CASE Cut
  BY <1>2, ClientStepKeeps DEF ClientKeeps
<1>3. CASE Server /\ UNCHANGED client
  BY <1>3, ServerStep
<1>4. CASE UNCHANGED vars
  BY <1>4 DEF vars, daemonVars, ServerInv, DataOK, ClientFits, RowsFit, JobsFit, StartsFit, StartAt
<1>5. QED
  BY <1>1, <1>2, <1>3, <1>4 DEF Next

LEMMA ServerInvInit == Init => ServerInv
<1> SUFFICES ASSUME Init PROVE ServerInv
  OBVIOUS
<1>1. /\ scenario \in Scenarios /\ serve = "up" /\ jobs = <<>>
      /\ conn = [s \in Conns |-> NewConn] /\ ep = [i \in Episodes |-> NewEpisode]
  BY DEF Init, DaemonsInit
<1>2. NoMsg \in Messages /\ NoMsg.of = 0
  BY DEF NoMsg, Messages
<1>3. NewConn \in Connections /\ HandlerFits(NewConn)
  <2>1. <<>> \in Seq(Messages)
    OBVIOUS
  <2>2. QED
    BY <1>2, <2>1 DEF NewConn, Connections, HandlerFits
<1>4. NewEpisode \in EpisodeRows /\ EpisodeFits(NewEpisode)
  <2>1. <<>> \in Seq(Nat) /\ <<>> \in Seq(Deliveries)
    OBVIOUS
  <2>2. NewEpisode \in EpisodeRows
    BY <2>1 DEF NewEpisode, EpisodeRows, Tasks
  <2>3. EpisodeFits(NewEpisode)
    BY DEF NewEpisode, EpisodeFits, OffStage, HasRow, Tasks
  <2>4. QED
    BY <2>2, <2>3
<1>5. client.n = 0 /\ client.sess = 0 /\ client.at = "idle" /\ client \in Clients
  BY <1>2 DEF Init, ClientInit, Clients
<1>6. DataOK
  <2>1. ClientFits
    <3>1. scenario.episodes \in Nat
      BY <1>1, DaemonsAssumption, EpisodesAreNumbers
    <3>2. QED
      BY <1>1, <1>5, <3>1 DEF ClientFits
  <2>2. jobs \in Seq(Jobs)
    BY <1>1
  <2>3. QED
    BY <1>1, <1>3, <1>4, <2>1, <2>2 DEF DataOK
<1>7. RowsFit
  BY <1>1 DEF RowsFit, NewConn, NewEpisode, HasRow
<1>8. JobsFit
  <2>1. ToSet(jobs) = {} /\ Once(jobs)
    BY <1>1 DEF ToSet, Once
  <2>2. \A f \in Jobs : ~Awaits(ep[f.of], f.fn, f.task)
    BY <1>1 DEF Awaits, Jobs, NewEpisode
  <2>3. QED
    BY <2>1, <2>2 DEF JobsFit
<1>9. StartsFit
  BY <1>1 DEF StartsFit, StartAt, StartIn, NewConn, NewEpisode
<1>10. QED
  BY <1>1, <1>3, <1>4, <1>6, <1>7, <1>8, <1>9 DEF ServerInv

\* The handlers, the rows, the model thread and the episodes fit each other at
\* every await (_handle_connection, EpisodeDaemons.on_episode_start and _end).
THEOREM ServerInvariant == Spec => []ServerInv
BY ServerInvInit, ServerInvStep, PTL DEF Spec

\* finish_episodes comes once for every reset that succeeded, and last.
THEOREM FinishIsOnceAndLast == Spec => []FinishedOnceAndLast
<1>1. ASSUME ServerInv PROVE FinishedOnceAndLast
  <2>1. DataOK /\ AllFit /\ JobsFit /\ \A i \in Episodes : EpisodeOK(ep[i])
    BY <1>1, Each DEF ServerInv, AllFit
  <2>2. ASSUME NEW i \in Episodes
        PROVE  /\ ep[i].hook # "wrong"
               /\ ep[i].stage = "over" => ep[i].hook # "reset"
               /\ ep[i].hook = "finished" => \A t \in Tasks \ {"guest"} : ep[i].task[t] = "off"
    BY <2>1 DEF EpisodeOK, EpisodeRows, EpisodeFits, OffStage, HasRow
  <2>3. ASSUME NEW f \in ToSet(jobs), f.fn = "finish", NEW j \in ToSet(jobs), j.of = f.of
        PROVE  j = f
    <3>1. f \in Jobs /\ j \in Jobs
      BY <2>1, SetOf DEF DataOK
    <3>2. Awaits(ep[f.of], f.fn, f.task) /\ Awaits(ep[f.of], j.fn, j.task) /\ EpisodeOK(ep[f.of])
      <4>1. f.of \in Episodes
        BY <3>1 DEF Jobs
      <4>2. QED
        BY <2>1, <2>3, <3>1, <4>1 DEF JobsFit
    <3>3. \A t \in Tasks : ep[f.of].task[t] # "call"
      BY <2>3, <3>2 DEF Awaits, EpisodeOK, EpisodeRows, EpisodeFits, OffStage, HasRow, Tasks
    <3>4. j.fn = "finish" /\ j.task = "none" /\ f.task = "none"
      BY <2>3, <3>2, <3>3 DEF Awaits
    <3>5. QED
      BY <2>3, <3>1, <3>4 DEF Jobs
  <2>4. QED
    BY <2>2, <2>3 DEF FinishedOnceAndLast
<1>2. QED
  BY <1>1, ServerInvariant, PTL

-----------------------------------------------------------------------------
(* No observation waits for a dead episode.                                *)

\* It may still answer, or the server is going down.
Alive(e, how) == ~e.failed /\ (e.closing => how # "up" \/ e.control)

NoWait == \A s \in Conns : Waits(conn[s]) => Alive(ep[conn[s].row], serve)

\* What dies leaves nobody waiting.
LivesOn(i) ==
  ep[i].stage = "run" /\ Alive(ep[i], serve) => Alive(ep'[i], serve') \/ ~Waits(conn'[ep[i].conn])

Down == serve # "up" => serve' # "up"

LEMMA WaitedRuns ==
  ASSUME ServerInv, NEW s \in Conns, Waits(conn[s])
  PROVE  /\ conn[s].row \in Episodes /\ ep[conn[s].row].stage = "run" /\ ep[conn[s].row].conn = s
<1>1. DataOK /\ AllFit /\ RowsFit /\ ConnOK(conn[s])
  BY Each DEF ServerInv, AllFit
<1>2. conn[s].row # 0 /\ conn[s].row \in Episodes
  BY <1>1 DEF Waits, ConnOK, Connections, HandlerFits
<1>3. QED
  BY <1>1, <1>2 DEF RowsFit, Waits, Calm

LEMMA NoWaitStays ==
  ASSUME ServerInv, NoWait, \A s \in Conns : HoldsOn(s), \A i \in Episodes : LivesOn(i)
  PROVE  NoWait'
<1>1. ASSUME NEW s \in Conns, Waits(conn'[s]) PROVE Alive(ep'[conn'[s].row], serve')
  <2>1. Waits(conn[s]) /\ conn'[s].row = conn[s].row
    BY <1>1 DEF HoldsOn
  <2>2. PICK i : i = conn[s].row
    OBVIOUS
  <2>3. i \in Episodes /\ ep[i].stage = "run" /\ ep[i].conn = s
    BY <2>1, <2>2, WaitedRuns
  <2>4. Alive(ep[i], serve)
    BY <2>1, <2>2 DEF NoWait
  <2>5. LivesOn(i)
    BY <2>3
  <2>6. QED
    BY <1>1, <2>1, <2>2, <2>3, <2>4, <2>5 DEF LivesOn
<1>2. QED
  BY <1>1 DEF NoWait, Waits, Alive

\* Connection s is left as c, episode i as e.
Leaving(s, c) == conn' = [conn EXCEPT ![s] = c] /\ (s \in Conns => (Waits(c) => Waits(conn[s]) /\ c.row = conn[s].row))

LEMMA HoldsTouch ==
  ASSUME DataOK, NEW s, NEW c, Leaving(s, c)
  PROVE  \A t \in Conns : HoldsOn(t)
BY DEF DataOK, HoldsOn, Leaving

LEMMA HoldsStill == ASSUME UNCHANGED conn PROVE \A t \in Conns : HoldsOn(t)
BY DEF HoldsOn

SameLife(e, d) == d.failed = e.failed /\ d.closing = e.closing /\ d.control = e.control

Turning(i, e) ==
  /\ ep' = [ep EXCEPT ![i] = e]
  /\ i \in Episodes /\ ep[i].stage = "run" /\ Alive(ep[i], serve) =>
       Alive(e, serve') \/ ~Waits(conn'[ep[i].conn])

LEMMA LivesStill == ASSUME UNCHANGED ep, Down PROVE \A j \in Episodes : LivesOn(j)
BY DEF LivesOn, Alive, Down

LEMMA LivesTouch ==
  ASSUME DataOK, Down, NEW i, NEW e, Turning(i, e)
  PROVE  \A j \in Episodes : LivesOn(j)
<1>1. ASSUME NEW j \in Episodes PROVE LivesOn(j)
  <2>1. CASE j = i
    BY <2>1 DEF DataOK, LivesOn, Turning
  <2>2. CASE j # i
    <3>1. ep'[j] = ep[j]
      BY <2>2 DEF Turning, DataOK
    <3>2. QED
      BY <3>1 DEF LivesOn, Alive, Down
  <2>3. QED
    BY <2>1, <2>2
<1>2. QED
  BY <1>1

LEMMA LivesAsBefore ==
  ASSUME Down, \A j \in Episodes : SameLife(ep[j], ep'[j])
  PROVE  \A j \in Episodes : LivesOn(j)
BY DEF LivesOn, SameLife, Alive, Down

\* A reply ends a wait or changes none.
LEMMA RepliesHold ==
  ASSUME DataOK, AllFit, NEW s, NEW i, NEW k, NEW type,
         \/ conn' = [conn EXCEPT ![s] = Sent(conn[s], type, k, i)]
         \/ conn' = [conn EXCEPT ![s] = Answered(conn[s], i, k, type)]
         \/ conn' = [conn EXCEPT ![s] = Swept(conn[s])]
  PROVE  \A t \in Conns : HoldsOn(t)
<1>1. ASSUME s \in Conns
      PROVE  /\ Waits(Sent(conn[s], type, k, i)) => Waits(conn[s]) /\ Sent(conn[s], type, k, i).row = conn[s].row
             /\ Waits(Answered(conn[s], i, k, type)) => Waits(conn[s]) /\ Answered(conn[s], i, k, type).row = conn[s].row
             /\ ~Waits(Swept(conn[s]))
  <2>1. PICK c \in Connections : c = conn[s]
    BY <1>1 DEF DataOK
  <2>2. Waits(Sent(c, type, k, i)) => Waits(c) /\ Sent(c, type, k, i).row = c.row
    BY DEF Waits, Sent, Connections
  <2>3. Waits(Answered(c, i, k, type)) => Waits(c) /\ Answered(c, i, k, type).row = c.row
    BY <2>2 DEF Waits, Answered, Connections, Sent
  <2>4. ~Waits(Swept(c))
    BY DEF Waits, Swept, Connections
  <2>5. QED
    BY <2>1, <2>2, <2>3, <2>4
<1>2. QED
  BY <1>1, HoldsTouch DEF Leaving

\* The steps that neither close an episode nor fail one.
LEMMA MildStep ==
  ASSUME ServerInv, NEW i \in Episodes,
         \/ HostRuns(i) \/ HostExits(i) \/ SendsError(i) \/ Admits(i) \/ Settled(i) \/ StopsMoving(i)
         \/ Receive(i) \/ Spawns(i) \/ Visits(i)
         \/ \E k \in ep[i].held : Reply(i, k, "action") \/ Reply(i, k, "error")
         \/ \E t \in Tasks : Calls(i, t) \/ Publishes(i, t)
  PROVE  (\A s \in Conns : HoldsOn(s)) /\ (\A j \in Episodes : LivesOn(j))
<1>1. DataOK /\ AllFit /\ ep[i] \in EpisodeRows
  BY DEF ServerInv, AllFit, DataOK
<1>2. Down
  BY DEF Down, HostRuns, HostExits, SendsError, Admits, Settled, StopsMoving, Receive, Spawns, Visits, Reply,
         Calls, Publishes
<1>3. \A s \in Conns : HoldsOn(s)
  <2>1. CASE UNCHANGED conn
    BY <2>1, HoldsStill
  <2>2. CASE SendsError(i)
    BY <1>1, <2>1, <2>2, RepliesHold DEF SendsError
  <2>3. CASE StopsMoving(i)
    BY <1>1, <2>1, <2>3, RepliesHold DEF StopsMoving
  <2>4. ASSUME NEW k \in ep[i].held, NEW type, Reply(i, k, type) PROVE \A s \in Conns : HoldsOn(s)
    BY <1>1, <2>1, <2>4, RepliesHold DEF Reply
  <2>5. ASSUME NEW t \in Tasks, Publishes(i, t) PROVE \A s \in Conns : HoldsOn(s)
    BY <1>1, <2>5, RepliesHold DEF Publishes
  <2>6. QED
    BY <2>1, <2>2, <2>3, <2>4, <2>5
    DEF HostRuns, HostExits, Admits, Settled, Receive, Spawns, Visits, Calls
<1>4. \A j \in Episodes : SameLife(ep[j], ep'[j])
  <2>1. UNCHANGED <<ep[i].failed, ep[i].closing, ep[i].control>> /\ \A j \in Episodes \ {i} : ep'[j] = ep[j]
    <3>1. CASE HostRuns(i)
      BY <1>1, <3>1 DEF HostRuns, DataOK, EpisodeRows
    <3>2. CASE HostExits(i) \/ SendsError(i)
      BY <1>1, <3>2 DEF HostExits, SendsError, DataOK, EpisodeRows
    <3>3. CASE Settled(i) \/ StopsMoving(i)
      BY <1>1, <3>3 DEF Settled, StopsMoving, DataOK, EpisodeRows
    <3>4. CASE Admits(i)
      <4>1. PICK b : b = Put(ep[i], Head(ep[i].moving).seq)
        OBVIOUS
      <4>2. ep' = [ep EXCEPT ![i] = [b EXCEPT !.moving[1].admitted = TRUE]]
        BY <3>4, <4>1 DEF Admits
      <4>3. QED
        BY <1>1, <4>1, <4>2 DEF DataOK, Put, EpisodeRows
    <3>5. CASE Receive(i)
      BY <1>1, <3>5 DEF Receive, DataOK, EpisodeRows
    <3>6. CASE Spawns(i)
      BY <1>1, <3>6 DEF Spawns, DataOK, EpisodeRows
    <3>7. CASE Visits(i)
      BY <1>1, <3>7 DEF Visits, DataOK, EpisodeRows
    <3>8. ASSUME NEW k \in ep[i].held, NEW type, Reply(i, k, type)
          PROVE  UNCHANGED <<ep[i].failed, ep[i].closing, ep[i].control>> /\ \A j \in Episodes \ {i} : ep'[j] = ep[j]
      BY <1>1, <3>8 DEF Reply, DataOK, EpisodeRows
    <3>9. ASSUME NEW t \in Tasks, Calls(i, t)
          PROVE  UNCHANGED <<ep[i].failed, ep[i].closing, ep[i].control>> /\ \A j \in Episodes \ {i} : ep'[j] = ep[j]
      BY <1>1, <3>9 DEF Calls, DataOK, EpisodeRows
    <3>10. ASSUME NEW t \in Tasks, Publishes(i, t)
           PROVE  UNCHANGED <<ep[i].failed, ep[i].closing, ep[i].control>> /\ \A j \in Episodes \ {i} : ep'[j] = ep[j]
      BY <1>1, <3>10 DEF Publishes, DataOK, EpisodeRows
    <3>11. QED
      BY <3>1, <3>2, <3>3, <3>4, <3>5, <3>6, <3>7, <3>8, <3>9, <3>10
  <2>2. QED
    BY <2>1 DEF SameLife
<1>5. QED
  BY <1>2, <1>3, <1>4, LivesAsBefore

\* fail and fail_episode, of an episode that so far kept its row and its life.
LEMMA FailLives ==
  ASSUME ServerInv, NEW i \in Episodes, NEW e \in EpisodeRows, SameRow(ep[i], e), SameLife(ep[i], e),
         Fail(i, e), UNCHANGED serve
  PROVE  (\A s \in Conns : HoldsOn(s)) /\ (\A j \in Episodes : LivesOn(j))
<1>1. DataOK /\ AllFit /\ Down
  BY DEF ServerInv, AllFit, Down
<1>2. \A s \in Conns : HoldsOn(s)
  BY <1>1, HoldsStill, RepliesHold DEF Fail
<1>3. ep' = [ep EXCEPT ![i] = Failed(e)]
  BY DEF Fail
<1>4. CASE Fails(e)
  <2>1. conn' = [conn EXCEPT ![ep[i].conn] = Swept(conn[ep[i].conn])]
    BY <1>4 DEF Fail
  <2>2. ASSUME ep[i].stage = "run" PROVE ~Waits(conn'[ep[i].conn])
    <3>1. ep[i].conn \in Conns
      BY <2>2 DEF ServerInv, RowsFit, HasRow
    <3>2. PICK c \in Connections : c = conn[ep[i].conn]
      BY <1>1, <3>1 DEF DataOK
    <3>3. ~Waits(Swept(c))
      BY DEF Waits, Swept, Connections
    <3>4. QED
      BY <1>1, <2>1, <3>1, <3>2, <3>3 DEF DataOK
  <2>3. Turning(i, Failed(e))
    BY <1>3, <2>2 DEF Turning
  <2>4. QED
    BY <1>1, <1>2, <2>3, LivesTouch
<1>5. CASE ~Fails(e)
  <2>1. Failed(e) = Closed(e)
    BY <1>5 DEF Failed
  <2>2. Closed(e).failed = e.failed /\ Closed(e).closing /\ Closed(e).control = e.control
    BY DEF Closed, EpisodeRows
  <2>3. ep[i].stage = "run" => e.closing
    BY <1>5 DEF Fails, SameRow
  <2>4. ep[i].stage = "run" /\ Alive(ep[i], serve) => Alive(Failed(e), serve')
    BY <2>1, <2>2, <2>3 DEF Alive, SameLife
  <2>5. Turning(i, Failed(e))
    BY <1>3, <2>4 DEF Turning
  <2>6. QED
    BY <1>1, <1>2, <2>5, LivesTouch
<1>6. QED
  BY <1>4, <1>5

\* A task that goes fails its episode, or leaves its life as it was.
LEMMA GoneLives ==
  ASSUME ServerInv, NEW i \in Episodes, NEW t \in Tasks, ep[i].task[t] # "off", UNCHANGED serve,
         ep' = [ep EXCEPT ![i] = Gone(ep[i], t)],
         \/ conn' = IF LeavesFailed(ep[i], t) THEN [conn EXCEPT ![ep[i].conn] = Swept(@)] ELSE conn
         \/ ep[i].closing /\ UNCHANGED conn
  PROVE  (\A s \in Conns : HoldsOn(s)) /\ (\A j \in Episodes : LivesOn(j))
<1>1. DataOK /\ AllFit /\ Down /\ ep[i] \in EpisodeRows
  BY DEF ServerInv, AllFit, Down, DataOK
<1>2. PICK b : b = [ep[i] EXCEPT !.task[t] = "off"]
  OBVIOUS
<1>3. b \in EpisodeRows /\ SameRow(ep[i], b) /\ SameLife(ep[i], b)
  BY <1>1, <1>2 DEF EpisodeRows, SameRow, SameLife
<1>4. Fails(ep[i]) <=> Fails(b)
  BY <1>3 DEF Fails, SameRow, SameLife
<1>5. CASE Gone(ep[i], t) = Failed(b)
  <2>1. Fails(b) => Failed(b).failed
    BY <1>3 DEF Failed, Closed, EpisodeRows
  <2>2. conn' = IF Fails(b) THEN [conn EXCEPT ![ep[i].conn] = Swept(@)] ELSE conn
    BY <1>4, <1>5, <2>1 DEF LeavesFailed, Fails
  <2>3. Fail(i, b)
    BY <1>5, <2>2 DEF Fail
  <2>4. QED
    BY <1>3, <2>3, FailLives
<1>6. CASE Gone(ep[i], t) = b
  <2>1. \A s \in Conns : HoldsOn(s)
    BY <1>1, HoldsStill, RepliesHold
  <2>2. \A j \in Episodes : SameLife(ep[j], ep'[j])
    <3>1. ep' = [ep EXCEPT ![i] = b]
      BY <1>6
    <3>2. QED
      BY <1>1, <1>3, <3>1 DEF DataOK, SameLife
  <2>3. QED
    BY <1>1, <2>1, <2>2, LivesAsBefore
<1>7. QED
  BY <1>2, <1>5, <1>6 DEF Gone

LEMMA ClosingStep ==
  ASSUME ServerInv, NEW i \in Episodes,
         \/ HostLeaves(i) \/ Settles(i)
         \/ \E t \in Tasks : Finishes(i, t) \/ Raises(i, t) \/ Interrupts(i, t) \/ Cancelled(i, t) \/ CallReturns(i, t)
  PROVE  (\A s \in Conns : HoldsOn(s)) /\ (\A j \in Episodes : LivesOn(j))
<1>1. DataOK /\ AllFit /\ ep[i] \in EpisodeRows /\ EpisodeFits(ep[i])
  BY DEF ServerInv, AllFit, DataOK
<1>2. Down
  BY DEF Down, HostLeaves, Settles, Finishes, Raises, Interrupts, Cancelled, CallReturns
<1>3. CASE HostLeaves(i)
  <2>1. PICK e : e = [Closed(ep[i]) EXCEPT !.host = "drain"]
    OBVIOUS
  <2>2. e.failed = ep[i].failed /\ e.control = ep[i].control /\ e.closing
    BY <1>1, <2>1 DEF Closed, EpisodeRows
  <2>3. ep[i].stage = "run" => ep[i].closing
    BY <1>1, <1>3 DEF HostLeaves, EpisodeFits, Tasks
  <2>4. ep' = [ep EXCEPT ![i] = e] /\ UNCHANGED <<conn, serve>>
    BY <1>3, <2>1 DEF HostLeaves
  <2>5. Turning(i, e)
    BY <2>2, <2>3, <2>4 DEF Turning, Alive
  <2>6. QED
    BY <1>1, <1>2, <2>4, <2>5, HoldsStill, LivesTouch
<1>4. CASE Settles(i)
  <2>1. UNCHANGED serve /\ Moving(i)
    BY <1>4 DEF Settles
  <2>2. CASE Head(ep[i].moving).settles < MaxSettles
    <3>1. UNCHANGED conn
      BY <1>4, <2>2 DEF Settles
    <3>2. UNCHANGED <<ep[i].failed, ep[i].closing, ep[i].control>> /\ \A j \in Episodes \ {i} : ep'[j] = ep[j]
      BY <1>1, <1>4, <2>2 DEF Settles, DataOK, EpisodeRows
    <3>3. \A j \in Episodes : SameLife(ep[j], ep'[j])
      BY <3>2 DEF SameLife
    <3>4. QED
      BY <1>2, <3>1, <3>3, HoldsStill, LivesAsBefore
  <2>3. CASE ~(Head(ep[i].moving).settles < MaxSettles)
    <3>1. PICK e : e = [ep[i] EXCEPT !.moving = Tail(@)]
      OBVIOUS
    <3>2. Tail(ep[i].moving) \in Seq(Deliveries)
      BY <1>1, <2>1, TailFacts DEF Moving, EpisodeRows
    <3>3. e \in EpisodeRows /\ SameRow(ep[i], e) /\ SameLife(ep[i], e)
      BY <1>1, <3>1, <3>2 DEF EpisodeRows, SameRow, SameLife
    <3>4. Fail(i, e)
      BY <1>4, <2>3, <3>1 DEF Settles
    <3>5. QED
      BY <2>1, <3>3, <3>4, FailLives
  <2>4. QED
    BY <2>2, <2>3
<1>5. ASSUME NEW t \in Tasks, Finishes(i, t) PROVE (\A s \in Conns : HoldsOn(s)) /\ (\A j \in Episodes : LivesOn(j))
  <2>1. /\ ep[i].task[t] # "off" /\ UNCHANGED serve /\ ep' = [ep EXCEPT ![i] = Gone(ep[i], t)]
        /\ conn' = IF LeavesFailed(ep[i], t) THEN [conn EXCEPT ![ep[i].conn] = Swept(@)] ELSE conn
    BY <1>5 DEF Finishes, TaskGoes, Ready
  <2>2. QED
    BY <2>1, GoneLives
<1>6. ASSUME NEW t \in Tasks, Raises(i, t) PROVE (\A s \in Conns : HoldsOn(s)) /\ (\A j \in Episodes : LivesOn(j))
  <2>1. PICK e : e = [ep[i] EXCEPT !.task[t] = "off"]
    OBVIOUS
  <2>2. e \in EpisodeRows /\ SameRow(ep[i], e) /\ SameLife(ep[i], e)
    BY <1>1, <2>1 DEF EpisodeRows, SameRow, SameLife
  <2>3. Fail(i, e) /\ UNCHANGED serve
    BY <1>6, <2>1 DEF Raises
  <2>4. QED
    BY <2>2, <2>3, FailLives
<1>7. ASSUME NEW t \in Tasks, Interrupts(i, t) PROVE (\A s \in Conns : HoldsOn(s)) /\ (\A j \in Episodes : LivesOn(j))
  <2>1. PICK e : e = [Closed(ep[i]) EXCEPT !.task[t] = "off", !.control = TRUE]
    OBVIOUS
  <2>2. e.failed = ep[i].failed /\ e.control
    BY <1>1, <2>1 DEF Closed, EpisodeRows
  <2>3. ep' = [ep EXCEPT ![i] = e] /\ UNCHANGED <<conn, serve>>
    BY <1>7, <2>1 DEF Interrupts
  <2>4. Turning(i, e)
    BY <2>2, <2>3 DEF Turning, Alive
  <2>5. QED
    BY <1>1, <1>2, <2>3, <2>4, HoldsStill, LivesTouch
<1>8. ASSUME NEW t \in Tasks, Cancelled(i, t) PROVE (\A s \in Conns : HoldsOn(s)) /\ (\A j \in Episodes : LivesOn(j))
  <2>1. /\ ep[i].task[t] # "off" /\ UNCHANGED <<conn, serve>> /\ ep' = [ep EXCEPT ![i] = Gone(ep[i], t)]
        /\ ep[i].closing
    BY <1>8 DEF Cancelled, Ready
  <2>2. QED
    BY <2>1, GoneLives
<1>9. ASSUME NEW t \in Tasks, CallReturns(i, t) PROVE (\A s \in Conns : HoldsOn(s)) /\ (\A j \in Episodes : LivesOn(j))
  <2>1. PICK b : b = IF ep[i].closing THEN Gone(ep[i], t) ELSE [ep[i] EXCEPT !.task[t] = "ready"]
    OBVIOUS
  <2>2. PICK f \in BOOLEAN : f = (mode = "clocked")
    OBVIOUS
  <2>3. PICK e : e = [b EXCEPT !.fresh = f]
    OBVIOUS
  <2>4. ep' = [ep EXCEPT ![i] = e] /\ UNCHANGED <<conn, serve>>
    BY <1>9, <2>1, <2>2, <2>3 DEF CallReturns
  <2>5. SameLife(ep[i], e)
    <3>1. CASE ep[i].closing
      BY <1>1, <2>1, <2>3, <3>1 DEF Gone, Failed, Fails, Closed, EpisodeRows, SameLife
    <3>2. CASE ~ep[i].closing
      BY <1>1, <2>1, <2>3, <3>2 DEF EpisodeRows, SameLife
    <3>3. QED
      BY <3>1, <3>2
  <2>6. \A j \in Episodes : SameLife(ep[j], ep'[j])
    BY <1>1, <2>4, <2>5 DEF DataOK, SameLife
  <2>7. QED
    BY <1>2, <2>4, <2>6, HoldsStill, LivesAsBefore
<1>10. QED
  BY <1>3, <1>4, <1>5, <1>6, <1>7, <1>8, <1>9

LEMMA ServerDownStep ==
  ASSUME ServerInv, Shutdown \/ Sweeps
  PROVE  (\A s \in Conns : HoldsOn(s)) /\ (\A j \in Episodes : LivesOn(j))
<1>1. DataOK /\ UNCHANGED conn
  BY DEF ServerInv, Shutdown, Sweeps
<1>2. CASE Shutdown
  BY <1>1, <1>2, HoldsStill, LivesStill DEF Shutdown, Down
<1>3. CASE Sweeps
  <2>1. ASSUME NEW j \in Episodes PROVE LivesOn(j)
    <3>1. Closed(ep[j]).failed = ep[j].failed
      BY <1>1 DEF Closed, DataOK, EpisodeRows
    <3>2. serve' # "up" /\ ep'[j].failed = ep[j].failed
      BY <1>3, <3>1 DEF Sweeps
    <3>3. QED
      BY <3>2 DEF LivesOn, Alive
  <2>2. QED
    BY <1>1, <2>1, HoldsStill
<1>4. QED
  BY <1>2, <1>3

\* A handler's step that leaves its connection not waiting.
LEMMA HandlerLives ==
  ASSUME ServerInv, NoWait, UNCHANGED serve, NEW s \in Conns, ~Waits(conn'[s]),
         \A t \in Conns \ {s} : conn'[t] = conn[t],
         \A j \in Episodes : ep[j].stage # "run" \/ SameLife(ep[j], ep'[j])
  PROVE  NoWait'
<1>1. \A t \in Conns : HoldsOn(t)
  BY DEF HoldsOn
<1>2. \A j \in Episodes : LivesOn(j)
  BY DEF LivesOn, SameLife, Alive
<1>3. QED
  BY <1>1, <1>2, NoWaitStays

\* Episodes but i are as they were, and i is not running or lives as it did.
LEMMA EndingLives ==
  ASSUME DataOK, NEW i, i \in Episodes \cup {0},
         ep' = IF i = 0 THEN ep ELSE [ep EXCEPT ![i] = Ending(ep[i])]
  PROVE  \A j \in Episodes : SameLife(ep[j], ep'[j])
<1>1. ASSUME NEW j \in Episodes PROVE SameLife(ep[j], ep'[j])
  <2>1. SameLife(ep[j], Ending(ep[j]))
    BY DEF DataOK, EpisodeRows, SameLife, Ending
  <2>2. QED
    BY <2>1 DEF DataOK, SameLife
<1>2. QED
  BY <1>1

\* A handler that idles does not wait.
LEMMA IdleLives ==
  ASSUME NEW c \in Connections, NEW type, NEW k, NEW i
  PROVE  Idle(c).at = "idle" /\ Idle(Sent(c, type, k, i)).at = "idle"
         /\ \A o, r : /\ [Idle(Sent(c, type, k, i)) EXCEPT !.open = o].at = "idle"
                      /\ [Idle(Sent(c, type, k, i)) EXCEPT !.row = r].at = "idle"
BY DEF Idle, Sent, Connections

LEMMA ReadsLives ==
  ASSUME ServerInv, NoWait, NEW s \in Conns, ReadStart(s) \/ ReadEnd(s) \/ Leaves(s)
  PROVE  NoWait'
<1>1. DataOK /\ UNCHANGED serve /\ conn[s] \in Connections
  BY DEF ServerInv, DataOK, ReadStart, ReadEnd, Leaves
<1>2. conn'[s].at # "waiting" /\ \A t \in Conns \ {s} : conn'[t] = conn[t]
  <2>1. CASE ReadStart(s)
    BY <1>1, <2>1 DEF DataOK, Connections, ReadStart
  <2>2. CASE ReadEnd(s)
    BY <1>1, <2>2 DEF DataOK, Connections, ReadEnd
  <2>3. CASE Leaves(s)
    BY <1>1, <2>3 DEF DataOK, Connections, Leaves
  <2>4. QED
    BY <2>1, <2>2, <2>3
<1>3. PICK i : i = conn[s].row
  OBVIOUS
<1>4. i \in Episodes \cup {0}
  BY <1>1, <1>3 DEF Connections
<1>5. ep' = IF i = 0 THEN ep ELSE [ep EXCEPT ![i] = Ending(ep[i])]
  BY <1>3 DEF ReadStart, ReadEnd, Leaves
<1>6. \A j \in Episodes : SameLife(ep[j], ep'[j])
  BY <1>1, <1>4, <1>5, EndingLives
<1>7. QED
  BY <1>1, <1>2, <1>6, HandlerLives DEF Waits

LEMMA StartingLives ==
  ASSUME ServerInv, NoWait, NEW s \in Conns,
         StartEpisode(s) \/ StartFails(s) \/ Starts(s) \/ RollsBack(s) \/ RolledBack(s)
  PROVE  NoWait'
<1>1. DataOK /\ AllFit /\ RowsFit /\ UNCHANGED serve /\ conn[s] \in Connections /\ ConnOK(conn[s])
  BY Each DEF ServerInv, AllFit, DataOK, StartEpisode, StartFails, Starts, RollsBack, RolledBack
<1>2. \A t \in Conns \ {s} : conn'[t] = conn[t]
  BY <1>1 DEF DataOK, StartEpisode, StartFails, Starts, RollsBack, RolledBack
<1>3. conn'[s].at # "waiting"
  <2>1. CASE StartEpisode(s)
    <3>1. CASE conn' = [conn EXCEPT ![s].at = "starting"]
      BY <1>1, <3>1 DEF DataOK, Connections
    <3>2. ASSUME NEW stays \in BOOLEAN,
                 conn' = [conn EXCEPT ![s] = [Idle(Sent(@, "error", conn[s].msg.seq, conn[s].msg.of)) EXCEPT
                                               !.open = conn[s].open /\ stays]]
          PROVE  conn'[s].at # "waiting"
      BY <1>1, <3>2, IdleLives DEF DataOK
    <3>3. QED
      BY <2>1, <3>1, <3>2 DEF StartEpisode
  <2>2. CASE StartFails(s)
    BY <1>1, <2>2, IdleLives DEF DataOK, StartFails
  <2>3. CASE Starts(s)
    BY <1>1, <2>3, IdleLives DEF DataOK, Starts
  <2>4. CASE RollsBack(s)
    BY <1>1, <2>4 DEF DataOK, Connections, RollsBack
  <2>5. CASE RolledBack(s)
    BY <1>1, <2>5, IdleLives DEF DataOK, RolledBack
  <2>6. QED
    BY <2>1, <2>2, <2>3, <2>4, <2>5
<1>4. PICK i : i = conn[s].msg.of
  OBVIOUS
<1>5. \A j \in Episodes : ep[j].stage # "run" \/ SameLife(ep[j], ep'[j])
  <2>1. CASE StartEpisode(s)
    <3>1. ASSUME NEW j \in Episodes PROVE SameLife(ep[j], ep'[j])
      <4>1. PICK e \in EpisodeRows : e = ep[j]
        BY <1>1 DEF DataOK
      <4>2. ep'[j] = e \/ ep'[j] = [e EXCEPT !.stage = "reset", !.current = TRUE, !.conn = s, !.seq = conn[s].msg.seq]
        BY <1>1, <2>1, <4>1 DEF StartEpisode, DataOK
      <4>3. SameLife(e, [e EXCEPT !.stage = "reset", !.current = TRUE, !.conn = s, !.seq = conn[s].msg.seq])
        BY DEF SameLife, EpisodeRows
      <4>4. QED
        BY <4>1, <4>2, <4>3 DEF SameLife
    <3>2. QED
      BY <3>1
  <2>2. CASE conn[s].at \in {"starting", "rolling"} /\ \A j \in Episodes \ {i} : ep'[j] = ep[j]
    <3>1. i \in Episodes /\ ep[i].stage = "reset"
      BY <1>1, <1>4, <2>2 DEF RowsFit
    <3>2. QED
      BY <2>2, <3>1 DEF SameLife
  <2>3. QED
    BY <1>1, <1>4, <2>1, <2>2 DEF DataOK, StartFails, Starts, RollsBack, RolledBack
<1>6. QED
  BY <1>1, <1>2, <1>3, <1>5, HandlerLives DEF Waits

LEMMA EndsLives ==
  ASSUME ServerInv, NoWait, NEW s \in Conns, CloseEnded(s) \/ FinishEnded(s) \/ Ended(s)
  PROVE  NoWait'
<1>1. DataOK /\ AllFit /\ RowsFit /\ UNCHANGED serve /\ conn[s] \in Connections
  BY DEF ServerInv, AllFit, DataOK, CloseEnded, FinishEnded, Ended
<1>2. conn[s].row # 0 /\ conn[s].at \in {"restarting", "ending", "leaving"}
  BY DEF CloseEnded, FinishEnded, Ended, IsEnding
<1>3. conn'[s].at # "waiting" /\ \A t \in Conns \ {s} : conn'[t] = conn[t]
  BY ZenonT(20), <1>1, <1>2 DEF DataOK, Connections, CloseEnded, FinishEnded, Ended
<1>4. PICK i : i = conn[s].row
  OBVIOUS
<1>5. ep[i].stage # "run"
  BY <1>1, <1>2, <1>4 DEF RowsFit, Calm
<1>6. \A j \in Episodes \ {i} : ep'[j] = ep[j]
  BY <1>1, <1>4 DEF DataOK, CloseEnded, FinishEnded, Ended
<1>7. \A j \in Episodes : ep[j].stage # "run" \/ SameLife(ep[j], ep'[j])
  BY <1>5, <1>6 DEF SameLife
<1>8. QED
  BY <1>1, <1>3, <1>7, HandlerLives DEF Waits

LEMMA WaitLives ==
  ASSUME ServerInv, NoWait, NEW s \in Conns, Replies(s) \/ StopsWaiting(s)
  PROVE  NoWait'
<1>1. DataOK /\ UNCHANGED <<serve, ep>> /\ conn[s] \in Connections
  BY DEF ServerInv, DataOK, Replies, StopsWaiting
<1>2. \A t \in Conns \ {s} : conn'[t] = conn[t]
  BY <1>1 DEF DataOK, Replies, StopsWaiting
<1>3. conn'[s].at # "waiting"
  BY <1>1, IdleLives DEF DataOK, Replies, StopsWaiting
<1>4. QED
  BY <1>1, <1>2, <1>3, HandlerLives DEF Waits, SameLife

\* An observation that is read waits for a living episode, or has its answer.
LEMMA ObserveLives ==
  ASSUME ServerInv, NoWait, NEW s \in Conns, Observe(s)
  PROVE  NoWait'
<1>1. DataOK /\ AllFit /\ RowsFit /\ UNCHANGED serve /\ conn[s] \in Connections /\ ConnOK(conn[s])
  BY Each DEF ServerInv, AllFit, DataOK, Observe
<1>2. PICK i : i = conn[s].row
  OBVIOUS
<1>3. conn[s].at = "idle" /\ conn[s].up # <<>> /\ i # 0 /\ i \in Episodes /\ ep[i].conn = s /\ conn[s].answer = "none"
  BY <1>1, <1>2 DEF Observe, Reads, Connections, ConnOK, HandlerFits, RowsFit
<1>4. PICK k : k = Head(conn[s].up).seq
  OBVIOUS
<1>5. PICK read : read = IF mode = "live" THEN [conn[s] EXCEPT !.up = Tail(@)]
                         ELSE [conn[s] EXCEPT !.up = Tail(@), !.msg = Head(conn[s].up), !.at = "waiting"]
  OBVIOUS
<1>6. /\ read.row = i /\ read.answer = "none" /\ (mode = "live" => ~Waits(read))
      /\ mode # "live" => read.at = "waiting" /\ read.msg.seq = k
  BY <1>1, <1>2, <1>3, <1>4, <1>5 DEF Connections, Waits
<1>7. \A t \in Conns \ {s} : conn'[t] = conn[t] /\ conn[t].row # i
  <2>1. \A t \in Conns \ {s} : conn'[t] = conn[t]
    BY <1>1 DEF Observe, DataOK
  <2>2. \A t \in Conns \ {s} : conn[t].row # i
    BY <1>1, <1>3 DEF RowsFit
  <2>3. QED
    BY <2>1, <2>2
<1>8. \A j \in Episodes \ {i} : ep'[j] = ep[j]
  BY <1>1, <1>2 DEF Observe, DataOK
<1>9. ASSUME Waits(conn'[s]) PROVE conn'[s].row = i /\ Alive(ep'[i], serve')
  <2>1. CASE ep[i].failed \/ ep[i].closing
    <3>1. conn'[s] = Answered(read, i, k, "error")
      BY <1>1, <1>2, <1>4, <1>5, <2>1 DEF Observe, DataOK
    <3>2. CASE mode = "live"
      <4>1. Answered(read, i, k, "error") = Sent(read, "error", k, i)
        BY <3>2 DEF Answered
      <4>2. Sent(read, "error", k, i).at = read.at /\ Sent(read, "error", k, i).answer = read.answer
        <5>1. read = [conn[s] EXCEPT !.up = Tail(@)]
          BY <1>5, <3>2
        <5>2. QED
          BY <1>1, <5>1 DEF Sent, Connections
      <4>3. QED
        BY <1>6, <1>9, <3>1, <3>2, <4>1, <4>2 DEF Waits
    <3>3. CASE mode # "live"
      <4>1. Answered(read, i, k, "error") = [read EXCEPT !.answer = "error"]
        BY <1>6, <3>3 DEF Answered
      <4>2. [read EXCEPT !.answer = "error"].answer = "error"
        <5>1. read = [conn[s] EXCEPT !.up = Tail(@), !.msg = Head(conn[s].up), !.at = "waiting"]
          BY <1>5, <3>3
        <5>2. QED
          BY <1>1, <5>1 DEF Connections
      <4>3. QED
        BY <1>9, <3>1, <4>1, <4>2 DEF Waits
    <3>4. QED
      BY <3>2, <3>3
  <2>2. CASE ~(ep[i].failed \/ ep[i].closing) /\ mode # "clocked" /\ Overflows(ep[i])
    <3>1. conn'[s] = Swept(read)
      BY <1>1, <1>2, <1>4, <1>5, <2>2 DEF Observe, DataOK
    <3>2. ~Waits(Swept(read))
      <4>1. CASE mode = "live"
        BY <1>6, <4>1 DEF Swept, Waits
      <4>2. CASE mode # "live"
        <5>1. read = [conn[s] EXCEPT !.up = Tail(@), !.msg = Head(conn[s].up), !.at = "waiting"]
          BY <1>5, <4>2
        <5>2. [read EXCEPT !.answer = "error"].answer = "error"
          BY <1>1, <5>1 DEF Connections
        <5>3. QED
          BY <5>2 DEF Swept, Waits
      <4>3. QED
        BY <4>1, <4>2
    <3>3. QED
      BY <1>9, <3>1, <3>2
  <2>3. CASE ~(ep[i].failed \/ ep[i].closing) /\ ~(mode # "clocked" /\ Overflows(ep[i]))
    <3>1. conn'[s] = read
      BY <1>1, <1>2, <1>4, <1>5, <2>3 DEF Observe, DataOK
    <3>2. SameLife(ep[i], ep'[i])
      <4>1. PICK e \in EpisodeRows : e = ep[i]
        BY <1>1, <1>3 DEF DataOK
      <4>2. \/ ep'[i] = [e EXCEPT !.moving = Append(@, [seq |-> k, admitted |-> FALSE, settles |-> 0])]
            \/ ep'[i] = Put(e, k)
        BY <1>1, <1>2, <1>3, <1>4, <2>3, <4>1 DEF Observe, DataOK
      <4>3. \A x : SameLife(e, [e EXCEPT !.moving = x]) /\ SameLife(e, [e EXCEPT !.box = x])
        BY DEF SameLife, EpisodeRows
      <4>4. QED
        BY <4>1, <4>2, <4>3 DEF Put
    <3>3. QED
      BY <1>6, <2>3, <3>1, <3>2 DEF Alive, SameLife
  <2>4. QED
    BY <2>1, <2>2, <2>3
<1>10. ASSUME NEW t \in Conns \ {s}, Waits(conn'[t]) PROVE Alive(ep'[conn'[t].row], serve')
  <2>1. Waits(conn[t]) /\ conn'[t] = conn[t] /\ conn[t].row # i
    BY <1>7, <1>10
  <2>2. conn[t].row \in Episodes /\ Alive(ep[conn[t].row], serve)
    BY <2>1, WaitedRuns DEF NoWait
  <2>3. QED
    BY <1>1, <1>8, <2>1, <2>2
<1>11. QED
  BY <1>9, <1>10 DEF NoWait, Waits, Alive

LEMMA ServerLives ==
  ASSUME ServerInv, NoWait, Server
  PROVE  NoWait'
<1>1. ASSUME NEW s \in Conns, Handler(s) PROVE NoWait'
  BY <1>1, ReadsLives, StartingLives, EndsLives, WaitLives, ObserveLives DEF Handler
<1>2. ASSUME NEW i \in Episodes,
             Hosts(i) \/ Delivers(i) \/ UserCode(i) \/ \E t \in Tasks : Cancelled(i, t) \/ CallReturns(i, t)
      PROVE  NoWait'
  <2>1. (\A s \in Conns : HoldsOn(s)) /\ (\A j \in Episodes : LivesOn(j))
    <3>1. CASE Hosts(i)
      BY <3>1, MildStep, ClosingStep DEF Hosts
    <3>2. CASE Delivers(i)
      BY <3>2, MildStep, ClosingStep DEF Delivers
    <3>3. CASE Receive(i) \/ Spawns(i) \/ Visits(i) \/ \E k \in ep[i].held : Reply(i, k, "action") \/ Reply(i, k, "error")
      BY <3>3, MildStep
    <3>4. ASSUME NEW t \in Tasks, Calls(i, t) \/ Publishes(i, t)
          PROVE  (\A s \in Conns : HoldsOn(s)) /\ (\A j \in Episodes : LivesOn(j))
      BY <3>4, MildStep
    <3>5. ASSUME NEW t \in Tasks,
                 Finishes(i, t) \/ Raises(i, t) \/ Interrupts(i, t) \/ Cancelled(i, t) \/ CallReturns(i, t)
          PROVE  (\A s \in Conns : HoldsOn(s)) /\ (\A j \in Episodes : LivesOn(j))
      BY <3>5, ClosingStep
    <3>6. QED
      BY <1>2, <3>1, <3>2, <3>3, <3>4, <3>5 DEF UserCode
  <2>2. QED
    BY <2>1, NoWaitStays
<1>3. CASE Shutdown \/ Sweeps
  BY <1>3, ServerDownStep, NoWaitStays
<1>4. QED
  BY <1>1, <1>2, <1>3 DEF Server

-----------------------------------------------------------------------------
(* The client begins and ends no wait of a handler.                        *)

LEMMA ClientLives ==
  ASSUME ServerInv, NoWait, Client \/ Cut
  PROVE  NoWait'
<1>1. DataOK /\ AllFit /\ UNCHANGED <<ep, serve>> /\ \A s \in Conns : conn[s] \in Connections
  BY DEF ServerInv, AllFit, DataOK, Client, Cut, ServerRests, Start, DropsEarly, StartReady, StartRefused, TimesOut,
         LosesConnection, Sends, Acts, ActFails, Ticks, Listens, StepFails, Stops
<1>2. \A j \in Episodes : LivesOn(j)
  BY <1>1, LivesStill DEF Down
<1>3. \A s \in Conns : HoldsOn(s)
  BY ClientStepKeeps DEF ClientKeeps
<1>4. QED
  BY <1>2, <1>3, NoWaitStays

LEMMA NoWaitStep ==
  ASSUME ServerInv, NoWait, [Next]_vars
  PROVE  NoWait'
<1>1. CASE Client \/ Cut
  BY <1>1, ClientLives
<1>2. CASE Server /\ UNCHANGED client
  BY <1>2, ServerLives
<1>3. CASE UNCHANGED vars
  BY <1>3 DEF vars, daemonVars, NoWait, Waits, Alive
<1>4. QED
  BY <1>1, <1>2, <1>3 DEF Next

LEMMA NoWaitInit == Init => NoWait
BY DEF Init, DaemonsInit, NoWait, Waits, NewConn

LEMMA NoWaitSays ==
  ASSUME ServerInv, NoWait
  PROVE  NoWaitOnADeadEpisode
<1>1. ASSUME NEW s \in Conns, conn[s].at = "waiting", conn[s].answer = "none"
      PROVE  /\ conn[s].row # 0 /\ ~ep[conn[s].row].failed
             /\ ep[conn[s].row].closing => serve # "up" \/ ep[conn[s].row].control
  <2>1. conn[s].row # 0
    BY <1>1 DEF ServerInv, HandlerFits
  <2>2. QED
    BY <1>1, <2>1 DEF NoWait, Waits, Alive
<1>2. QED
  BY <1>1 DEF NoWaitOnADeadEpisode

\* An observation never waits for an episode that can no longer answer it,
\* whatever fails, closes or shuts down, and in whatever order
\* (fail_episode, _observe, EpisodeDaemons.on_observation, _deliver).
THEOREM NothingWaitsInVain == Spec => []NoWaitOnADeadEpisode
<1>1. Init => ServerInv /\ NoWait
  BY ServerInvInit, NoWaitInit
<1>2. ServerInv /\ NoWait /\ [Next]_vars => (ServerInv /\ NoWait)'
  BY ServerInvStep, NoWaitStep
<1>3. ServerInv /\ NoWait => NoWaitOnADeadEpisode
  BY NoWaitSays
<1>4. QED
  BY <1>1, <1>2, <1>3, PTL DEF Spec

=============================================================================

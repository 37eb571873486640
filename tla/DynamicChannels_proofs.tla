----------------------- MODULE DynamicChannels_proofs -----------------------
(***************************************************************************)
(* For every number of channels, writers and messages, every length of a   *)
(* message and every size of a PDU: what a plugin of the client or a reader*)
(* of the server gets are the whole messages that the other end wrote, in  *)
(* their order; the two ends agree on which channels are open; and data    *)
(* makes the server give up the connection only after a close.             *)
(*                                                                         *)
(* The pieces of a channel's messages in a FIFO form a chain: it begins    *)
(* where the receiver's last message, or its part of one, ends, and it ends*)
(* where the writer goes on.  The writer adds to one end, the receiver     *)
(* takes from the other, and what other channels send does not matter.     *)
(***************************************************************************)
EXTENDS DynamicChannels, FiniteSetTheorems, SequenceTheorems, TLAPS

-----------------------------------------------------------------------------
(***************************************************************************)
(* Messages in pieces.                                                     *)
(***************************************************************************)

Data == {"DATA_FIRST", "DATA"}

\* l units of message n, from unit a on.
Part(n, a, l) == [k \in 1..l |-> <<n, a + k - 1>>]

\* Where the data of a PDU begins: <<message, unit>>.
At(p) == p.data[1]

\* The position x comes before y.
Before(x, y) == x[1] < y[1] \/ (x[1] = y[1] /\ x[2] < y[2])

\* p is a piece of one of the messages wr: a DATA_FIRST, which gives the
\* length of the message, if it is the first of several, a DATA otherwise.
IsPiece(p, wr) ==
    LET n == At(p)[1]
        a == At(p)[2]
        l == Len(p.data)
    IN  /\ n \in 1..Len(wr) /\ a >= 1 /\ l >= 1
        /\ a + l - 1 <= Len(wr[n])
        /\ p.data = Part(n, a, l)
        /\ p.cmd = "DATA_FIRST" <=> (a = 1 /\ l < Len(wr[n]))
        /\ p.cmd = "DATA_FIRST" => p.total = Len(wr[n])

\* Where the piece after p begins.
After(p, wr) ==
    LET n == At(p)[1]
        b == At(p)[2] + Len(p.data)
    IN  IF b > Len(wr[n]) THEN <<n + 1, 1>> ELSE <<n, b>>

\* The PDUs of channel ch in q that carry data.
DataOf(q, ch) == {i \in DOMAIN q : q[i].ch = ch /\ q[i].cmd \in Data}

\* They are pieces of the messages wr ...
Pieces(q, ch, wr) == \A i \in DataOf(q, ch) : IsPiece(q[i], wr)

\* ... each of which follows an earlier one, the first one beginning at r ...
Chain(q, ch, wr, r) ==
    /\ \A j \in DataOf(q, ch) :
         \/ At(q[j]) = r
         \/ \E i \in DataOf(q, ch) : i < j /\ After(q[i], wr) = At(q[j])
    /\ \A i, j \in DataOf(q, ch) : i # j => At(q[i]) # At(q[j])

\* ... and the last one ending at s.
EndsAt(q, ch, wr, r, s) ==
    /\ r = s \/ \E i \in DataOf(q, ch) : After(q[i], wr) = s
    /\ \A i \in DataOf(q, ch) : Before(At(q[i]), s)

\* Every unit of wr[n] has the number n and its index in wr[n].
Numbered(wr) ==
    \A n \in DOMAIN wr :
        wr[n] = Part(n, 1, Len(wr[n])) /\ Len(wr[n]) \in Lengths

\* The write w of channel ch has a rest of the last message of wr to send.
InLast(w, ch, wr) ==
    LET a == Len(wr[Len(wr)]) - Len(w.rest) + 1
    IN  /\ w.ch = ch
        /\ wr # <<>> /\ w.rest # <<>> /\ a >= 1
        /\ w.first <=> a = 1
        /\ w.rest = Part(Len(wr), a, Len(w.rest))

\* Some of that message is sent already.
Midway(w, ch, wr) == InLast(w, ch, wr) /\ ~w.first

\* A receiver has got the whole messages msgs, the first ones of wr, and has
\* the beginning data of the next one, whose length is len.
Received(msgs, wr, data, len) ==
    /\ Len(msgs) <= Len(wr)
    /\ \A k \in DOMAIN msgs : msgs[k] = wr[k]
    /\ data # <<>> =>
         /\ Len(msgs) < Len(wr)
         /\ data = Part(Len(msgs) + 1, 1, Len(data))
         /\ len = Len(wr[Len(msgs) + 1]) /\ Len(data) < len

\* Where the next piece for that receiver begins ...
Expects(msgs, data) == <<Len(msgs) + 1, Len(data) + 1>>

\* ... where the next message after wr begins ...
Fresh(wr) == <<Len(wr) + 1, 1>>

\* ... and the next piece of the write w.
NextOf(w, wr) == IF w.rest = <<>> THEN Fresh(wr) ELSE w.rest[1]

-----------------------------------------------------------------------------
(***************************************************************************)
(* The inductive invariant.                                                *)
(***************************************************************************)

\* The types; the lengths being put together may be any number, and the
\* server gets no request and no WMQ_QUIT.
Shape ==
    /\ drdynvc_state \in {"NONE", "INITIALIZED", "READY"}
    /\ dvc_open_state \in [Channels -> OpenStates]
    /\ dvc_channel_id_seq \in 0..MaxChannels
    /\ peer \in {"up", "eof", "dropped"}
    /\ state \in {"CAPABILITIES", "READY"}
    /\ thread \in {"loop", "respond", "closing", "ended"}
    /\ main \in {"run", "join", "closed"}
    /\ open \subseteq Channels
    /\ sending \in [Channels -> Writes] /\ writing \in [Writers -> Writes]
    /\ queue \in Seq(Pdus) /\ toServer \in Seq(Pdus)
    /\ \A i \in DOMAIN toServer : toServer[i].cmd \notin {"CREATE", "WMQ_QUIT"}
    /\ total_length \in [Channels -> Nat]
    /\ receiveData \in [Channels -> Seq(Units)]
    /\ dvc_data \in [Channels -> [length : Nat, data : Seq(Units)]]
    /\ inbox \in [Channels -> Seq(Seq(Units))]
    /\ got \in [Channels -> Seq(Seq(Units))]
    /\ swritten \in [Channels -> Seq(Seq(Units))]
    /\ cwritten \in [Channels -> Seq(Seq(Units))]
    /\ closes \in [Channels -> Nat]

\* The server's writes and what it has sent of them.
ServerSide ==
    \A ch \in Channels :
        /\ Numbered(swritten[ch])
        /\ sending[ch] = Idle \/ Midway(sending[ch], ch, swritten[ch])
        /\ Pieces(queue, ch, swritten[ch])

\* The same for the client; a channel has one write at a time.
ClientSide ==
    /\ \A ch \in Channels :
        /\ Numbered(cwritten[ch])
        /\ Pieces(toServer, ch, cwritten[ch])
    /\ \A w \in Writers :
        writing[w] # Idle =>
            /\ writing[w].ch \in Channels
            /\ Midway(writing[w], writing[w].ch, cwritten[writing[w].ch])
    /\ \A v, w \in Writers :
        writing[v].ch = writing[w].ch /\ writing[v].ch # 0 => v = w

\* What the client has got of what the server has written.
ClientHas ==
    \A ch \in Channels :
        /\ Received(got[ch], swritten[ch], dvc_data[ch].data,
                    dvc_data[ch].length)
        /\ dvc_data[ch].data = <<>> => dvc_data[ch].length = 0

\* The channel is open on the client, or will be.
Live(ch) == ch \in open \/ Carries(queue, ch, {"CREATE"})

\* The queue has what the client needs next, up to what the server writes next.
Flows(ch) ==
    LET r == Expects(got[ch], dvc_data[ch].data)
        s == NextOf(sending[ch], swritten[ch])
    IN  Live(ch) =>
          /\ Chain(queue, ch, swritten[ch], r)
          /\ peer = "up" => EndsAt(queue, ch, swritten[ch], r, s)

ToClient == \A ch \in Channels : Flows(ch)

\* receiveData counts only while a length is set.
Partial(ch) == IF total_length[ch] = 0 THEN <<>> ELSE receiveData[ch]

ServerHas ==
    \A ch \in Channels :
        /\ Received(inbox[ch], cwritten[ch], Partial(ch), total_length[ch])
        /\ total_length[ch] # 0 => receiveData[ch] # <<>>

FlowsBack(ch) ==
    LET r == Expects(inbox[ch], Partial(ch))
    IN  /\ Chain(toServer, ch, cwritten[ch], r)
        /\ \A w \in Writers :
             writing[w].ch = ch =>
               EndsAt(toServer, ch, cwritten[ch], r, writing[w].rest[1])
        /\ LockFree(ch) =>
             EndsAt(toServer, ch, cwritten[ch], r, Fresh(cwritten[ch]))

ToServer == peer = "up" => \A ch \in Listed : FlowsBack(ch)

\* The server stops before the client's thread does.
Ending ==
    /\ main = "run" =>
         /\ thread \in {"loop", "respond"}
         /\ \A i \in DOMAIN queue : queue[i].cmd # "WMQ_QUIT"
    /\ peer = "up" => main = "run"
    /\ thread = "respond" =>
         queue # <<>> /\ queue[1].cmd = "CREATE" /\ queue[1].ch \in open
    /\ thread = "ended" => open = {}

\* A channel is requested once, before it is open and before its data.
Requests ==
    \A i \in DOMAIN queue :
        queue[i].cmd = "CREATE" =>
            /\ queue[i].ch \in Channels
            /\ ~(thread = "respond" /\ i = 1) =>
                 queue[i].ch \notin open /\ closes[queue[i].ch] = 0
            /\ \A j \in DOMAIN queue :
                 queue[j].ch = queue[i].ch /\ queue[j].cmd = "CREATE" => j = i
            /\ \A j \in DataOf(queue, queue[i].ch) : i < j

\* Nothing has happened on a channel whose number is not given yet.
Untouched(ch) ==
    /\ dvc_open_state[ch] = "UNUSED"
    /\ ch \notin open /\ closes[ch] = 0
    /\ ~Carries(queue, ch, Cmds) /\ ~Carries(toServer, ch, Cmds)
    /\ swritten[ch] = <<>> /\ cwritten[ch] = <<>>
    /\ sending[ch] = Idle /\ LockFree(ch) /\ total_length[ch] = 0

Unused ==
    /\ dvc_channel_id_seq > 0 => drdynvc_state = "READY"
    /\ \A ch \in Channels :
        /\ ch > dvc_channel_id_seq => Untouched(ch)
        /\ dvc_open_state[ch] = "UNUSED" => ch > dvc_channel_id_seq

\* The server has the client's answer, or it is on its way ...
Replied(ch) ==
    \/ dvc_open_state[ch] \in {"SUCCEEDED", "FAILED", "CLOSED", "FREED"}
    \/ Carries(toServer, ch, {"CREATE_OK", "CREATE_FAILED", "CLOSE"})

\* ... and it is that the channel is refused or closed.
Gone(ch) ==
    \/ dvc_open_state[ch] \in {"FAILED", "CLOSED"}
    \/ Carries(toServer, ch, {"CREATE_FAILED", "CLOSE"})

\* An acceptance is on its way, in q, only for a channel that is among the
\* open ones O, or closed again behind it.
Accepted(q, ch, O) ==
    \A i \in DOMAIN q :
        q[i].ch = ch /\ q[i].cmd = "CREATE_OK" =>
          \/ ch \in O
          \/ \E j \in DOMAIN q : i < j /\ q[j].ch = ch /\ q[j].cmd = "CLOSE"

\* An answer means that the request is gone from the queue; after a refusal
\* or a close the channel is not open.
Answered ==
    \A ch \in Channels :
        /\ Replied(ch) => ~Carries(queue, ch, {"CREATE"})
        /\ Gone(ch) => ch \notin open
        /\ peer = "up" => Accepted(toServer, ch, open)

ClosedOnce == \A ch \in Channels : closes[ch] <= IF ch \in open THEN 0 ELSE 1

DvcInv ==
    /\ Shape
    /\ ServerSide /\ ClientSide
    /\ ClientHas /\ ToClient /\ ServerHas /\ ToServer
    /\ Ending /\ Requests /\ Unused /\ Answered /\ ClosedOnce
    /\ OpenAgrees /\ CloseReachesClient

-----------------------------------------------------------------------------
(***************************************************************************)
(* Parts of a message.                                                     *)
(***************************************************************************)

\* A part is a sequence of units.
LEMMA PartSeq ==
    ASSUME NEW n \in Nat, NEW a \in Nat, NEW l \in Nat, a >= 1
    PROVE  /\ Part(n, a, l) \in Seq(Units)
           /\ Len(Part(n, a, l)) = l
           /\ \A k \in 1..l : Part(n, a, l)[k] = <<n, a + k - 1>>
<1>1. \A k \in 1..l : <<n, a + k - 1>> \in Units
  BY DEF Units
<1>2. Part(n, a, l) \in [1..l -> Units]
  BY <1>1 DEF Part
<1>3. Part(n, a, l) \in Seq(Units) /\ Len(Part(n, a, l)) = l
  BY <1>2
<1>4. \A k \in 1..l : Part(n, a, l)[k] = <<n, a + k - 1>>
  BY DEF Part
<1> QED
  BY <1>3, <1>4

\* It begins with the unit a.
LEMMA PartFirst ==
    ASSUME NEW n \in Nat, NEW a \in Nat, NEW l \in Nat, a >= 1, l >= 1
    PROVE  Part(n, a, l)[1] = <<n, a>> /\ Part(n, a, l) # <<>>
<1>1. 1 \in 1..l /\ a + 1 - 1 = a
  OBVIOUS
<1>2. Part(n, a, l)[1] = <<n, a + 1 - 1>>
  BY <1>1, PartSeq
<1>3. Len(Part(n, a, l)) = l
  BY PartSeq
<1> QED
  BY <1>1, <1>2, <1>3

\* Two sequences of units that agree everywhere are equal.
LEMMA UnitsEqual ==
    ASSUME NEW s \in Seq(Units), NEW t \in Seq(Units), Len(s) = Len(t),
           \A k \in 1..Len(s) : s[k] = t[k]
    PROVE  s = t
BY SeqEqual

\* The beginning of a part ...
LEMMA PartPrefix ==
    ASSUME NEW n \in Nat, NEW a \in Nat, NEW l \in Nat, a >= 1,
           NEW m \in 0..l
    PROVE  SubSeq(Part(n, a, l), 1, m) = Part(n, a, m)
<1> DEFINE s == Part(n, a, l)
           t == Part(n, a, m)
           u == SubSeq(s, 1, m)
<1>1. /\ s \in Seq(Units) /\ Len(s) = l
      /\ \A k \in 1..l : s[k] = <<n, a + k - 1>>
  BY PartSeq
<1>2. /\ t \in Seq(Units) /\ Len(t) = m
      /\ \A k \in 1..m : t[k] = <<n, a + k - 1>>
  <2>1. m \in Nat
    OBVIOUS
  <2> QED
    BY <2>1, PartSeq
<1> HIDE DEF s, t
<1>3. /\ u \in Seq(Units) /\ Len(u) = m
      /\ \A k \in 1..m : k \in 1..l /\ u[k] = s[k]
  BY <1>1
<1> HIDE DEF u
<1>4. \A k \in 1..m : u[k] = t[k]
  BY <1>1, <1>2, <1>3
<1>5. u = t
  BY <1>2, <1>3, <1>4, UnitsEqual
<1> QED
  BY <1>5 DEF s, t, u

\* ... and the rest of it.
LEMMA PartSuffix ==
    ASSUME NEW n \in Nat, NEW a \in Nat, NEW l \in Nat, a >= 1,
           NEW m \in 0..l
    PROVE  SubSeq(Part(n, a, l), m + 1, l) = Part(n, a + m, l - m)
<1> DEFINE s == Part(n, a, l)
           t == Part(n, a + m, l - m)
           u == SubSeq(s, m + 1, l)
<1>1. /\ s \in Seq(Units) /\ Len(s) = l
      /\ \A k \in 1..l : s[k] = <<n, a + k - 1>>
  BY PartSeq
<1>2. /\ t \in Seq(Units) /\ Len(t) = l - m
      /\ \A k \in 1..(l - m) : t[k] = <<n, (a + m) + k - 1>>
  <2>1. a + m \in Nat /\ l - m \in Nat /\ a + m >= 1
    OBVIOUS
  <2> QED
    BY <2>1, PartSeq
<1> HIDE DEF s, t
<1>3. /\ u \in Seq(Units) /\ Len(u) = l - m
      /\ \A k \in 1..(l - m) : u[k] = s[m + k]
  BY <1>1
<1> HIDE DEF u
<1>4. ASSUME NEW k \in 1..(l - m) PROVE u[k] = t[k]
  <2>1. m + k \in 1..l /\ a + (m + k) - 1 = (a + m) + k - 1
    OBVIOUS
  <2>2. s[m + k] = <<n, a + (m + k) - 1>>
    BY <1>1, <2>1
  <2> QED
    BY <1>2, <1>3, <2>1, <2>2
<1>5. u = t
  BY <1>2, <1>3, <1>4, UnitsEqual
<1> QED
  BY <1>5 DEF s, t, u

\* Two parts that meet make one.
LEMMA PartConcat ==
    ASSUME NEW n \in Nat, NEW l \in Nat, NEW m \in Nat
    PROVE  Part(n, 1, l) \o Part(n, l + 1, m) = Part(n, 1, l + m)
<1> DEFINE b == l + 1
           c == l + m
           s == Part(n, 1, l)
           t == Part(n, b, m)
           v == Part(n, 1, c)
           u == s \o t
<1>0. /\ 1 \in Nat /\ 1 >= 1 /\ b \in Nat /\ b >= 1 /\ c \in Nat
  OBVIOUS
<1> HIDE DEF b, c
<1>1. /\ s \in Seq(Units) /\ Len(s) = l
      /\ \A k \in 1..l : s[k] = <<n, 1 + k - 1>>
  <2>1. Part(n, 1, l) \in Seq(Units) /\ Len(Part(n, 1, l)) = l
    BY <1>0, PartSeq
  <2>2. \A k \in 1..l : Part(n, 1, l)[k] = <<n, 1 + k - 1>>
    BY DEF Part
  <2> QED
    BY <2>1, <2>2, Zenon
<1>2. /\ t \in Seq(Units) /\ Len(t) = m
      /\ \A k \in 1..m : t[k] = <<n, b + k - 1>>
  <2>1. Part(n, b, m) \in Seq(Units) /\ Len(Part(n, b, m)) = m
    BY <1>0, PartSeq
  <2>2. \A k \in 1..m : Part(n, b, m)[k] = <<n, b + k - 1>>
    BY DEF Part
  <2> QED
    BY <2>1, <2>2, Zenon
<1>3. /\ v \in Seq(Units) /\ Len(v) = c
      /\ \A k \in 1..c : v[k] = <<n, 1 + k - 1>>
  <2>1. Part(n, 1, c) \in Seq(Units) /\ Len(Part(n, 1, c)) = c
    BY <1>0, PartSeq
  <2>2. \A k \in 1..c : Part(n, 1, c)[k] = <<n, 1 + k - 1>>
    BY DEF Part
  <2> QED
    BY <2>1, <2>2, Zenon
<1> USE DEF b, c
<1> HIDE DEF s, t, v
<1>4. /\ u \in Seq(Units) /\ Len(u) = l + m
      /\ \A k \in 1..(l + m) : u[k] = IF k <= l THEN s[k] ELSE t[k - l]
  BY <1>1, <1>2, ConcatProperties
<1> HIDE DEF u
<1>5. ASSUME NEW k \in 1..(l + m) PROVE u[k] = v[k]
  <2>1. CASE k <= l
    <3>1. k \in 1..l
      BY <2>1
    <3> QED
      BY <1>1, <1>3, <1>4, <2>1, <3>1
  <2>2. CASE k > l
    <3>1. k - l \in 1..m /\ (l + 1) + (k - l) - 1 = 1 + k - 1
      BY <2>2
    <3>2. t[k - l] = <<n, 1 + k - 1>>
      BY <1>2, <3>1
    <3>3. u[k] = t[k - l]
      BY <1>4, <2>2
    <3> QED
      BY <1>3, <3>2, <3>3
  <2> QED
    BY <2>1, <2>2
<1>6. u = v
  BY <1>3, <1>4, <1>5, UnitsEqual
<1> QED
  BY <1>6 DEF s, t, u, v

\* A message is the whole of its parts.
LEMMA MessagePart ==
    ASSUME NEW n, NEW l \in Nat
    PROVE  Message(n, l) = Part(n, 1, l)
<1>1. \A k \in 1..l : k = 1 + k - 1
  OBVIOUS
<1> QED
  BY <1>1 DEF Message, Part

-----------------------------------------------------------------------------
(***************************************************************************)
(* Positions and pieces.                                                   *)
(***************************************************************************)

\* No position comes before itself.
LEMMA BeforeIrreflexive ==
    ASSUME NEW x \in Units
    PROVE  ~Before(x, x)
BY DEF Before, Units

LEMMA BeforeTransitive ==
    ASSUME NEW x \in Units, NEW y \in Units, NEW z \in Units,
           Before(x, y), Before(y, z)
    PROVE  Before(x, z)
BY DEF Before, Units

\* A piece begins and ends somewhere, and is not empty.
LEMMA PieceFacts ==
    ASSUME NEW p \in Pdus, NEW wr \in Seq(Seq(Units)), IsPiece(p, wr)
    PROVE  /\ At(p) \in Units
           /\ After(p, wr) \in Units
           /\ Before(At(p), After(p, wr))
<1>1. p.data \in Seq(Units)
  BY DEF Pdus
<1>2. Len(p.data) \in Nat /\ Len(p.data) >= 1
  BY <1>1 DEF IsPiece
<1>3. At(p) \in Units
  BY <1>1, <1>2 DEF At
<1>4. PICK n \in Nat, a \in Nat : At(p) = <<n, a>>
  BY <1>3 DEF Units
<1>5. n + 1 \in Nat /\ a + Len(p.data) \in Nat /\ a + Len(p.data) > a
  BY <1>2
<1>6. \/ After(p, wr) = <<n + 1, 1>>
      \/ After(p, wr) = <<n, a + Len(p.data)>>
  BY <1>4 DEF After
<1> QED
  BY <1>3, <1>4, <1>5, <1>6 DEF Units, Before

\* A piece stays what it is when another message is written.
LEMMA PieceMoreWritten ==
    ASSUME NEW p \in Pdus, NEW wr \in Seq(Seq(Units)), NEW m \in Seq(Units),
           IsPiece(p, wr)
    PROVE  /\ IsPiece(p, Append(wr, m))
           /\ After(p, Append(wr, m)) = After(p, wr)
<1> DEFINE wr2 == Append(wr, m)
           n == At(p)[1]
<1>1. n \in 1..Len(wr)
  BY DEF IsPiece
<1>2. n \in 1..Len(wr2) /\ wr2[n] = wr[n]
  BY <1>1
<1> HIDE DEF wr2
<1>3. IsPiece(p, wr2) /\ After(p, wr2) = After(p, wr)
  BY <1>2 DEF IsPiece, After
<1> QED
  BY <1>3 DEF wr2

\* The next PDU of a write is the piece its rest begins with; what is left of
\* the write is the rest after that piece.
LEMMA FragmentPiece ==
    ASSUME NEW ch \in Channels, NEW w \in Writes, NEW wr \in Seq(Seq(Units)),
           InLast(w, ch, wr)
    PROVE  /\ Fragment(w) \in Pdus
           /\ Fragment(w).ch = ch /\ Fragment(w).cmd \in Data
           /\ IsPiece(Fragment(w), wr)
           /\ At(Fragment(w)) = w.rest[1]
           /\ AfterFragment(w) \in Writes
           /\ AfterFragment(w) = Idle \/ Midway(AfterFragment(w), ch, wr)
           /\ NextOf(AfterFragment(w), wr) = After(Fragment(w), wr)
<1> DEFINE N == Len(wr)
           L == Len(wr[N])
           R == Len(w.rest)
           a == L - R + 1
           f == FragmentLength(w)
           p == Fragment(w)
           v == AfterFragment(w)
<1>1. /\ w.ch = ch /\ ch \in 0..MaxChannels
      /\ w.rest \in Seq(Units) /\ w.first \in BOOLEAN
  BY DynamicChannelsAssumption DEF InLast, Writes, Channels
<1>2. R \in Nat /\ R >= 1
  BY <1>1 DEF InLast
<1>3. N \in Nat /\ N >= 1
  BY DEF InLast
<1>4. wr[N] \in Seq(Units)
  BY <1>3
<1>5. L \in Nat /\ a \in Nat /\ a >= 1 /\ R = L - a + 1 /\ R <= L
  BY <1>2, <1>4 DEF InLast
<1>6. w.rest = Part(N, a, R) /\ (w.first <=> a = 1)
  BY DEF InLast
<1>7. /\ f \in Nat /\ f >= 1 /\ f <= R
      /\ Fragmented(w) => f < R
      /\ ~Fragmented(w) /\ w.first => f = R
  BY <1>1, <1>2, DynamicChannelsAssumption
     DEF FragmentLength, Room, Fragmented
<1>8. Fragmented(w) <=> (a = 1 /\ f < L)
  BY <1>1, <1>5, <1>6, <1>7 DEF Fragmented
<1>9. /\ p.cmd = IF Fragmented(w) THEN "DATA_FIRST" ELSE "DATA"
      /\ p.ch = ch
      /\ p.total = IF Fragmented(w) THEN R ELSE 0
      /\ p.data = SubSeq(w.rest, 1, f)
      /\ p = [cmd |-> p.cmd, ch |-> p.ch, total |-> p.total, data |-> p.data]
  BY <1>1 DEF Fragment
<1>10. /\ v = IF f = R THEN Idle
              ELSE [w EXCEPT !.rest = SubSeq(w.rest, f + 1, R),
                             !.first = FALSE]
  BY DEF AfterFragment
<1> HIDE DEF f, p, v, a, L
<1>11. f \in 0..R
  BY <1>2, <1>7
<1>12. p.data = Part(N, a, f)
  <2>1. SubSeq(Part(N, a, R), 1, f) = Part(N, a, f)
    BY <1>2, <1>3, <1>5, <1>11, PartPrefix
  <2> QED
    BY <1>6, <1>9, <2>1
<1>13. /\ p.data \in Seq(Units) /\ Len(p.data) = f
       /\ p.data[1] = <<N, a>>
  <2>1. Part(N, a, f) \in Seq(Units) /\ Len(Part(N, a, f)) = f
    BY <1>3, <1>5, <1>7, PartSeq
  <2>2. Part(N, a, f)[1] = <<N, a>>
    BY <1>3, <1>5, <1>7, PartFirst
  <2> QED
    BY <1>12, <2>1, <2>2, Zenon
<1>14. w.rest[1] = <<N, a>>
  BY <1>2, <1>3, <1>5, <1>6, PartFirst
<1>15. p.cmd \in Data /\ p.cmd \in Cmds /\ p.total \in Nat
  <2>1. CASE Fragmented(w)
    <3>1. p.cmd = "DATA_FIRST" /\ p.total = R
      BY <1>9, <2>1, Zenon
    <3> QED
      BY <1>2, <3>1 DEF Data, Cmds
  <2>2. CASE ~Fragmented(w)
    <3>1. p.cmd = "DATA" /\ p.total = 0
      BY <1>9, <2>2, Zenon
    <3> QED
      BY <3>1 DEF Data, Cmds
  <2> QED
    BY <2>1, <2>2
<1>16. p \in Pdus
  BY <1>1, <1>9, <1>13, <1>15 DEF Pdus
<1>17. At(p) = <<N, a>>
  BY <1>13 DEF At
<1>18. IsPiece(p, wr)
  <2>1. /\ N \in 1..Len(wr) /\ a >= 1 /\ f >= 1 /\ a + f - 1 <= L
    BY <1>3, <1>5, <1>7
  <2>2. p.cmd = "DATA_FIRST" <=> (a = 1 /\ f < L)
    BY <1>8, <1>9
  <2>3. p.cmd = "DATA_FIRST" => p.total = L
    BY <1>5, <1>9, <2>2
  <2> QED
    BY <1>12, <1>13, <1>17, <2>1, <2>2, <2>3 DEF IsPiece, L
<1>19. After(p, wr) = IF a + f > L THEN <<N + 1, 1>> ELSE <<N, a + f>>
  BY <1>13, <1>17 DEF After, L
<1>20. CASE f = R
  <2>1. v = Idle /\ v \in Writes
    BY <1>1, <1>10, <1>20, DynamicChannelsAssumption DEF Idle, Writes
  <2>2. After(p, wr) = <<N + 1, 1>>
    BY <1>5, <1>7, <1>19, <1>20
  <2>3. NextOf(v, wr) = <<N + 1, 1>>
    BY <2>1 DEF NextOf, Idle, Fresh
  <2> QED
    BY <1>9, <1>14, <1>15, <1>16, <1>17, <1>18, <2>1, <2>2, <2>3 DEF p, v
<1>21. CASE f # R
  <2> DEFINE rest == SubSeq(w.rest, f + 1, R)
  <2>1. v = [w EXCEPT !.rest = rest, !.first = FALSE]
    BY <1>10, <1>21
  <2>2. rest = Part(N, a + f, R - f)
    <3>1. SubSeq(Part(N, a, R), f + 1, R) = Part(N, a + f, R - f)
      BY <1>2, <1>3, <1>5, <1>11, PartSuffix
    <3> QED
      BY <1>6, <3>1
  <2>3. /\ a + f \in Nat /\ a + f > 1 /\ R - f \in Nat /\ R - f >= 1
        /\ a + f <= L /\ L - (R - f) + 1 = a + f
    BY <1>2, <1>5, <1>7, <1>21
  <2>4. /\ rest \in Seq(Units) /\ Len(rest) = R - f
        /\ rest[1] = <<N, a + f>>
    <3>1. a + f >= 1
      BY <2>3
    <3>2. /\ Part(N, a + f, R - f) \in Seq(Units)
          /\ Len(Part(N, a + f, R - f)) = R - f
      BY <1>3, <2>3, <3>1, PartSeq
    <3>3. Part(N, a + f, R - f)[1] = <<N, a + f>>
      BY <1>3, <2>3, <3>1, PartFirst
    <3> QED
      BY <2>2, <3>2, <3>3
  <2> HIDE DEF rest
  <2>5. v.ch = ch /\ v.rest = rest /\ v.first = FALSE /\ v \in Writes
    BY <1>1, <2>1, <2>4 DEF Writes
  <2>6. rest # <<>>
    BY <2>3, <2>4
  <2>7. Midway(v, ch, wr)
    <3>1. Len(wr[Len(wr)]) - Len(v.rest) + 1 = a + f
      BY <2>3, <2>4, <2>5 DEF L
    <3>2. v.rest = Part(Len(wr), a + f, Len(v.rest))
      BY <2>2, <2>4, <2>5
    <3>3. wr # <<>> /\ a + f >= 1 /\ a + f # 1
      BY <1>3, <2>3
    <3> QED
      BY <2>5, <2>6, <3>1, <3>2, <3>3 DEF Midway, InLast
  <2>8. NextOf(v, wr) = <<N, a + f>>
    BY <2>4, <2>5, <2>6 DEF NextOf
  <2>9. After(p, wr) = <<N, a + f>>
    BY <1>5, <1>7, <1>19, <2>3
  <2> QED
    BY <1>9, <1>14, <1>15, <1>16, <1>17, <1>18, <2>5, <2>7, <2>8, <2>9
       DEF p, v
<1> QED
  BY <1>20, <1>21

-----------------------------------------------------------------------------
(***************************************************************************)
(* The data of a channel in a FIFO.                                        *)
(***************************************************************************)

\* What is behind the head ...
LEMMA TailFacts ==
    ASSUME NEW q \in Seq(Pdus), q # <<>>
    PROVE  /\ Tail(q) \in Seq(Pdus) /\ Len(Tail(q)) = Len(q) - 1
           /\ DOMAIN Tail(q) = 1..(Len(q) - 1)
           /\ \A i \in 1..(Len(q) - 1) : Tail(q)[i] = q[i + 1]
           /\ 1 \in DOMAIN q /\ Head(q) = q[1] /\ Head(q) \in Pdus
           /\ Len(q) \in Nat /\ DOMAIN q = 1..Len(q)
OBVIOUS

\* ... and what another PDU adds.
LEMMA AppendFacts ==
    ASSUME NEW q \in Seq(Pdus), NEW x \in Pdus
    PROVE  /\ Append(q, x) \in Seq(Pdus) /\ Len(Append(q, x)) = Len(q) + 1
           /\ DOMAIN Append(q, x) = 1..(Len(q) + 1)
           /\ \A i \in 1..Len(q) : Append(q, x)[i] = q[i]
           /\ Append(q, x)[Len(q) + 1] = x
           /\ Len(q) \in Nat /\ DOMAIN q = 1..Len(q)
OBVIOUS

LEMMA PrefixFacts ==
    ASSUME NEW q \in Seq(Pdus), NEW n \in 0..Len(q)
    PROVE  /\ SubSeq(q, 1, n) \in Seq(Pdus) /\ Len(SubSeq(q, 1, n)) = n
           /\ DOMAIN SubSeq(q, 1, n) = 1..n
           /\ \A i \in 1..n : SubSeq(q, 1, n)[i] = q[i]
           /\ n \in Nat /\ n <= Len(q)
           /\ Len(q) \in Nat /\ DOMAIN q = 1..Len(q)
OBVIOUS

\* The same for the indices of the data of a channel.
LEMMA DataOfTail ==
    ASSUME NEW q \in Seq(Pdus), q # <<>>, NEW ch
    PROVE  /\ \A i \in DataOf(Tail(q), ch) :
                i \in Nat /\ i >= 1 /\ i + 1 \in DataOf(q, ch)
                /\ Tail(q)[i] = q[i + 1]
           /\ \A i \in DataOf(q, ch) :
                i \in Nat /\ (i = 1 \/ (i > 1 /\ i - 1 \in DataOf(Tail(q), ch)
                                       /\ Tail(q)[i - 1] = q[i]))
<1> DEFINE t == Tail(q)
<1>1. /\ DOMAIN t = 1..(Len(q) - 1)
      /\ \A i \in 1..(Len(q) - 1) : t[i] = q[i + 1]
      /\ Len(q) \in Nat /\ DOMAIN q = 1..Len(q)
  BY TailFacts
<1> HIDE DEF t
<1>2. ASSUME NEW i \in DataOf(t, ch)
      PROVE  i \in Nat /\ i >= 1 /\ i + 1 \in DataOf(q, ch) /\ t[i] = q[i + 1]
  BY <1>1 DEF DataOf
<1>3. ASSUME NEW i \in DataOf(q, ch)
      PROVE  i \in Nat /\ (i = 1 \/ (i > 1 /\ i - 1 \in DataOf(t, ch)
                                    /\ t[i - 1] = q[i]))
  <2>1. i \in 1..Len(q)
    BY <1>1 DEF DataOf
  <2>2. CASE i > 1
    <3>1. i - 1 \in 1..(Len(q) - 1) /\ (i - 1) + 1 = i
      BY <1>1, <2>1, <2>2
    <3>2. t[i - 1] = q[i]
      BY <1>1, <3>1
    <3> QED
      BY <1>1, <2>1, <2>2, <3>1, <3>2 DEF DataOf
  <2> QED
    BY <2>1, <2>2
<1> QED
  BY <1>2, <1>3 DEF t

LEMMA DataOfAppend ==
    ASSUME NEW q \in Seq(Pdus), NEW x \in Pdus, NEW ch
    PROVE  /\ \A i \in DataOf(q, ch) :
                /\ i \in 1..Len(q) /\ i \in DataOf(Append(q, x), ch)
                /\ Append(q, x)[i] = q[i]
           /\ \A i \in DataOf(Append(q, x), ch) :
                \/ i \in DataOf(q, ch)
                \/ i = Len(q) + 1 /\ x.ch = ch /\ x.cmd \in Data
           /\ x.ch = ch /\ x.cmd \in Data =>
                Len(q) + 1 \in DataOf(Append(q, x), ch)
           /\ Append(q, x)[Len(q) + 1] = x /\ Len(q) \in Nat
<1> DEFINE t == Append(q, x)
<1>1. /\ DOMAIN t = 1..(Len(q) + 1)
      /\ \A i \in 1..Len(q) : t[i] = q[i]
      /\ t[Len(q) + 1] = x
      /\ Len(q) \in Nat /\ DOMAIN q = 1..Len(q)
  BY AppendFacts
<1> HIDE DEF t
<1>2. ASSUME NEW i \in DataOf(q, ch)
      PROVE  i \in 1..Len(q) /\ i \in DataOf(t, ch) /\ t[i] = q[i]
  BY <1>1 DEF DataOf
<1>3. ASSUME NEW i \in DataOf(t, ch)
      PROVE  \/ i \in DataOf(q, ch)
             \/ i = Len(q) + 1 /\ x.ch = ch /\ x.cmd \in Data
  BY <1>1 DEF DataOf
<1>4. x.ch = ch /\ x.cmd \in Data => Len(q) + 1 \in DataOf(t, ch)
  BY <1>1 DEF DataOf
<1> QED
  BY <1>1, <1>2, <1>3, <1>4 DEF t

\* In an empty FIFO there is none.
LEMMA StreamEmpty ==
    ASSUME NEW ch, NEW wr, NEW r
    PROVE  Pieces(<<>>, ch, wr) /\ Chain(<<>>, ch, wr, r)
<1>1. DataOf(<<>>, ch) = {}
  BY DEF DataOf
<1> QED
  BY <1>1 DEF Pieces, Chain

\* A PDU of another channel, or without data, may be added ...
LEMMA StreamAppendOther ==
    ASSUME NEW q \in Seq(Pdus), NEW x \in Pdus, NEW ch, NEW wr,
           ~(x.ch = ch /\ x.cmd \in Data)
    PROVE  /\ Pieces(q, ch, wr) => Pieces(Append(q, x), ch, wr)
           /\ \A r : Chain(q, ch, wr, r) => Chain(Append(q, x), ch, wr, r)
           /\ \A r, s : EndsAt(q, ch, wr, r, s) =>
                          EndsAt(Append(q, x), ch, wr, r, s)
<1> DEFINE t == Append(q, x)
<1>1. /\ DataOf(t, ch) = DataOf(q, ch)
      /\ \A i \in DataOf(q, ch) : t[i] = q[i]
  <2>1. \A i \in DataOf(q, ch) : i \in DataOf(t, ch) /\ t[i] = q[i]
    BY DataOfAppend
  <2>2. \A i \in DataOf(t, ch) : i \in DataOf(q, ch)
    BY DataOfAppend
  <2> QED
    BY <2>1, <2>2
<1> HIDE DEF t
<1>2. Pieces(q, ch, wr) => Pieces(t, ch, wr)
  BY <1>1 DEF Pieces
<1>3. ASSUME NEW r, Chain(q, ch, wr, r) PROVE Chain(t, ch, wr, r)
  BY <1>1, <1>3 DEF Chain
<1>4. ASSUME NEW r, NEW s, EndsAt(q, ch, wr, r, s)
      PROVE  EndsAt(t, ch, wr, r, s)
  BY <1>1, <1>4 DEF EndsAt
<1> QED
  BY <1>2, <1>3, <1>4 DEF t

\* ... or taken.
LEMMA StreamTailOther ==
    ASSUME NEW q \in Seq(Pdus), q # <<>>, NEW ch, NEW wr,
           ~(Head(q).ch = ch /\ Head(q).cmd \in Data)
    PROVE  /\ Pieces(q, ch, wr) => Pieces(Tail(q), ch, wr)
           /\ \A r : Chain(q, ch, wr, r) => Chain(Tail(q), ch, wr, r)
           /\ \A r, s : EndsAt(q, ch, wr, r, s) =>
                          EndsAt(Tail(q), ch, wr, r, s)
<1> DEFINE t == Tail(q)
<1>1. \A i \in DataOf(t, ch) :
        i \in Nat /\ i >= 1 /\ i + 1 \in DataOf(q, ch) /\ t[i] = q[i + 1]
  BY DataOfTail
<1>2. \A i \in DataOf(q, ch) :
        i \in Nat /\ i > 1 /\ i - 1 \in DataOf(t, ch) /\ t[i - 1] = q[i]
  <2>1. 1 \notin DataOf(q, ch)
    BY TailFacts DEF DataOf
  <2> QED
    BY <2>1, DataOfTail
<1> HIDE DEF t
<1>3. Pieces(q, ch, wr) => Pieces(t, ch, wr)
  BY <1>1 DEF Pieces
<1>4. ASSUME NEW r, Chain(q, ch, wr, r) PROVE Chain(t, ch, wr, r)
  <2>1. ASSUME NEW j \in DataOf(t, ch)
        PROVE  \/ At(t[j]) = r
               \/ \E i \in DataOf(t, ch) : i < j /\ After(t[i], wr) = At(t[j])
    <3>1. j + 1 \in DataOf(q, ch) /\ t[j] = q[j + 1] /\ j \in Nat
      BY <1>1
    <3>2. CASE At(q[j + 1]) = r
      BY <3>1, <3>2
    <3>3. ASSUME NEW k \in DataOf(q, ch), k < j + 1,
                 After(q[k], wr) = At(q[j + 1])
          PROVE  \E i \in DataOf(t, ch) : i < j /\ After(t[i], wr) = At(t[j])
      <4>1. k \in Nat /\ k - 1 \in DataOf(t, ch) /\ t[k - 1] = q[k] /\ k - 1 < j
        BY <1>2, <3>1, <3>3
      <4> QED
        BY <3>1, <3>3, <4>1
    <3> QED
      BY <1>4, <3>1, <3>2, <3>3 DEF Chain
  <2>2. ASSUME NEW i \in DataOf(t, ch), NEW j \in DataOf(t, ch), i # j
        PROVE  At(t[i]) # At(t[j])
    <3>1. /\ i + 1 \in DataOf(q, ch) /\ j + 1 \in DataOf(q, ch)
          /\ i + 1 # j + 1 /\ t[i] = q[i + 1] /\ t[j] = q[j + 1]
      BY <1>1, <2>2
    <3> QED
      BY <1>4, <3>1 DEF Chain
  <2> QED
    BY <2>1, <2>2 DEF Chain
<1>5. ASSUME NEW r, NEW s, EndsAt(q, ch, wr, r, s)
      PROVE  EndsAt(t, ch, wr, r, s)
  <2>1. \A i \in DataOf(t, ch) : Before(At(t[i]), s)
    BY <1>1, <1>5 DEF EndsAt
  <2>2. ASSUME NEW k \in DataOf(q, ch), After(q[k], wr) = s
        PROVE  \E i \in DataOf(t, ch) : After(t[i], wr) = s
    BY <1>2, <2>2
  <2> QED
    BY <1>5, <2>1, <2>2 DEF EndsAt
<1> QED
  BY <1>3, <1>4, <1>5 DEF t

\* A receiver that takes a piece takes the one it expects, and then expects
\* the next one.
LEMMA StreamTake ==
    ASSUME NEW q \in Seq(Pdus), q # <<>>, NEW ch, NEW wr \in Seq(Seq(Units)),
           NEW r \in Units, Head(q).ch = ch, Head(q).cmd \in Data,
           Pieces(q, ch, wr), Chain(q, ch, wr, r)
    PROVE  /\ IsPiece(Head(q), wr) /\ At(Head(q)) = r
           /\ Pieces(Tail(q), ch, wr)
           /\ Chain(Tail(q), ch, wr, After(Head(q), wr))
           /\ \A s : EndsAt(q, ch, wr, r, s) =>
                       EndsAt(Tail(q), ch, wr, After(Head(q), wr), s)
<1> DEFINE t == Tail(q)
           x == Head(q)
           n == After(x, wr)
<1>1. 1 \in DataOf(q, ch) /\ q[1] = x
  BY TailFacts DEF DataOf
<1>2. \A i \in DataOf(t, ch) :
        i \in Nat /\ i >= 1 /\ i + 1 \in DataOf(q, ch) /\ t[i] = q[i + 1]
  BY DataOfTail
<1>3. \A i \in DataOf(q, ch) :
        i \in Nat /\ (i = 1 \/ (i > 1 /\ i - 1 \in DataOf(t, ch)
                               /\ t[i - 1] = q[i]))
  BY DataOfTail
<1> HIDE DEF t, x, n
<1>4. IsPiece(x, wr)
  BY <1>1 DEF Pieces
<1>5. At(x) = r
  <2>1. \A i \in DataOf(q, ch) : ~(i < 1)
    BY <1>3
  <2> QED
    BY <1>1, <2>1 DEF Chain
<1>6. Pieces(t, ch, wr)
  BY <1>2 DEF Pieces
<1>7. Chain(t, ch, wr, n)
  <2>1. ASSUME NEW j \in DataOf(t, ch)
        PROVE  \/ At(t[j]) = n
               \/ \E i \in DataOf(t, ch) : i < j /\ After(t[i], wr) = At(t[j])
    <3>1. /\ j + 1 \in DataOf(q, ch) /\ t[j] = q[j + 1] /\ j \in Nat
          /\ j + 1 # 1
      BY <1>2
    <3>2. At(q[j + 1]) # r
      BY <1>1, <1>5, <3>1 DEF Chain
    <3>3. PICK k \in DataOf(q, ch) : k < j + 1 /\ After(q[k], wr) = At(q[j + 1])
      BY <3>1, <3>2 DEF Chain
    <3>4. CASE k = 1
      BY <1>1, <3>1, <3>3, <3>4 DEF n
    <3>5. CASE k # 1
      <4>1. k \in Nat /\ k - 1 \in DataOf(t, ch) /\ t[k - 1] = q[k] /\ k - 1 < j
        BY <1>3, <3>1, <3>3, <3>5
      <4> QED
        BY <3>1, <3>3, <4>1
    <3> QED
      BY <3>4, <3>5
  <2>2. ASSUME NEW i \in DataOf(t, ch), NEW j \in DataOf(t, ch), i # j
        PROVE  At(t[i]) # At(t[j])
    <3>1. /\ i + 1 \in DataOf(q, ch) /\ j + 1 \in DataOf(q, ch)
          /\ i + 1 # j + 1 /\ t[i] = q[i + 1] /\ t[j] = q[j + 1]
      BY <1>2, <2>2
    <3> QED
      BY <3>1 DEF Chain
  <2> QED
    BY <2>1, <2>2 DEF Chain
<1>8. ASSUME NEW s, EndsAt(q, ch, wr, r, s)
      PROVE  EndsAt(t, ch, wr, n, s)
  <2>1. \A i \in DataOf(t, ch) : Before(At(t[i]), s)
    BY <1>2, <1>8 DEF EndsAt
  <2>2. r # s
    BY <1>1, <1>5, <1>8, BeforeIrreflexive DEF EndsAt
  <2>3. PICK k \in DataOf(q, ch) : After(q[k], wr) = s
    BY <1>8, <2>2 DEF EndsAt
  <2>4. CASE k = 1
    BY <1>1, <2>1, <2>3, <2>4 DEF EndsAt, n
  <2>5. CASE k # 1
    BY <1>3, <2>1, <2>3, <2>5 DEF EndsAt
  <2> QED
    BY <2>4, <2>5
<1> QED
  BY <1>4, <1>5, <1>6, <1>7, <1>8 DEF t, x, n

\* The writer adds its next piece.
LEMMA StreamAdd ==
    ASSUME NEW q \in Seq(Pdus), NEW x \in Pdus, NEW ch,
           NEW wr \in Seq(Seq(Units)), NEW r \in Units,
           x.ch = ch, x.cmd \in Data, IsPiece(x, wr), Pieces(q, ch, wr),
           Chain(q, ch, wr, r), EndsAt(q, ch, wr, r, At(x))
    PROVE  /\ Chain(Append(q, x), ch, wr, r)
           /\ EndsAt(Append(q, x), ch, wr, r, After(x, wr))
<1> DEFINE t == Append(q, x)
           l == Len(q) + 1
<1>1. \A i \in DataOf(q, ch) :
        i \in 1..Len(q) /\ i \in DataOf(t, ch) /\ t[i] = q[i]
  BY DataOfAppend
<1>2. /\ \A i \in DataOf(t, ch) : i \in DataOf(q, ch) \/ i = l
      /\ l \in DataOf(t, ch) /\ t[l] = x /\ Len(q) \in Nat
  BY DataOfAppend
<1> HIDE DEF t
<1>3. /\ At(x) \in Units /\ After(x, wr) \in Units
      /\ Before(At(x), After(x, wr))
  BY PieceFacts
<1>4. \A i \in DataOf(q, ch) : At(q[i]) \in Units /\ Before(At(q[i]), At(x))
  <2>1. \A i \in DataOf(q, ch) : q[i] \in Pdus /\ IsPiece(q[i], wr)
    BY <1>1 DEF Pieces
  <2>2. \A i \in DataOf(q, ch) : At(q[i]) \in Units
    BY <2>1, PieceFacts
  <2> QED
    BY <2>2 DEF EndsAt
<1>5. \A i \in DataOf(q, ch) : At(q[i]) # At(x)
  BY <1>3, <1>4, BeforeIrreflexive
<1>6. Chain(t, ch, wr, r)
  <2>1. ASSUME NEW j \in DataOf(t, ch)
        PROVE  \/ At(t[j]) = r
               \/ \E i \in DataOf(t, ch) : i < j /\ After(t[i], wr) = At(t[j])
    <3>1. CASE j \in DataOf(q, ch)
      BY <1>1, <3>1 DEF Chain
    <3>2. CASE j = l
      <4>1. CASE r = At(x)
        BY <1>2, <3>2, <4>1
      <4>2. ASSUME NEW i \in DataOf(q, ch), After(q[i], wr) = At(x)
            PROVE  \E k \in DataOf(t, ch) : k < l /\ After(t[k], wr) = At(t[l])
        BY <1>1, <1>2, <4>2
      <4> QED
        BY <3>2, <4>1, <4>2 DEF EndsAt
    <3> QED
      BY <1>2, <3>1, <3>2
  <2>2. ASSUME NEW i \in DataOf(t, ch), NEW j \in DataOf(t, ch), i # j
        PROVE  At(t[i]) # At(t[j])
    <3>1. CASE i \in DataOf(q, ch) /\ j \in DataOf(q, ch)
      BY <1>1, <2>2, <3>1 DEF Chain
    <3>2. CASE i \in DataOf(q, ch) /\ j = l
      BY <1>1, <1>2, <1>5, <3>2
    <3>3. CASE i = l /\ j \in DataOf(q, ch)
      BY <1>1, <1>2, <1>5, <3>3
    <3> QED
      BY <1>2, <2>2, <3>1, <3>2, <3>3
  <2> QED
    BY <2>1, <2>2 DEF Chain
<1>7. EndsAt(t, ch, wr, r, After(x, wr))
  <2>1. \A i \in DataOf(q, ch) : Before(At(q[i]), After(x, wr))
    BY <1>3, <1>4, BeforeTransitive
  <2>2. \A i \in DataOf(t, ch) : Before(At(t[i]), After(x, wr))
    BY <1>1, <1>2, <1>3, <2>1
  <2> QED
    BY <1>2, <2>2 DEF EndsAt
<1> QED
  BY <1>6, <1>7 DEF t

LEMMA PiecesAdd ==
    ASSUME NEW q \in Seq(Pdus), NEW x \in Pdus, NEW ch, NEW wr,
           IsPiece(x, wr), Pieces(q, ch, wr)
    PROVE  Pieces(Append(q, x), ch, wr)
<1> DEFINE t == Append(q, x)
<1>1. /\ \A i \in DataOf(q, ch) : t[i] = q[i]
      /\ \A i \in DataOf(t, ch) : i \in DataOf(q, ch) \/ i = Len(q) + 1
      /\ t[Len(q) + 1] = x
  BY DataOfAppend
<1> HIDE DEF t
<1>2. Pieces(t, ch, wr)
  BY <1>1 DEF Pieces
<1> QED
  BY <1>2 DEF t

\* A disconnect leaves the first n PDUs of a FIFO.
LEMMA StreamPrefix ==
    ASSUME NEW q \in Seq(Pdus), NEW n \in 0..Len(q), NEW ch, NEW wr
    PROVE  /\ Pieces(q, ch, wr) => Pieces(SubSeq(q, 1, n), ch, wr)
           /\ \A r : Chain(q, ch, wr, r) => Chain(SubSeq(q, 1, n), ch, wr, r)
<1> DEFINE t == SubSeq(q, 1, n)
<1>1. /\ DOMAIN t = 1..n /\ DOMAIN q = 1..Len(q)
      /\ \A i \in 1..n : t[i] = q[i]
      /\ Len(q) \in Nat /\ n \in Nat /\ n <= Len(q)
  BY PrefixFacts
<1> HIDE DEF t
<1>2. \A i \in DataOf(t, ch) : i \in DataOf(q, ch) /\ t[i] = q[i]
  BY <1>1 DEF DataOf
<1>3. \A j \in DataOf(t, ch), i \in DataOf(q, ch) :
        i < j => i \in DataOf(t, ch)
  BY <1>1 DEF DataOf
<1>4. Pieces(q, ch, wr) => Pieces(t, ch, wr)
  BY <1>2 DEF Pieces
<1>5. ASSUME NEW r, Chain(q, ch, wr, r) PROVE Chain(t, ch, wr, r)
  BY <1>2, <1>3, <1>5 DEF Chain
<1> QED
  BY <1>4, <1>5 DEF t

\* Another message is written: nothing changes for the pieces under way.
LEMMA StreamMoreWritten ==
    ASSUME NEW q \in Seq(Pdus), NEW ch, NEW wr \in Seq(Seq(Units)),
           NEW m \in Seq(Units), Pieces(q, ch, wr)
    PROVE  /\ Pieces(q, ch, Append(wr, m))
           /\ \A r : Chain(q, ch, wr, r) => Chain(q, ch, Append(wr, m), r)
           /\ \A r, s : EndsAt(q, ch, wr, r, s) =>
                          EndsAt(q, ch, Append(wr, m), r, s)
<1> DEFINE wr2 == Append(wr, m)
<1>1. \A i \in DataOf(q, ch) : q[i] \in Pdus /\ IsPiece(q[i], wr)
  BY DEF Pieces, DataOf
<1>2. \A i \in DataOf(q, ch) :
        IsPiece(q[i], wr2) /\ After(q[i], wr2) = After(q[i], wr)
  BY <1>1, PieceMoreWritten
<1> HIDE DEF wr2
<1>3. Pieces(q, ch, wr2)
  BY <1>2 DEF Pieces
<1>4. ASSUME NEW r, Chain(q, ch, wr, r) PROVE Chain(q, ch, wr2, r)
  BY <1>2, <1>4 DEF Chain
<1>5. ASSUME NEW r, NEW s, EndsAt(q, ch, wr, r, s)
      PROVE  EndsAt(q, ch, wr2, r, s)
  BY <1>2, <1>5 DEF EndsAt
<1> QED
  BY <1>3, <1>4, <1>5 DEF wr2

-----------------------------------------------------------------------------
(***************************************************************************)
(* Putting a message together.  A receiver that has got msgs and has data  *)
(* takes the piece p that it expects.                                      *)
(***************************************************************************)

\* What it expects is a position.
LEMMA ExpectsUnits ==
    ASSUME NEW msgs \in Seq(Seq(Units)), NEW data \in Seq(Units)
    PROVE  Expects(msgs, data) \in Units
BY DEF Expects, Units

\* Where p is in its message.
LEMMA ExpectedPiece ==
    ASSUME NEW p \in Pdus, NEW wr \in Seq(Seq(Units)),
           NEW msgs \in Seq(Seq(Units)), NEW data \in Seq(Units),
           IsPiece(p, wr), At(p) = Expects(msgs, data), Numbered(wr)
    PROVE  LET n == Len(msgs) + 1
               l == Len(p.data)
               k == Len(data)
           IN  /\ n \in Nat /\ n \in 1..Len(wr) /\ l \in Nat /\ l >= 1 /\ k \in Nat
               /\ wr[n] \in Seq(Units) /\ Len(wr[n]) \in Nat
               /\ k + l <= Len(wr[n])
               /\ p.data \in Seq(Units) /\ p.data # <<>>
               /\ p.data = Part(n, k + 1, l)
               /\ wr[n] = Part(n, 1, Len(wr[n])) /\ Len(wr[n]) \in Lengths
               /\ p.cmd = "DATA_FIRST" <=> (k = 0 /\ l < Len(wr[n]))
               /\ p.cmd = "DATA_FIRST" => p.total = Len(wr[n])
               /\ After(p, wr) = IF k + l < Len(wr[n])
                                   THEN <<n, k + l + 1>> ELSE <<n + 1, 1>>
<1> DEFINE n == Len(msgs) + 1
           l == Len(p.data)
           k == Len(data)
<1>1. /\ p.data \in Seq(Units) /\ l \in Nat /\ k \in Nat /\ n \in Nat
  BY DEF Pdus
<1>2. At(p)[1] = n /\ At(p)[2] = k + 1
  BY DEF Expects
<1>3. /\ n \in 1..Len(wr) /\ l >= 1
      /\ (k + 1) + l - 1 <= Len(wr[n])
      /\ p.data = Part(n, k + 1, l)
      /\ p.cmd = "DATA_FIRST" <=> (k + 1 = 1 /\ l < Len(wr[n]))
      /\ p.cmd = "DATA_FIRST" => p.total = Len(wr[n])
  BY <1>2 DEF IsPiece
<1>4. After(p, wr) = IF (k + 1) + l > Len(wr[n])
                       THEN <<n + 1, 1>> ELSE <<n, (k + 1) + l>>
  BY <1>2 DEF After
<1>5. wr[n] \in Seq(Units) /\ n \in DOMAIN wr
  BY <1>3
<1>6. wr[n] = Part(n, 1, Len(wr[n])) /\ Len(wr[n]) \in Lengths
  BY <1>5 DEF Numbered
<1>7. Len(wr[n]) \in Nat
  BY <1>5
<1> HIDE DEF n, l, k
<1>8. k + l <= Len(wr[n]) /\ (k + 1) + l = k + l + 1
  BY <1>1, <1>3, <1>7
<1>9. p.cmd = "DATA_FIRST" <=> (k = 0 /\ l < Len(wr[n]))
  BY <1>1, <1>3
<1>10. After(p, wr) = IF k + l < Len(wr[n])
                        THEN <<n, k + l + 1>> ELSE <<n + 1, 1>>
  <2>1. (k + 1) + l > Len(wr[n]) <=> ~(k + l < Len(wr[n]))
    BY <1>1, <1>7, <1>8
  <2> QED
    BY <1>4, <1>8, <2>1
<1>11. p.data # <<>>
  BY <1>1, <1>3 DEF l
<1> QED
  BY <1>1, <1>3, <1>5, <1>6, <1>7, <1>8, <1>9, <1>10, <1>11 DEF n, l, k

\* DATA_FIRST begins a message.
LEMMA ReceiveFirst ==
    ASSUME NEW p \in Pdus, NEW wr \in Seq(Seq(Units)),
           NEW msgs \in Seq(Seq(Units)), NEW data \in Seq(Units), NEW len,
           IsPiece(p, wr), At(p) = Expects(msgs, data), Numbered(wr),
           Received(msgs, wr, data, len), p.cmd = "DATA_FIRST"
    PROVE  /\ Received(msgs, wr, p.data, p.total)
           /\ After(p, wr) = Expects(msgs, p.data)
           /\ p.data # <<>> /\ Len(p.data) < p.total /\ p.total \in Lengths
<1> DEFINE n == Len(msgs) + 1
           l == Len(p.data)
           k == Len(data)
<1>1. /\ n \in Nat /\ n \in 1..Len(wr) /\ l \in Nat /\ k = 0 /\ l < Len(wr[n])
      /\ p.data = Part(n, k + 1, l) /\ p.data # <<>>
      /\ Len(wr[n]) \in Lengths /\ p.total = Len(wr[n])
      /\ After(p, wr) = IF k + l < Len(wr[n])
                          THEN <<n, k + l + 1>> ELSE <<n + 1, 1>>
  BY ExpectedPiece
<1>2. After(p, wr) = <<n, l + 1>> /\ p.data = Part(n, 1, l)
  <2> HIDE DEF n, l, k
  <2>1. k + l = l /\ k + 1 = 1 /\ k + l + 1 = l + 1
    BY <1>1
  <2>2. k + l < Len(wr[n])
    BY <1>1, <2>1
  <2> QED
    BY <1>1, <2>1, <2>2
<1>3. Len(msgs) < Len(wr) /\ Len(msgs) <= Len(wr)
  BY <1>1
<1> QED
  BY <1>1, <1>2, <1>3 DEF Received, Expects

\* A DATA without a DATA_FIRST before it is a whole message.
LEMMA ReceiveWhole ==
    ASSUME NEW p \in Pdus, NEW wr \in Seq(Seq(Units)),
           NEW msgs \in Seq(Seq(Units)), NEW data \in Seq(Units),
           IsPiece(p, wr), At(p) = Expects(msgs, data), Numbered(wr),
           data = <<>>, p.cmd = "DATA"
    PROVE  /\ Len(msgs) < Len(wr) /\ p.data = wr[Len(msgs) + 1]
           /\ After(p, wr) = <<Len(msgs) + 2, 1>>
<1> DEFINE n == Len(msgs) + 1
           l == Len(p.data)
           k == Len(data)
<1>0. k = 0
  OBVIOUS
<1>1. /\ n \in Nat /\ n \in 1..Len(wr) /\ l \in Nat /\ Len(wr[n]) \in Nat
      /\ k + l <= Len(wr[n]) /\ p.data = Part(n, k + 1, l)
      /\ wr[n] = Part(n, 1, Len(wr[n]))
      /\ p.cmd = "DATA_FIRST" <=> (k = 0 /\ l < Len(wr[n]))
      /\ After(p, wr) = IF k + l < Len(wr[n])
                          THEN <<n, k + l + 1>> ELSE <<n + 1, 1>>
  <2>1. /\ n \in Nat /\ n \in 1..Len(wr) /\ l \in Nat
        /\ Len(wr[n]) \in Nat /\ k + l <= Len(wr[n])
    BY ExpectedPiece
  <2>2. p.data = Part(n, k + 1, l)
    BY ExpectedPiece
  <2>3. wr[n] = Part(n, 1, Len(wr[n]))
    <3>1. n \in DOMAIN wr
      BY <2>1
    <3> QED
      BY <3>1 DEF Numbered
  <2>4. p.cmd = "DATA_FIRST" <=> (k = 0 /\ l < Len(wr[n]))
    BY ExpectedPiece
  <2>5. After(p, wr) = IF k + l < Len(wr[n])
                         THEN <<n, k + l + 1>> ELSE <<n + 1, 1>>
    BY ExpectedPiece
  <2> QED
    BY <2>1, <2>2, <2>3, <2>4, <2>5
<1>2. l = Len(wr[n]) /\ n + 1 = Len(msgs) + 2 /\ k + 1 = 1
  <2>1. ~(l < Len(wr[n]))
    BY <1>0, <1>1
  <2> QED
    BY <1>0, <1>1, <2>1
<1>3. p.data = wr[n] /\ After(p, wr) = <<n + 1, 1>>
  BY <1>1, <1>2
<1> QED
  BY <1>1, <1>2, <1>3

\* Another DATA goes on with the message, never beyond its length, or ends it.
LEMMA ReceiveMore ==
    ASSUME NEW p \in Pdus, NEW wr \in Seq(Seq(Units)),
           NEW msgs \in Seq(Seq(Units)), NEW data \in Seq(Units), NEW len,
           IsPiece(p, wr), At(p) = Expects(msgs, data), Numbered(wr),
           Received(msgs, wr, data, len), data # <<>>
    PROVE  /\ p.cmd # "DATA_FIRST"
           /\ data \o p.data \in Seq(Units) /\ data \o p.data # <<>>
           /\ Len(data \o p.data) \in Nat /\ len \in Nat
           /\ Len(data \o p.data) <= len
           /\ Len(data \o p.data) = len =>
                /\ Len(msgs) < Len(wr) /\ data \o p.data = wr[Len(msgs) + 1]
                /\ After(p, wr) = <<Len(msgs) + 2, 1>>
           /\ Len(data \o p.data) < len =>
                /\ Received(msgs, wr, data \o p.data, len)
                /\ After(p, wr) = Expects(msgs, data \o p.data)
<1> DEFINE n == Len(msgs) + 1
           l == Len(p.data)
           k == Len(data)
           all == data \o p.data
<1>1. /\ n \in Nat /\ n \in 1..Len(wr) /\ l \in Nat /\ l >= 1
      /\ k \in Nat /\ Len(wr[n]) \in Nat
      /\ k + l <= Len(wr[n]) /\ p.data \in Seq(Units)
      /\ p.data = Part(n, k + 1, l)
      /\ wr[n] = Part(n, 1, Len(wr[n]))
      /\ p.cmd = "DATA_FIRST" => k = 0
      /\ After(p, wr) = IF k + l < Len(wr[n])
                          THEN <<n, k + l + 1>> ELSE <<n + 1, 1>>
  BY ExpectedPiece
<1>2. /\ data = Part(n, 1, k) /\ len = Len(wr[n]) /\ k >= 1
      /\ Len(msgs) <= Len(wr) /\ \A j \in DOMAIN msgs : msgs[j] = wr[j]
  BY DEF Received
<1>4. all \in Seq(Units) /\ Len(all) = k + l
  BY <1>1
<1> HIDE DEF n, l, k
<1>3. all = Part(n, 1, k + l)
  <2>1. Part(n, 1, k) \o Part(n, k + 1, l) = Part(n, 1, k + l)
    BY <1>1, PartConcat
  <2> QED
    BY <1>1, <1>2, <2>1
<1> HIDE DEF all
<1>5. /\ all # <<>> /\ p.cmd # "DATA_FIRST" /\ Len(all) <= len
      /\ Len(all) \in Nat /\ len \in Nat
  <2>1. p.cmd # "DATA_FIRST"
    <3>1. k # 0
      BY <1>1, <1>2
    <3> QED
      BY <1>1, <3>1
  <2>2. Len(all) \in Nat /\ Len(all) >= 1 /\ Len(all) <= Len(wr[n])
    BY <1>1, <1>4
  <2>3. len \in Nat /\ Len(all) <= len
    BY <1>1, <1>2, <2>2
  <2>4. all # <<>>
    BY <2>2
  <2> QED
    BY <2>1, <2>2, <2>3, <2>4
<1>6. CASE Len(all) = len
  <2>0. k + l = Len(wr[n])
    BY <1>2, <1>4, <1>6, Zenon
  <2>1. all = wr[n] /\ After(p, wr) = <<n + 1, 1>>
    <3>1. ~(k + l < Len(wr[n]))
      BY <1>1, <2>0
    <3>2. all = wr[n]
      BY <1>1, <1>3, <2>0, Zenon
    <3> QED
      BY <1>1, <3>1, <3>2, Zenon
  <2>2. n + 1 = Len(msgs) + 2 /\ Len(msgs) < Len(wr)
    BY <1>1 DEF n
  <2>3. ~(Len(all) < len) /\ Len(all) \in Nat /\ len \in Nat
    BY <1>1, <1>2, <1>4, <1>6
  <2> QED
    BY <1>4, <1>5, <1>6, <2>1, <2>2, <2>3 DEF n, all
<1>7. CASE Len(all) < len
  <2>1. After(p, wr) = <<n, Len(all) + 1>>
    BY <1>1, <1>2, <1>4, <1>7
  <2>2. Len(msgs) < Len(wr) /\ all = Part(n, 1, Len(all))
    <3>1. Len(msgs) < Len(wr)
      BY <1>1 DEF n
    <3> QED
      BY <1>3, <1>4, <3>1
  <2>3. Received(msgs, wr, all, len)
    BY <1>2, <1>7, <2>2 DEF Received, n
  <2>4. Len(all) # len /\ Len(all) \in Nat /\ len \in Nat
    BY <1>1, <1>2, <1>4, <1>7
  <2> QED
    BY <1>4, <1>5, <1>7, <2>1, <2>3, <2>4 DEF Expects, n, all
<1>8. Len(all) = len \/ Len(all) < len
  BY <1>5
<1> QED
  BY <1>6, <1>7, <1>8

\* A message is passed on.
LEMMA ReceivedAll ==
    ASSUME NEW wr \in Seq(Seq(Units)), NEW msgs \in Seq(Seq(Units)),
           NEW data, NEW len, Received(msgs, wr, data, len),
           Len(msgs) < Len(wr), NEW len2
    PROVE  LET m2 == Append(msgs, wr[Len(msgs) + 1])
           IN  /\ m2 \in Seq(Seq(Units))
               /\ Received(m2, wr, <<>>, len2)
               /\ Expects(m2, <<>>) = <<Len(msgs) + 2, 1>>
<1> DEFINE n == Len(msgs) + 1
           m2 == Append(msgs, wr[n])
<1>1. wr[n] \in Seq(Units) /\ n \in Nat /\ n <= Len(wr) /\ DOMAIN msgs = 1..Len(msgs)
  OBVIOUS
<1>2. /\ m2 \in Seq(Seq(Units)) /\ Len(m2) = n /\ DOMAIN m2 = 1..n
      /\ \A k \in 1..Len(msgs) : m2[k] = msgs[k]
      /\ m2[n] = wr[n]
  BY <1>1
<1>3. \A k \in 1..Len(msgs) : msgs[k] = wr[k]
  BY <1>1 DEF Received
<1> HIDE DEF m2
<1>4. ASSUME NEW k \in DOMAIN m2 PROVE m2[k] = wr[k]
  <2>1. k \in 1..Len(msgs) \/ k = n
    BY <1>2
  <2> QED
    BY <1>2, <1>3, <2>1
<1>5. Received(m2, wr, <<>>, len2)
  BY <1>1, <1>2, <1>4 DEF Received
<1>6. Expects(m2, <<>>) = <<Len(msgs) + 2, 1>>
  <2>1. Len(m2) + 1 = Len(msgs) + 2 /\ Len(<<>>) + 1 = 1
    BY <1>1, <1>2
  <2> QED
    BY <2>1 DEF Expects
<1> QED
  BY <1>2, <1>5, <1>6 DEF m2

\* A part of a message may be given up, and more be written.
LEMMA ReceivedLess ==
    ASSUME NEW wr, NEW msgs, NEW data, NEW len, NEW len2,
           Received(msgs, wr, data, len)
    PROVE  Received(msgs, wr, <<>>, len2)
BY DEF Received

LEMMA ReceivedMoreWritten ==
    ASSUME NEW wr \in Seq(Seq(Units)), NEW msgs \in Seq(Seq(Units)),
           NEW data, NEW len, NEW m \in Seq(Units),
           Received(msgs, wr, data, len)
    PROVE  Received(msgs, Append(wr, m), data, len)
<1> DEFINE wr2 == Append(wr, m)
<1>1. /\ Len(wr2) = Len(wr) + 1 /\ Len(wr) \in Nat /\ Len(msgs) \in Nat
      /\ DOMAIN msgs = 1..Len(msgs)
      /\ \A k \in 1..Len(wr) : wr2[k] = wr[k]
  OBVIOUS
<1>2. Len(msgs) <= Len(wr) /\ \A k \in DOMAIN msgs : msgs[k] = wr[k]
  BY DEF Received
<1> HIDE DEF wr2
<1>3. ASSUME NEW k \in DOMAIN msgs PROVE msgs[k] = wr2[k]
  <2>1. k \in 1..Len(wr)
    BY <1>1, <1>2
  <2> QED
    BY <1>1, <1>2, <2>1
<1>4. Len(msgs) <= Len(wr2)
  BY <1>1, <1>2
<1>5. data # <<>> =>
         /\ Len(msgs) < Len(wr2)
         /\ data = Part(Len(msgs) + 1, 1, Len(data))
         /\ len = Len(wr2[Len(msgs) + 1]) /\ Len(data) < len
  <2>1. Len(msgs) < Len(wr) =>
          Len(msgs) + 1 \in 1..Len(wr) /\ Len(msgs) < Len(wr2)
    BY <1>1
  <2> QED
    BY <1>1, <2>1 DEF Received
<1>6. Received(msgs, wr2, data, len)
  BY <1>3, <1>4, <1>5 DEF Received
<1> QED
  BY <1>6 DEF wr2

\* A new message keeps the numbering.
LEMMA NumberedMore ==
    ASSUME NEW wr \in Seq(Seq(Units)), NEW len \in Lengths, Numbered(wr)
    PROVE  LET m == Message(Len(wr) + 1, len)
           IN  /\ m \in Seq(Units) /\ m # <<>> /\ m[1] = Fresh(wr)
               /\ Append(wr, m) \in Seq(Seq(Units))
               /\ Numbered(Append(wr, m))
<1> DEFINE n == Len(wr) + 1
           m == Message(n, len)
           wr2 == Append(wr, m)
<1>1. n \in Nat /\ len \in Nat /\ len >= 1 /\ 1 \in Nat /\ 1 >= 1
  BY DynamicChannelsAssumption
<1>2. m = Part(n, 1, len)
  BY <1>1, MessagePart
<1>3. m \in Seq(Units) /\ Len(m) = len
  BY <1>1, <1>2, PartSeq
<1>4. m[1] = <<n, 1>> /\ m # <<>>
  BY <1>1, <1>2, PartFirst
<1> HIDE DEF m
<1>5. /\ wr2 \in Seq(Seq(Units)) /\ DOMAIN wr2 = 1..n /\ DOMAIN wr = 1..Len(wr)
      /\ \A k \in 1..Len(wr) : wr2[k] = wr[k]
      /\ wr2[n] = m
  BY <1>3
<1> HIDE DEF wr2
<1>6. ASSUME NEW k \in DOMAIN wr2
      PROVE  wr2[k] = Part(k, 1, Len(wr2[k])) /\ Len(wr2[k]) \in Lengths
  <2>1. CASE k \in DOMAIN wr
    BY <1>5, <2>1 DEF Numbered
  <2>2. CASE k = n
    BY <1>2, <1>3, <1>5, <2>2
  <2> QED
    BY <1>5, <2>1, <2>2
<1>7. Numbered(wr2)
  BY <1>6 DEF Numbered
<1> QED
  BY <1>3, <1>4, <1>5, <1>7 DEF Fresh, m, wr2

\* A write begins.
LEMMA WriteBegins ==
    ASSUME NEW ch \in Channels, NEW wr \in Seq(Seq(Units)), NEW len \in Lengths,
           Numbered(wr)
    PROVE  LET m == Message(Len(wr) + 1, len)
               w == [ch |-> ch, rest |-> m, first |-> TRUE]
           IN  w \in Writes /\ InLast(w, ch, Append(wr, m)) /\ w.rest[1] = Fresh(wr)
<1> DEFINE n == Len(wr) + 1
           m == Message(n, len)
           w == [ch |-> ch, rest |-> m, first |-> TRUE]
           wr2 == Append(wr, m)
<1>1. n \in Nat /\ len \in Nat /\ len >= 1 /\ 1 \in Nat /\ 1 >= 1
  BY DynamicChannelsAssumption
<1>2. m = Part(n, 1, len)
  BY <1>1, MessagePart
<1>3. m \in Seq(Units) /\ m # <<>> /\ m[1] = Fresh(wr)
  BY NumberedMore
<1> HIDE DEF m
<1>4. Len(m) = len
  BY <1>1, <1>2, PartSeq
<1>5. Len(wr2) = n /\ wr2[n] = m /\ wr2 # <<>>
  <2>1. Len(wr2) = n /\ wr2[n] = m
    BY <1>3
  <2> QED
    BY <1>1, <2>1, EmptySeq
<1>6. w.ch = ch /\ w.rest = m /\ w.first = TRUE
  OBVIOUS
<1>7. w \in Writes
  BY <1>3, DynamicChannelsAssumption DEF Writes, Channels
<1> HIDE DEF wr2, w
<1>8. Len(wr2[Len(wr2)]) - Len(w.rest) + 1 = 1
  BY <1>1, <1>4, <1>5, <1>6
<1>9. InLast(w, ch, wr2)
  BY <1>2, <1>3, <1>4, <1>5, <1>6, <1>8 DEF InLast
<1> QED
  BY <1>3, <1>6, <1>7, <1>9 DEF m, w, wr2

-----------------------------------------------------------------------------
(***************************************************************************)
(* What a FIFO carries, and what the steps do to the FIFOs.                *)
(***************************************************************************)

LEMMA PduFacts ==
    ASSUME NEW cmd \in Cmds, NEW ch \in 0..MaxChannels
    PROVE  Pdu(cmd, ch) \in Pdus /\ Pdu(cmd, ch).cmd = cmd /\ Pdu(cmd, ch).ch = ch
BY DEF Pdu, Pdus

LEMMA QuitFacts == Quit \in Pdus /\ Quit.cmd = "WMQ_QUIT" /\ Quit.ch = 0
<1>1. "WMQ_QUIT" \in Cmds /\ 0 \in 0..MaxChannels
  BY DynamicChannelsAssumption DEF Cmds
<1> QED
  BY <1>1, PduFacts DEF Quit

LEMMA CarriesAppend ==
    ASSUME NEW q \in Seq(Pdus), NEW x \in Pdus, NEW ch, NEW cmds
    PROVE  Carries(Append(q, x), ch, cmds) <=>
             Carries(q, ch, cmds) \/ (x.ch = ch /\ x.cmd \in cmds)
<1> DEFINE t == Append(q, x)
<1>1. /\ DOMAIN t = 1..(Len(q) + 1)
      /\ \A i \in 1..Len(q) : t[i] = q[i]
      /\ t[Len(q) + 1] = x
      /\ Len(q) \in Nat /\ DOMAIN q = 1..Len(q)
  BY AppendFacts
<1> HIDE DEF t
<1>2. Carries(t, ch, cmds) <=>
        Carries(q, ch, cmds) \/ (x.ch = ch /\ x.cmd \in cmds)
  <2>1. Carries(q, ch, cmds) => Carries(t, ch, cmds)
    BY <1>1 DEF Carries
  <2>2. x.ch = ch /\ x.cmd \in cmds => Carries(t, ch, cmds)
    BY <1>1 DEF Carries
  <2>3. ASSUME NEW i \in DOMAIN t, t[i].ch = ch, t[i].cmd \in cmds
        PROVE  Carries(q, ch, cmds) \/ (x.ch = ch /\ x.cmd \in cmds)
    BY <1>1, <2>3 DEF Carries
  <2> QED
    BY <2>1, <2>2, <2>3 DEF Carries
<1> QED
  BY <1>2 DEF t

LEMMA CarriesTail ==
    ASSUME NEW q \in Seq(Pdus), q # <<>>, NEW ch, NEW cmds
    PROVE  Carries(q, ch, cmds) <=>
             \/ Carries(Tail(q), ch, cmds)
             \/ Head(q).ch = ch /\ Head(q).cmd \in cmds
<1> DEFINE t == Tail(q)
<1>1. /\ DOMAIN t = 1..(Len(q) - 1)
      /\ \A i \in 1..(Len(q) - 1) : t[i] = q[i + 1]
      /\ 1 \in DOMAIN q /\ Head(q) = q[1]
      /\ Len(q) \in Nat /\ DOMAIN q = 1..Len(q)
  BY TailFacts
<1> HIDE DEF t
<1>2. Carries(t, ch, cmds) => Carries(q, ch, cmds)
  BY <1>1 DEF Carries
<1>3. Head(q).ch = ch /\ Head(q).cmd \in cmds => Carries(q, ch, cmds)
  BY <1>1 DEF Carries
<1>4. ASSUME NEW i \in DOMAIN q, q[i].ch = ch, q[i].cmd \in cmds
      PROVE  \/ Carries(t, ch, cmds)
             \/ Head(q).ch = ch /\ Head(q).cmd \in cmds
  <2>1. CASE i = 1
    BY <1>1, <1>4, <2>1
  <2>2. CASE i # 1
    <3>1. i - 1 \in DOMAIN t /\ i - 1 \in 1..(Len(q) - 1) /\ (i - 1) + 1 = i
      BY <1>1, <2>2
    <3>2. t[i - 1] = q[i]
      BY <1>1, <3>1
    <3> QED
      BY <1>4, <3>1, <3>2 DEF Carries
  <2> QED
    BY <2>1, <2>2
<1> QED
  BY <1>2, <1>3, <1>4 DEF Carries, t

LEMMA CarriesPrefix ==
    ASSUME NEW q \in Seq(Pdus), NEW n \in 0..Len(q), NEW ch, NEW cmds,
           Carries(SubSeq(q, 1, n), ch, cmds)
    PROVE  Carries(q, ch, cmds)
<1> DEFINE t == SubSeq(q, 1, n)
<1>1. /\ DOMAIN t = 1..n /\ DOMAIN q = 1..Len(q)
      /\ \A i \in 1..n : t[i] = q[i]
      /\ Len(q) \in Nat /\ n \in Nat /\ n <= Len(q)
  BY PrefixFacts
<1> HIDE DEF t
<1>2. Carries(t, ch, cmds) => Carries(q, ch, cmds)
  BY <1>1 DEF Carries
<1> QED
  BY <1>2 DEF t

LEMMA CarriesEmpty ==
    ASSUME NEW ch, NEW cmds
    PROVE  ~Carries(<<>>, ch, cmds)
BY DEF Carries

\* What Send does to the FIFO.
LEMMA SendFacts ==
    ASSUME NEW q \in Seq(Pdus), NEW x \in Pdus, NEW y \in Pdus
    PROVE  /\ q \o <<>> = q
           /\ q \o <<x>> = Append(q, x)
           /\ q \o (<<>> \o <<x>>) = Append(q, x)
           /\ q \o (<<x>> \o <<y>>) = Append(Append(q, x), y)
<1>1. q \o <<>> = q
  BY ConcatEmptySeq
<1>2. \A z \in Pdus : q \o <<z>> = Append(q, z)
  BY AppendIsConcat
<1>3. <<x>> \in Seq(Pdus) /\ <<y>> \in Seq(Pdus) /\ Append(q, x) \in Seq(Pdus)
  OBVIOUS
<1>4. <<>> \o <<x>> = <<x>>
  BY <1>3, ConcatEmptySeq
<1>5. q \o (<<x>> \o <<y>>) = (q \o <<x>>) \o <<y>>
  BY <1>3, ConcatAssociative
<1>6. Append(q, x) \o <<y>> = Append(Append(q, x), y)
  BY <1>3, AppendIsConcat
<1> QED
  BY <1>1, <1>2, <1>4, <1>5, <1>6

\* PDUs of a client that carry no data.
Answers == {"CAPABILITY", "CREATE_OK", "CREATE_FAILED", "CLOSE"}

\* q2 is q and at most two of them, for channels in S.
AddsAnswers(q, q2, S) ==
    \/ q2 = q
    \/ \E x \in Pdus : x.cmd \in Answers /\ x.ch \in S /\ q2 = Append(q, x)
    \/ \E x, y \in Pdus : /\ x.cmd \in Answers /\ x.ch \in S
                          /\ y.cmd \in Answers /\ y.ch \in S
                          /\ q2 = Append(Append(q, x), y)

\* They do not disturb the data of any channel.
LEMMA AnswersKeepData ==
    ASSUME NEW q \in Seq(Pdus), NEW q2, NEW S, AddsAnswers(q, q2, S),
           NEW ch, NEW wr
    PROVE  /\ q2 \in Seq(Pdus)
           /\ Pieces(q, ch, wr) => Pieces(q2, ch, wr)
           /\ \A r : Chain(q, ch, wr, r) => Chain(q2, ch, wr, r)
           /\ \A r, s : EndsAt(q, ch, wr, r, s) => EndsAt(q2, ch, wr, r, s)
           /\ ch \notin S => \A C : Carries(q2, ch, C) => Carries(q, ch, C)
<1>0. \A x \in Pdus : x.cmd \in Answers => x.cmd \notin Data
  BY DEF Answers, Data
<1>1. ASSUME NEW p \in Seq(Pdus), NEW x \in Pdus, x.cmd \in Answers, x.ch \in S
      PROVE  /\ Append(p, x) \in Seq(Pdus)
             /\ Pieces(p, ch, wr) => Pieces(Append(p, x), ch, wr)
             /\ \A r : Chain(p, ch, wr, r) => Chain(Append(p, x), ch, wr, r)
             /\ \A r, s : EndsAt(p, ch, wr, r, s) =>
                            EndsAt(Append(p, x), ch, wr, r, s)
             /\ ch \notin S =>
                  \A C : Carries(Append(p, x), ch, C) => Carries(p, ch, C)
  BY <1>0, <1>1, AppendFacts, StreamAppendOther, CarriesAppend, Zenon
<1>2. CASE q2 = q
  BY <1>2
<1>3. ASSUME NEW x \in Pdus, x.cmd \in Answers, x.ch \in S, q2 = Append(q, x)
      PROVE  /\ q2 \in Seq(Pdus)
             /\ Pieces(q, ch, wr) => Pieces(q2, ch, wr)
             /\ \A r : Chain(q, ch, wr, r) => Chain(q2, ch, wr, r)
             /\ \A r, s : EndsAt(q, ch, wr, r, s) => EndsAt(q2, ch, wr, r, s)
             /\ ch \notin S => \A C : Carries(q2, ch, C) => Carries(q, ch, C)
  BY <1>1, <1>3, Zenon
<1>4. ASSUME NEW x \in Pdus, x.cmd \in Answers, x.ch \in S,
             NEW y \in Pdus, y.cmd \in Answers, y.ch \in S,
             q2 = Append(Append(q, x), y)
      PROVE  /\ q2 \in Seq(Pdus)
             /\ Pieces(q, ch, wr) => Pieces(q2, ch, wr)
             /\ \A r : Chain(q, ch, wr, r) => Chain(q2, ch, wr, r)
             /\ \A r, s : EndsAt(q, ch, wr, r, s) => EndsAt(q2, ch, wr, r, s)
             /\ ch \notin S => \A C : Carries(q2, ch, C) => Carries(q, ch, C)
  <2> DEFINE p == Append(q, x)
  <2>1. /\ p \in Seq(Pdus)
        /\ Pieces(q, ch, wr) => Pieces(p, ch, wr)
        /\ \A r : Chain(q, ch, wr, r) => Chain(p, ch, wr, r)
        /\ \A r, s : EndsAt(q, ch, wr, r, s) => EndsAt(p, ch, wr, r, s)
        /\ ch \notin S => \A C : Carries(p, ch, C) => Carries(q, ch, C)
    BY <1>1, <1>4, Zenon
  <2>2. q2 = Append(p, y)
    BY <1>4
  <2> HIDE DEF p
  <2>3. /\ q2 \in Seq(Pdus)
        /\ Pieces(p, ch, wr) => Pieces(q2, ch, wr)
        /\ \A r : Chain(p, ch, wr, r) => Chain(q2, ch, wr, r)
        /\ \A r, s : EndsAt(p, ch, wr, r, s) => EndsAt(q2, ch, wr, r, s)
        /\ ch \notin S => \A C : Carries(q2, ch, C) => Carries(p, ch, C)
    BY <1>1, <1>4, <2>1, <2>2, Zenon
  <2> QED
    BY <2>1, <2>3, Zenon
<1> QED
  BY <1>2, <1>3, <1>4, Zenon DEF AddsAnswers

\* Neither is there a request or a WMQ_QUIT among them.
LEMMA AnswersOnly ==
    ASSUME NEW q \in Seq(Pdus), NEW q2, NEW S, AddsAnswers(q, q2, S),
           \A i \in DOMAIN q : q[i].cmd \notin {"CREATE", "WMQ_QUIT"}
    PROVE  \A i \in DOMAIN q2 : q2[i].cmd \notin {"CREATE", "WMQ_QUIT"}
<1>1. ASSUME NEW p \in Seq(Pdus), NEW x \in Pdus, x.cmd \in Answers,
             \A i \in DOMAIN p : p[i].cmd \notin {"CREATE", "WMQ_QUIT"}
      PROVE  /\ Append(p, x) \in Seq(Pdus)
             /\ \A i \in DOMAIN Append(p, x) :
                  Append(p, x)[i].cmd \notin {"CREATE", "WMQ_QUIT"}
  <2> DEFINE t == Append(p, x)
  <2>1. /\ t \in Seq(Pdus) /\ DOMAIN t = 1..(Len(p) + 1)
        /\ \A i \in 1..Len(p) : t[i] = p[i]
        /\ t[Len(p) + 1] = x
        /\ Len(p) \in Nat /\ DOMAIN p = 1..Len(p)
    BY AppendFacts
  <2> HIDE DEF t
  <2>2. x.cmd \notin {"CREATE", "WMQ_QUIT"}
    BY <1>1 DEF Answers
  <2>3. ASSUME NEW i \in DOMAIN t PROVE t[i].cmd \notin {"CREATE", "WMQ_QUIT"}
    <3>1. i \in DOMAIN p \/ i = Len(p) + 1
      BY <2>1
    <3> QED
      BY <1>1, <2>1, <2>2, <3>1
  <2> QED
    BY <2>1, <2>3 DEF t
<1>2. CASE q2 = q
  BY <1>2
<1>3. ASSUME NEW x \in Pdus, x.cmd \in Answers, q2 = Append(q, x)
      PROVE  \A i \in DOMAIN q2 : q2[i].cmd \notin {"CREATE", "WMQ_QUIT"}
  BY <1>1, <1>3, Zenon
<1>4. ASSUME NEW x \in Pdus, x.cmd \in Answers, NEW y \in Pdus, y.cmd \in Answers,
             q2 = Append(Append(q, x), y)
      PROVE  \A i \in DOMAIN q2 : q2[i].cmd \notin {"CREATE", "WMQ_QUIT"}
  <2>1. /\ Append(q, x) \in Seq(Pdus)
        /\ \A i \in DOMAIN Append(q, x) :
             Append(q, x)[i].cmd \notin {"CREATE", "WMQ_QUIT"}
    BY <1>1, <1>4, Zenon
  <2> QED
    BY <1>1, <1>4, <2>1, Zenon
<1> QED
  BY <1>2, <1>3, <1>4, Zenon DEF AddsAnswers

\* Send of one answer ...
LEMMA SendAnswer ==
    ASSUME NEW S, NEW cmd \in Answers, NEW ch \in 0..MaxChannels, ch \in S,
           toServer \in Seq(Pdus), Send(<<Pdu(cmd, ch)>>)
    PROVE  AddsAnswers(toServer, toServer', S)
<1>1. cmd \in Cmds
  BY DEF Answers, Cmds
<1>2. Pdu(cmd, ch) \in Pdus /\ Pdu(cmd, ch).cmd = cmd /\ Pdu(cmd, ch).ch = ch
  BY <1>1, PduFacts
<1>3. toServer' = Append(toServer, Pdu(cmd, ch)) \/ toServer' = toServer
  BY <1>2, SendFacts DEF Send
<1> QED
  BY <1>2, <1>3 DEF AddsAnswers

\* ... and of the capabilities before it, if they were not sent.
LEMMA SendCapability ==
    ASSUME NEW S, 0 \in S, toServer \in Seq(Pdus),
           Send(IF state = "CAPABILITIES" THEN <<Pdu("CAPABILITY", 0)>> ELSE <<>>)
    PROVE  AddsAnswers(toServer, toServer', S)
<1>1. "CAPABILITY" \in Answers /\ 0 \in 0..MaxChannels
  BY DynamicChannelsAssumption DEF Answers
<1>2. CASE state = "CAPABILITIES"
  <2>1. Send(<<Pdu("CAPABILITY", 0)>>)
    BY <1>2
  <2> QED
    BY <1>1, <2>1, SendAnswer
<1>3. CASE state # "CAPABILITIES"
  <2>1. toServer \o <<>> = toServer
    BY ConcatEmptySeq
  <2> QED
    BY <1>3, <2>1 DEF Send, AddsAnswers
<1> QED
  BY <1>2, <1>3

LEMMA SendRefusal ==
    ASSUME NEW S, 0 \in S, NEW ch \in 0..MaxChannels, ch \in S,
           toServer \in Seq(Pdus),
           Send((IF state = "CAPABILITIES" THEN <<Pdu("CAPABILITY", 0)>>
                                           ELSE <<>>)
                \o <<Pdu("CREATE_FAILED", ch)>>)
    PROVE  /\ AddsAnswers(toServer, toServer', S)
           /\ \/ toServer' = toServer
              \/ toServer' = Append(toServer, Pdu("CREATE_FAILED", ch))
              \/ toServer' = Append(Append(toServer, Pdu("CAPABILITY", 0)),
                                    Pdu("CREATE_FAILED", ch))
<1> DEFINE x == Pdu("CAPABILITY", 0)
           y == Pdu("CREATE_FAILED", ch)
<1>1. /\ "CAPABILITY" \in Cmds /\ "CREATE_FAILED" \in Cmds
      /\ 0 \in 0..MaxChannels
  BY DynamicChannelsAssumption DEF Cmds
<1>2. /\ x \in Pdus /\ x.cmd \in Answers /\ x.ch \in S
      /\ y \in Pdus /\ y.cmd \in Answers /\ y.ch \in S
  BY <1>1, PduFacts DEF Answers
<1> HIDE DEF x, y
<1>3. \/ toServer' = toServer
      \/ toServer' = toServer \o (<<>> \o <<y>>)
      \/ toServer' = toServer \o (<<x>> \o <<y>>)
  BY DEF Send, x, y
<1>4. \/ toServer' = toServer
      \/ toServer' = Append(toServer, y)
      \/ toServer' = Append(Append(toServer, x), y)
  BY <1>2, <1>3, SendFacts
<1>5. AddsAnswers(toServer, toServer', S)
  BY <1>2, <1>4, Zenon DEF AddsAnswers
<1> QED
  BY <1>4, <1>5 DEF x, y

-----------------------------------------------------------------------------
(***************************************************************************)
(* What the actions change.                                                *)
(***************************************************************************)

\* The client's steps other than writes and the disconnect.
ClientControl == MainJoin \/ ThreadNext \/ PluginClose

ServerWriting ==
    \E ch \in Channels : ServerWrite(ch) \/ ServerWriteNext(ch)

ClientWriting == \E w \in Writers : WriterStart(w) \/ WriterNext(w)

LEMMA NextSplit ==
    ASSUME Next
    PROVE  \/ ManagerOpen \/ ServerOpen \/ ServerWriting
           \/ \E ch \in Channels : ServerClose(ch)
           \/ ServerReceive \/ Disconnect \/ ClientControl \/ ClientWriting
BY DEF Next, ServerNext, ClientNext, ServerWriting, ClientWriting, ClientControl

\* The channels the client may send an answer for.
Known == {0} \cup open \cup {queue[i].ch : i \in DOMAIN queue}

\* Sequence variables are sequences of PDUs, and the head of the queue is one.
LEMMA HeadFacts ==
    ASSUME Shape, queue # <<>>
    PROVE  /\ Head(queue) \in Pdus /\ Head(queue).ch \in 0..MaxChannels
           /\ Head(queue).ch \in Known /\ Head(queue).data \in Seq(Units)
           /\ Head(queue).total \in Nat
           /\ 1 \in DOMAIN queue /\ queue[1] = Head(queue)
<1>1. queue \in Seq(Pdus)
  BY DEF Shape
<1>2. Head(queue) \in Pdus /\ 1 \in DOMAIN queue /\ queue[1] = Head(queue)
  BY <1>1, TailFacts
<1> QED
  BY <1>2 DEF Pdus, Known

LEMMA RemoveFacts ==
    ASSUME Shape, NEW ch \in Channels, RemoveChannel(ch)
    PROVE  /\ open' = open \ {ch} /\ closes' \in [Channels -> Nat]
           /\ closes'[ch] = closes[ch] + 1
           /\ \A c \in Channels : c # ch => closes'[c] = closes[c]
           /\ dvc_data' \in [Channels -> [length : Nat, data : Seq(Units)]]
           /\ dvc_data'[ch] = NoData
           /\ \A c \in Channels : c # ch => dvc_data'[c] = dvc_data[c]
<1>1. NoData \in [length : Nat, data : Seq(Units)]
  BY DEF NoData
<1>2. /\ closes \in [Channels -> Nat]
      /\ dvc_data \in [Channels -> [length : Nat, data : Seq(Units)]]
  BY DEF Shape
<1>3. /\ open' = open \ {ch}
      /\ closes' = [closes EXCEPT ![ch] = @ + 1]
      /\ dvc_data' = [dvc_data EXCEPT ![ch] = NoData]
  BY DEF RemoveChannel
<1>4. /\ closes' \in [Channels -> Nat] /\ closes'[ch] = closes[ch] + 1
      /\ \A c \in Channels : c # ch => closes'[c] = closes[c]
  BY <1>2, <1>3
<1>5. /\ dvc_data' \in [Channels -> [length : Nat, data : Seq(Units)]]
      /\ dvc_data'[ch] = NoData
      /\ \A c \in Channels : c # ch => dvc_data'[c] = dvc_data[c]
  <2> DEFINE S == [length : Nat, data : Seq(Units)]
  <2>1. NoData \in S /\ dvc_data \in [Channels -> S]
    BY <1>1, <1>2
  <2> HIDE DEF S
  <2>2. /\ dvc_data' \in [Channels -> S] /\ dvc_data'[ch] = NoData
        /\ \A c \in Channels : c # ch => dvc_data'[c] = dvc_data[c]
    BY <1>3, <2>1
  <2> QED
    BY <2>2 DEF S
<1> QED
  BY <1>3, <1>4, <1>5

\* Data makes the client send a CLOSE and remove the channel, or nothing.
LEMMA DataControl ==
    ASSUME ThreadData
    PROVE  \/ UNCHANGED <<toServer, open, closes>>
           \/ /\ Head(queue).ch \in open
              /\ Send(<<Pdu("CLOSE", Head(queue).ch)>>)
              /\ RemoveChannel(Head(queue).ch)
BY Zenon DEF ThreadData, ReceiveChannelData, Deliver

\* What a step of ClientControl leaves alone, and what it may change.
LEMMA ControlFrame ==
    ASSUME Shape, Ending, ClientControl
    PROVE  /\ UNCHANGED <<server, writing, cwritten>>
           /\ AddsAnswers(toServer, toServer', Known)
           /\ open' \subseteq Known
           /\ \A ch \in Channels : ch \notin Known => closes'[ch] = closes[ch]
           /\ \/ queue' = queue
              \/ queue # <<>> /\ queue' = Tail(queue)
              \/ queue' = <<>>
<1> DEFINE G == /\ UNCHANGED <<server, writing, cwritten>>
                /\ AddsAnswers(toServer, toServer', Known)
                /\ open' \subseteq Known
                /\ \A ch \in Channels :
                     ch \notin Known => closes'[ch] = closes[ch]
                /\ \/ queue' = queue
                   \/ queue # <<>> /\ queue' = Tail(queue)
                   \/ queue' = <<>>
<1>1. /\ toServer \in Seq(Pdus) /\ closes \in [Channels -> Nat]
      /\ open \subseteq Channels /\ Channels \subseteq 0..MaxChannels
  BY DEF Shape, Channels
<1>2. open \subseteq Known /\ 0 \in Known /\ 0 \in 0..MaxChannels
  BY DynamicChannelsAssumption DEF Known
<1>3. toServer' = toServer => AddsAnswers(toServer, toServer', Known)
  BY DEF AddsAnswers
<1>4. "CAPABILITY" \in Answers /\ "CREATE_OK" \in Answers /\ "CLOSE" \in Answers
  BY DEF Answers
<1>5. ASSUME NEW ch \in open, RemoveChannel(ch)
      PROVE  /\ open' \subseteq Known
             /\ \A c \in Channels : c \notin Known => closes'[c] = closes[c]
  BY <1>1, <1>2, <1>5, RemoveFacts
<1>6. ASSUME NEW ch \in open, Send(<<Pdu("CLOSE", ch)>>)
      PROVE  AddsAnswers(toServer, toServer', Known)
  BY <1>1, <1>2, <1>4, <1>6, SendAnswer
<1>7. CASE MainJoin
  BY <1>1, <1>2, <1>3, <1>7 DEF MainJoin
<1>8. CASE ThreadCapability
  <2>1. AddsAnswers(toServer, toServer', Known)
    BY <1>1, <1>2, <1>4, <1>8, SendAnswer DEF ThreadCapability
  <2> QED
    BY <1>2, <1>8, <2>1 DEF ThreadCapability, Take
<1>9. CASE ThreadAccept
  <2>1. Head(queue).ch \in Known
    BY <1>9, HeadFacts DEF ThreadAccept
  <2>2. AddsAnswers(toServer, toServer', Known)
    BY <1>1, <1>2, <1>9, SendCapability DEF ThreadAccept
  <2> QED
    BY <1>2, <1>9, <2>1, <2>2 DEF ThreadAccept
<1>10. CASE ThreadRespond /\ queue # <<>>
  <2>1. Head(queue).ch \in Known /\ Head(queue).ch \in 0..MaxChannels
    BY <1>10, HeadFacts
  <2>2. AddsAnswers(toServer, toServer', Known)
    BY <1>1, <1>4, <1>10, <2>1, SendAnswer DEF ThreadRespond
  <2> QED
    BY <1>2, <1>10, <2>2 DEF ThreadRespond
<1>11. CASE ThreadRefuse
  <2>1. Head(queue).ch \in Known /\ Head(queue).ch \in 0..MaxChannels
    BY <1>11, HeadFacts DEF ThreadRefuse, Take
  <2>2. AddsAnswers(toServer, toServer', Known)
    BY <1>1, <1>2, <1>11, <2>1, SendRefusal DEF ThreadRefuse
  <2>3. /\ open' \subseteq Known
        /\ \A c \in Channels : c \notin Known => closes'[c] = closes[c]
    BY <1>2, <1>5, <1>11 DEF ThreadRefuse
  <2> QED
    BY <1>11, <2>2, <2>3 DEF ThreadRefuse, Take
<1>12. CASE ThreadData
  <2>1. /\ UNCHANGED <<server, writing, cwritten>>
        /\ queue # <<>> /\ queue' = Tail(queue)
    BY <1>12 DEF ThreadData, Take
  <2>2. CASE UNCHANGED <<toServer, open, closes>>
    BY <1>2, <1>3, <2>1, <2>2
  <2>3. CASE /\ Head(queue).ch \in open
             /\ Send(<<Pdu("CLOSE", Head(queue).ch)>>)
             /\ RemoveChannel(Head(queue).ch)
    BY <1>5, <1>6, <2>1, <2>3
  <2> QED
    BY <1>12, <2>2, <2>3, DataControl
<1>13. CASE ThreadClose
  <2>1. /\ UNCHANGED <<server, writing, cwritten>>
        /\ queue # <<>> /\ queue' = Tail(queue)
    BY <1>13 DEF ThreadClose, Take
  <2>2. CASE UNCHANGED <<toServer, open, closes>>
    BY <1>2, <1>3, <2>1, <2>2
  <2>3. CASE /\ Head(queue).ch \in open
             /\ Send(<<Pdu("CLOSE", Head(queue).ch)>>)
             /\ RemoveChannel(Head(queue).ch)
    BY <1>5, <1>6, <2>1, <2>3
  <2> QED
    BY <1>13, <2>2, <2>3 DEF ThreadClose
<1>14. CASE ThreadQuit \/ ThreadEnd
  BY <1>2, <1>3, <1>14 DEF ThreadQuit, ThreadEnd, Take
<1>15. CASE ThreadCloseRemaining
  BY <1>3, <1>5, <1>15 DEF ThreadCloseRemaining
<1>16. CASE PluginClose
  BY <1>5, <1>6, <1>16 DEF PluginClose
<1>17. ThreadRespond => queue # <<>>
  BY DEF ThreadRespond, Ending
<1> QED
  BY <1>7, <1>8, <1>9, <1>10, <1>11, <1>12, <1>13, <1>14, <1>15, <1>16, <1>17
     DEF ClientControl, ThreadNext

\* What becomes of the queue.
LEMMA QueueStep ==
    ASSUME Shape, Ending, Next
    PROVE  \/ ServerWriting
           \/ queue' = queue
           \/ queue # <<>> /\ queue' = Tail(queue)
           \/ queue' = <<>>
           \/ \E x \in Pdus : x.cmd \notin Data /\ queue' = Append(queue, x)
           \/ \E n \in 0..Len(queue) : queue' = Append(SubSeq(queue, 1, n), Quit)
<1>0. /\ "CAPABILITY" \in Cmds \ Data /\ "CREATE" \in Cmds \ Data
      /\ "CLOSE" \in Cmds \ Data
  BY DEF Cmds, Data
<1>1. \A cmd \in Cmds \ Data, ch \in 0..MaxChannels :
        Pdu(cmd, ch) \in Pdus /\ Pdu(cmd, ch).cmd \notin Data
  BY PduFacts
<1>2. 0 \in 0..MaxChannels /\ Channels \subseteq 0..MaxChannels
  BY DynamicChannelsAssumption DEF Channels
<1>3. CASE ManagerOpen
  BY <1>0, <1>1, <1>2, <1>3 DEF ManagerOpen
<1>4. CASE ServerOpen
  <2>1. dvc_channel_id_seq' \in 0..MaxChannels
    BY <1>4, DynamicChannelsAssumption DEF ServerOpen, Shape
  <2> QED
    BY <1>0, <1>1, <1>4, <2>1 DEF ServerOpen
<1>5. CASE \E ch \in Channels : ServerClose(ch)
  BY <1>0, <1>1, <1>2, <1>5 DEF ServerClose
<1>6. CASE ServerReceive \/ ClientWriting
  BY <1>6 DEF ServerReceive, ClientWriting, WriterStart, WriterNext, WriterSend
<1>7. CASE Disconnect
  <2>1. Cardinality(Unanswered) \in Nat
    BY FS_Singleton, FS_EmptySet, FS_CardinalityType DEF Unanswered
  <2>2. PICK n \in Cardinality(Unanswered)..Len(queue) :
          queue' = Append(SubSeq(queue, 1, n), Quit)
    BY <1>7 DEF Disconnect
  <2>3. n \in 0..Len(queue)
    BY <2>1, <2>2
  <2> QED
    BY <2>2, <2>3
<1>8. CASE ClientControl
  BY <1>8, ControlFrame
<1> QED
  BY <1>3, <1>4, <1>5, <1>6, <1>7, <1>8, NextSplit

\* A PDU with data that the client's thread takes for an open channel is the
\* piece that the channel expects.
LEMMA ThreadTakes ==
    ASSUME DvcInv, ThreadData, Head(queue).ch \in open
    PROVE  LET p  == Head(queue)
               ch == Head(queue).ch
               wr == swritten[ch]
               r  == Expects(got[ch], dvc_data[ch].data)
           IN  /\ ch \in Channels /\ p \in Pdus /\ p.data \in Seq(Units)
               /\ p.cmd \in Data /\ p.total \in Nat
               /\ wr \in Seq(Seq(Units)) /\ got[ch] \in Seq(Seq(Units))
               /\ dvc_data[ch].data \in Seq(Units) /\ Numbered(wr)
               /\ IsPiece(p, wr) /\ At(p) = r
               /\ Chain(Tail(queue), ch, wr, After(p, wr))
               /\ \A s : EndsAt(queue, ch, wr, r, s) =>
                           EndsAt(Tail(queue), ch, wr, After(p, wr), s)
<1> DEFINE p  == Head(queue)
           ch == Head(queue).ch
           wr == swritten[ch]
           r  == Expects(got[ch], dvc_data[ch].data)
<1>1. Shape /\ ServerSide /\ ToClient
  BY DEF DvcInv
<1>2. queue # <<>> /\ p.cmd \in Data
  BY DEF ThreadData, Take, Data
<1>3. p \in Pdus /\ p.data \in Seq(Units) /\ p.total \in Nat
  BY <1>1, <1>2, HeadFacts
<1>4. ch \in Channels
  BY <1>1 DEF Shape
<1> HIDE DEF p, ch
<1>5. /\ queue \in Seq(Pdus) /\ wr \in Seq(Seq(Units))
      /\ got[ch] \in Seq(Seq(Units)) /\ dvc_data[ch].data \in Seq(Units)
  BY <1>1, <1>4 DEF Shape
<1>6. r \in Units
  BY <1>5, ExpectsUnits
<1>7. Pieces(queue, ch, wr) /\ Numbered(wr)
  BY <1>1, <1>4 DEF ServerSide
<1>8. Chain(queue, ch, wr, r)
  BY <1>1, <1>4 DEF ToClient, Flows, Live, ch
<1> HIDE DEF wr, r
<1>9. p.ch = ch /\ Head(queue) = p
  BY DEF p, ch
<1>10. /\ IsPiece(p, wr) /\ At(p) = r
       /\ Chain(Tail(queue), ch, wr, After(p, wr))
       /\ \A s : EndsAt(queue, ch, wr, r, s) =>
                   EndsAt(Tail(queue), ch, wr, After(p, wr), s)
  BY <1>2, <1>5, <1>6, <1>7, <1>8, <1>9, StreamTake
<1> QED
  BY <1>2, <1>3, <1>4, <1>5, <1>7, <1>10 DEF p, ch, wr, r

\* The client puts it to its message, or passes the whole message on.
Stores(ch, p, wr) ==
    \E D \in Seq(Units), L \in Nat :
        /\ D # <<>> /\ Received(got[ch], wr, D, L)
        /\ After(p, wr) = Expects(got[ch], D)
        /\ dvc_data' = [dvc_data EXCEPT ![ch] = [length |-> L, data |-> D]]
        /\ UNCHANGED <<toServer, open, closes, got>>

Delivers(ch, p, wr) ==
    \E m \in Seq(Units) :
        /\ Received(Append(got[ch], m), wr, <<>>, 0)
        /\ After(p, wr) = Expects(Append(got[ch], m), <<>>)
        /\ Deliver(ch, m)

LEMMA ThreadDataEffect ==
    ASSUME DvcInv, ThreadData
    PROVE  LET p  == Head(queue)
               ch == Head(queue).ch
               wr == swritten[ch]
           IN  \/ /\ ch \notin open
                  /\ UNCHANGED <<toServer, open, closes, dvc_data, got>>
               \/ ch \in open /\ (Stores(ch, p, wr) \/ Delivers(ch, p, wr))
<1> DEFINE p  == Head(queue)
           ch == Head(queue).ch
           wr == swritten[ch]
           d  == IF p.cmd = "DATA_FIRST"
                   THEN [length |-> p.total, data |-> <<>>] ELSE dvc_data[p.ch]
           had == dvc_data[ch].data
           len == dvc_data[ch].length
<1>1. CASE ch \notin open
  BY <1>1 DEF ThreadData
<1>2. CASE ch \in open
  <2>1. ReceiveChannelData(ch, d, p.data)
    BY <1>2 DEF ThreadData
  <2>2. /\ ch \in Channels /\ p \in Pdus /\ p.data \in Seq(Units)
        /\ p.cmd \in Data /\ p.total \in Nat
        /\ wr \in Seq(Seq(Units)) /\ got[ch] \in Seq(Seq(Units))
        /\ had \in Seq(Units) /\ Numbered(wr)
        /\ IsPiece(p, wr) /\ At(p) = Expects(got[ch], had)
    BY <1>2, ThreadTakes
  <2>3. Received(got[ch], wr, had, len) /\ (had = <<>> => len = 0)
    BY <2>2 DEF DvcInv, ClientHas
  <2>4. p.ch = ch
    OBVIOUS
  <2>5. /\ dvc_data[ch] \in [length : Nat, data : Seq(Units)] /\ len \in Nat
        /\ dvc_data[ch] = [length |-> len, data |-> had]
    BY <2>2 DEF DvcInv, Shape
  <2> HIDE DEF p, ch, wr, had, len
  <2>6. CASE p.cmd = "DATA_FIRST"
    <3>1. /\ Received(got[ch], wr, p.data, p.total)
          /\ After(p, wr) = Expects(got[ch], p.data)
          /\ p.data # <<>> /\ Len(p.data) < p.total /\ p.total \in Lengths
      BY <2>2, <2>3, <2>6, ReceiveFirst
    <3>2. d = [length |-> p.total, data |-> <<>>] /\ p.total # 0
      BY <2>6, <3>1, DynamicChannelsAssumption
    <3>3. d # NoData /\ d.length = p.total /\ d.data \o p.data = p.data
      <4>1. d # NoData /\ d.length = p.total /\ d.data = <<>>
        BY <3>2 DEF NoData
      <4>2. <<>> \o p.data = p.data
        BY <2>2, ConcatEmptySeq
      <4> QED
        BY <4>1, <4>2
    <3>4. ~(Len(p.data) > p.total) /\ ~(Len(p.data) >= p.total)
      BY <2>2, <3>1
    <3>5. [d EXCEPT !.data = p.data] = [length |-> p.total, data |-> p.data]
      BY <3>2
    <3> HIDE DEF d
    <3>6. /\ dvc_data' = [dvc_data EXCEPT ![ch] = [d EXCEPT !.data = p.data]]
          /\ UNCHANGED <<toServer, open, closes, got>>
      BY <2>1, <3>3, <3>4 DEF ReceiveChannelData
    <3>7. Stores(ch, p, wr)
      BY <2>2, <3>1, <3>5, <3>6 DEF Stores
    <3> QED
      BY <1>2, <3>7 DEF p, ch, wr
  <2>7. CASE p.cmd # "DATA_FIRST" /\ had = <<>>
    <3>1. p.cmd = "DATA"
      BY <2>2, <2>7 DEF Data
    <3>2. /\ Len(got[ch]) < Len(wr) /\ p.data = wr[Len(got[ch]) + 1]
          /\ After(p, wr) = <<Len(got[ch]) + 2, 1>>
      BY <2>2, <2>7, <3>1, ReceiveWhole
    <3>3. /\ Received(Append(got[ch], p.data), wr, <<>>, 0)
          /\ Expects(Append(got[ch], p.data), <<>>) = <<Len(got[ch]) + 2, 1>>
      BY <2>2, <2>3, <3>2, ReceivedAll
    <3>4. d = NoData
      BY <2>3, <2>4, <2>5, <2>7 DEF NoData
    <3> HIDE DEF d
    <3>5. Deliver(ch, p.data)
      BY <2>1, <3>4 DEF ReceiveChannelData
    <3>6. Delivers(ch, p, wr)
      BY <2>2, <3>2, <3>3, <3>5 DEF Delivers
    <3> QED
      BY <1>2, <3>6 DEF p, ch, wr
  <2>8. CASE p.cmd # "DATA_FIRST" /\ had # <<>>
    <3> DEFINE all == had \o p.data
    <3>1. /\ all \in Seq(Units) /\ all # <<>> /\ Len(all) \in Nat
          /\ Len(all) <= len
          /\ Len(all) = len =>
               /\ Len(got[ch]) < Len(wr) /\ all = wr[Len(got[ch]) + 1]
               /\ After(p, wr) = <<Len(got[ch]) + 2, 1>>
          /\ Len(all) < len =>
               /\ Received(got[ch], wr, all, len)
               /\ After(p, wr) = Expects(got[ch], all)
      <4> DEFINE msgs == got[ch]
      <4>1. /\ IsPiece(p, wr) /\ At(p) = Expects(msgs, had) /\ Numbered(wr)
            /\ Received(msgs, wr, had, len) /\ had # <<>>
            /\ p \in Pdus /\ wr \in Seq(Seq(Units))
            /\ msgs \in Seq(Seq(Units)) /\ had \in Seq(Units)
        BY <2>2, <2>3, <2>8, Zenon
      <4> HIDE DEF p, ch, wr, had, len, msgs
      <4>2. /\ all \in Seq(Units) /\ all # <<>> /\ Len(all) \in Nat
            /\ Len(all) <= len
            /\ Len(all) = len =>
                 /\ Len(msgs) < Len(wr) /\ all = wr[Len(msgs) + 1]
                 /\ After(p, wr) = <<Len(msgs) + 2, 1>>
            /\ Len(all) < len =>
                 /\ Received(msgs, wr, all, len)
                 /\ After(p, wr) = Expects(msgs, all)
        BY <4>1, ReceiveMore
      <4> QED
        BY <4>2 DEF msgs
    <3>2. /\ d = [length |-> len, data |-> had] /\ d # NoData /\ d.length = len
          /\ d.data \o p.data = all
      BY <2>4, <2>5, <2>8 DEF NoData
    <3> HIDE DEF d, all
    <3>3. [d EXCEPT !.data = all] = [length |-> len, data |-> all]
      BY <3>2
    <3>4. CASE Len(all) = len
      <4>1. /\ Received(Append(got[ch], all), wr, <<>>, 0)
            /\ Expects(Append(got[ch], all), <<>>) = <<Len(got[ch]) + 2, 1>>
        BY <2>2, <2>3, <3>1, <3>4, ReceivedAll
      <4>2. ~(Len(all) > len) /\ Len(all) >= len
        BY <2>5, <3>1, <3>4
      <4>3. Deliver(ch, all)
        BY <2>1, <3>2, <4>2 DEF ReceiveChannelData
      <4>4. Delivers(ch, p, wr)
        BY <3>1, <3>4, <4>1, <4>3 DEF Delivers
      <4> QED
        BY <1>2, <4>4 DEF p, ch, wr
    <3>5. CASE Len(all) < len
      <4>1. ~(Len(all) > len) /\ ~(Len(all) >= len)
        BY <2>5, <3>1, <3>5
      <4>2. /\ dvc_data' = [dvc_data EXCEPT ![ch] = [d EXCEPT !.data = all]]
            /\ UNCHANGED <<toServer, open, closes, got>>
        BY <2>1, <3>2, <4>1 DEF ReceiveChannelData
      <4>3. Stores(ch, p, wr)
        BY <2>5, <3>1, <3>3, <3>5, <4>2 DEF Stores
      <4> QED
        BY <1>2, <4>3 DEF p, ch, wr
    <3> QED
      BY <2>5, <3>1, <3>4, <3>5
  <2> QED
    BY <2>6, <2>7, <2>8
<1> QED
  BY <1>1, <1>2

\* The same on the server.  A PDU of data that the peer thread takes for a
\* channel in its list is the piece that the channel expects.
LEMMA ServerTakes ==
    ASSUME DvcInv, peer = "up", toServer # <<>>,
           Head(toServer).ch \in Listed, Head(toServer).cmd \in Data
    PROVE  LET p  == Head(toServer)
               ch == Head(toServer).ch
               wr == cwritten[ch]
               r  == Expects(inbox[ch], Partial(ch))
           IN  /\ ch \in Channels /\ p \in Pdus /\ p.data \in Seq(Units)
               /\ p.total \in Nat
               /\ wr \in Seq(Seq(Units)) /\ inbox[ch] \in Seq(Seq(Units))
               /\ Partial(ch) \in Seq(Units) /\ Numbered(wr)
               /\ IsPiece(p, wr) /\ At(p) = r
               /\ Chain(Tail(toServer), ch, wr, After(p, wr))
               /\ \A s : EndsAt(toServer, ch, wr, r, s) =>
                           EndsAt(Tail(toServer), ch, wr, After(p, wr), s)
<1> DEFINE p  == Head(toServer)
           ch == Head(toServer).ch
           wr == cwritten[ch]
           r  == Expects(inbox[ch], Partial(ch))
<1>1. Shape /\ ClientSide /\ ToServer
  BY DEF DvcInv
<1>2. toServer \in Seq(Pdus)
  BY <1>1 DEF Shape
<1>3. p \in Pdus
  BY <1>2, TailFacts
<1>4. p.data \in Seq(Units) /\ p.total \in Nat
  BY <1>3 DEF Pdus
<1>5. ch \in Channels /\ ch \in Listed
  BY DEF Listed
<1>6. p.ch = ch /\ Head(toServer) = p /\ p.cmd \in Data
  OBVIOUS
<1> HIDE DEF p, ch
<1>7. /\ wr \in Seq(Seq(Units))
      /\ inbox[ch] \in Seq(Seq(Units)) /\ Partial(ch) \in Seq(Units)
  <2>1. receiveData[ch] \in Seq(Units) /\ <<>> \in Seq(Units)
    BY <1>1, <1>5 DEF Shape
  <2>2. Partial(ch) \in Seq(Units)
    BY <2>1 DEF Partial
  <2> QED
    BY <1>1, <1>5, <2>2 DEF Shape
<1>8. r \in Units
  BY <1>7, ExpectsUnits
<1>9. Pieces(toServer, ch, wr) /\ Numbered(wr)
  BY <1>1, <1>5 DEF ClientSide
<1>10. Chain(toServer, ch, wr, r)
  BY <1>1, <1>5 DEF ToServer, FlowsBack
<1> HIDE DEF wr, r
<1>11. /\ IsPiece(p, wr) /\ At(p) = r
       /\ Chain(Tail(toServer), ch, wr, After(p, wr))
       /\ \A s : EndsAt(toServer, ch, wr, r, s) =>
                   EndsAt(Tail(toServer), ch, wr, After(p, wr), s)
  BY <1>2, <1>6, <1>7, <1>8, <1>9, <1>10, StreamTake
<1> QED
  BY <1>3, <1>4, <1>5, <1>7, <1>9, <1>11 DEF p, ch, wr, r

\* The server puts it to its message, ...
ServerStores(ch, p, wr) ==
    \E D \in Seq(Units), L \in Nat :
        /\ D # <<>> /\ L # 0 /\ Received(inbox[ch], wr, D, L)
        /\ After(p, wr) = Expects(inbox[ch], D)
        /\ total_length' = [total_length EXCEPT ![ch] = L]
        /\ receiveData' = [receiveData EXCEPT ![ch] = D]
        /\ UNCHANGED <<inbox, peer>>

\* ... queues the whole message, ...
ServerDelivers(ch, p, wr) ==
    \E m \in Seq(Units), D \in Seq(Units) :
        /\ Received(Append(inbox[ch], m), wr, <<>>, 0)
        /\ After(p, wr) = Expects(Append(inbox[ch], m), <<>>)
        /\ total_length' = [total_length EXCEPT ![ch] = 0]
        /\ receiveData' = [receiveData EXCEPT ![ch] = D]
        /\ inbox' = [inbox EXCEPT ![ch] = Append(@, m)]
        /\ UNCHANGED peer

\* ... or gives the connection up, because the channel is closed.
ServerDrops(ch) ==
    /\ dvc_open_state[ch] = "CLOSED"
    /\ peer' = "dropped"
    /\ total_length' = [total_length EXCEPT ![ch] = 0]
    /\ \E D \in Seq(Units) : receiveData' = [receiveData EXCEPT ![ch] = D]
    /\ UNCHANGED inbox

LEMMA ReadFirstEffect ==
    ASSUME DvcInv, peer = "up", toServer # <<>>,
           Head(toServer).ch \in Listed, Head(toServer).cmd = "DATA_FIRST",
           ReadDataFirst(Head(toServer))
    PROVE  LET ch == Head(toServer).ch
           IN  ServerStores(ch, Head(toServer), cwritten[ch])
<1> DEFINE p  == Head(toServer)
           ch == Head(toServer).ch
           wr == cwritten[ch]
           had == Partial(ch)
<1>1. /\ ch \in Channels /\ p \in Pdus /\ p.data \in Seq(Units)
      /\ p.total \in Nat
      /\ wr \in Seq(Seq(Units)) /\ inbox[ch] \in Seq(Seq(Units))
      /\ had \in Seq(Units) /\ Numbered(wr)
      /\ IsPiece(p, wr) /\ At(p) = Expects(inbox[ch], had)
  BY ServerTakes DEF Data
<1>2. Received(inbox[ch], wr, had, total_length[ch])
  BY <1>1 DEF DvcInv, ServerHas
<1>3. p.ch = ch /\ p.cmd = "DATA_FIRST" /\ ReadDataFirst(p)
  OBVIOUS
<1> HIDE DEF p, ch, wr, had
<1>4. /\ Received(inbox[ch], wr, p.data, p.total)
      /\ After(p, wr) = Expects(inbox[ch], p.data)
      /\ p.data # <<>> /\ Len(p.data) < p.total /\ p.total \in Lengths
  BY <1>1, <1>2, <1>3, ReceiveFirst
<1>5. p.total # 0 /\ ~(Len(p.data) > p.total)
  BY <1>1, <1>4, DynamicChannelsAssumption
<1>6. /\ total_length' = [total_length EXCEPT ![ch] = p.total]
      /\ receiveData' = [receiveData EXCEPT ![ch] = p.data]
      /\ UNCHANGED <<inbox, peer>>
  BY <1>3, <1>5 DEF ReadDataFirst
<1>7. ServerStores(ch, p, wr)
  BY <1>1, <1>4, <1>5, <1>6 DEF ServerStores
<1> QED
  BY <1>7 DEF p, ch, wr

LEMMA ReadDataEffect ==
    ASSUME DvcInv, peer = "up", toServer # <<>>,
           Head(toServer).ch \in Listed, Head(toServer).cmd = "DATA",
           ReadData(Head(toServer))
    PROVE  LET p  == Head(toServer)
               ch == Head(toServer).ch
               wr == cwritten[ch]
           IN  ServerStores(ch, p, wr) \/ ServerDelivers(ch, p, wr) \/ ServerDrops(ch)
<1> DEFINE p  == Head(toServer)
           ch == Head(toServer).ch
           wr == cwritten[ch]
           had == Partial(ch)
           total == total_length[ch]
<1>1. /\ ch \in Channels /\ p \in Pdus /\ p.data \in Seq(Units)
      /\ p.total \in Nat
      /\ wr \in Seq(Seq(Units)) /\ inbox[ch] \in Seq(Seq(Units))
      /\ had \in Seq(Units) /\ Numbered(wr)
      /\ IsPiece(p, wr) /\ At(p) = Expects(inbox[ch], had)
  BY ServerTakes DEF Data
<1>2. /\ Received(inbox[ch], wr, had, total)
      /\ total # 0 => receiveData[ch] # <<>>
  BY <1>1 DEF DvcInv, ServerHas
<1>3. p.ch = ch /\ p.cmd = "DATA" /\ ReadData(p)
  OBVIOUS
<1>4. /\ total_length \in [Channels -> Nat] /\ total \in Nat
      /\ receiveData \in [Channels -> Seq(Units)]
      /\ inbox \in [Channels -> Seq(Seq(Units))]
  BY <1>1 DEF DvcInv, Shape
<1>5. had = IF total = 0 THEN <<>> ELSE receiveData[ch]
  BY DEF Partial
<1> HIDE DEF p, ch, wr, had, total
<1>6. CASE total = 0
  <2>1. /\ Len(inbox[ch]) < Len(wr) /\ p.data = wr[Len(inbox[ch]) + 1]
        /\ After(p, wr) = <<Len(inbox[ch]) + 2, 1>>
    BY <1>1, <1>3, <1>5, <1>6, ReceiveWhole
  <2>2. /\ Received(Append(inbox[ch], p.data), wr, <<>>, 0)
        /\ Expects(Append(inbox[ch], p.data), <<>>) = <<Len(inbox[ch]) + 2, 1>>
    BY <1>1, <1>2, <2>1, ReceivedAll
  <2>3. QueueReceiveData(ch, p.data) /\ UNCHANGED <<receiveData, total_length>>
    BY <1>3, <1>6 DEF ReadData, total
  <2>4. /\ total_length' = [total_length EXCEPT ![ch] = 0]
        /\ receiveData' = [receiveData EXCEPT ![ch] = receiveData[ch]]
        /\ receiveData[ch] \in Seq(Units)
    BY <1>1, <1>4, <1>6, <2>3 DEF total
  <2>5. CASE dvc_open_state[ch] = "CLOSED"
    <3>1. peer' = "dropped" /\ UNCHANGED inbox
      BY <2>3, <2>5 DEF QueueReceiveData
    <3>2. ServerDrops(ch)
      BY <2>4, <2>5, <3>1 DEF ServerDrops
    <3> QED
      BY <3>2 DEF ch
  <2>6. CASE dvc_open_state[ch] # "CLOSED"
    <3>1. inbox' = [inbox EXCEPT ![ch] = Append(@, p.data)] /\ UNCHANGED peer
      BY <2>3, <2>6 DEF QueueReceiveData
    <3>2. ServerDelivers(ch, p, wr)
      BY <1>1, <2>1, <2>2, <2>4, <3>1 DEF ServerDelivers
    <3> QED
      BY <3>2 DEF p, ch, wr
  <2> QED
    BY <2>5, <2>6
<1>7. CASE total # 0
  <2> DEFINE all == had \o p.data
  <2>1. had = receiveData[ch] /\ had # <<>>
    BY <1>2, <1>5, <1>7
  <2>2. /\ all \in Seq(Units) /\ all # <<>> /\ Len(all) \in Nat
        /\ Len(all) <= total
        /\ Len(all) = total =>
             /\ Len(inbox[ch]) < Len(wr) /\ all = wr[Len(inbox[ch]) + 1]
             /\ After(p, wr) = <<Len(inbox[ch]) + 2, 1>>
        /\ Len(all) < total =>
             /\ Received(inbox[ch], wr, all, total)
             /\ After(p, wr) = Expects(inbox[ch], all)
    <3> DEFINE msgs == inbox[ch]
    <3>1. /\ IsPiece(p, wr) /\ At(p) = Expects(msgs, had) /\ Numbered(wr)
          /\ Received(msgs, wr, had, total) /\ had # <<>>
          /\ p \in Pdus /\ wr \in Seq(Seq(Units))
          /\ msgs \in Seq(Seq(Units)) /\ had \in Seq(Units)
      BY <1>1, <1>2, <2>1, Zenon
    <3> HIDE DEF p, ch, wr, had, total, msgs
    <3>2. /\ all \in Seq(Units) /\ all # <<>> /\ Len(all) \in Nat
          /\ Len(all) <= total
          /\ Len(all) = total =>
               /\ Len(msgs) < Len(wr) /\ all = wr[Len(msgs) + 1]
               /\ After(p, wr) = <<Len(msgs) + 2, 1>>
          /\ Len(all) < total =>
               /\ Received(msgs, wr, all, total)
               /\ After(p, wr) = Expects(msgs, all)
      BY <3>1, ReceiveMore
    <3> QED
      BY <3>2 DEF msgs
  <2>3. receiveData[ch] \o p.data = all
    BY <2>1
  <2> HIDE DEF all
  <2>4. ~(Len(all) > total)
    BY <1>4, <2>2
  <2>5. /\ receiveData' = [receiveData EXCEPT ![ch] = all]
        /\ IF Len(all) >= total
             THEN /\ QueueReceiveData(ch, all)
                  /\ total_length' = [total_length EXCEPT ![ch] = 0]
             ELSE UNCHANGED <<inbox, peer, total_length>>
    BY <1>3, <1>7, <2>3, <2>4 DEF ReadData, total
  <2>6. CASE Len(all) < total
    <3>1. ~(Len(all) >= total)
      BY <1>4, <2>2, <2>6
    <3>2. UNCHANGED <<inbox, peer, total_length>>
      BY <2>5, <3>1
    <3>3. total_length' = [total_length EXCEPT ![ch] = total]
      BY <1>4, <3>2 DEF total
    <3>4. ServerStores(ch, p, wr)
      BY <1>4, <1>7, <2>2, <2>5, <2>6, <3>2, <3>3 DEF ServerStores
    <3> QED
      BY <3>4 DEF p, ch, wr
  <2>7. CASE Len(all) = total
    <3>1. Len(all) >= total
      BY <1>4, <2>7
    <3>2. /\ QueueReceiveData(ch, all)
          /\ total_length' = [total_length EXCEPT ![ch] = 0]
      BY <2>5, <3>1
    <3>3. /\ Received(Append(inbox[ch], all), wr, <<>>, 0)
          /\ Expects(Append(inbox[ch], all), <<>>) = <<Len(inbox[ch]) + 2, 1>>
      BY <1>1, <1>2, <2>2, <2>7, ReceivedAll
    <3>4. CASE dvc_open_state[ch] = "CLOSED"
      <4>1. peer' = "dropped" /\ UNCHANGED inbox
        BY <3>2, <3>4 DEF QueueReceiveData
      <4>2. ServerDrops(ch)
        BY <2>2, <2>5, <3>2, <3>4, <4>1 DEF ServerDrops
      <4> QED
        BY <4>2 DEF ch
    <3>5. CASE dvc_open_state[ch] # "CLOSED"
      <4>1. inbox' = [inbox EXCEPT ![ch] = Append(@, all)] /\ UNCHANGED peer
        BY <3>2, <3>5 DEF QueueReceiveData
      <4>2. ServerDelivers(ch, p, wr)
        BY <2>2, <2>5, <2>7, <3>2, <3>3, <4>1 DEF ServerDelivers
      <4> QED
        BY <4>2 DEF p, ch, wr
    <3> QED
      BY <3>4, <3>5
  <2> QED
    BY <1>4, <2>2, <2>6, <2>7
<1> QED
  BY <1>6, <1>7

\* What the peer thread does with a PDU: ignores it, ...
Ignores(p) ==
    /\ p.cmd = "CAPABILITY" \/ p.ch \notin Listed
    /\ drdynvc_state' \in {drdynvc_state, "READY"}
    /\ UNCHANGED <<dvc_open_state, total_length, receiveData, inbox, peer>>

\* ... takes the client's answer, ...
TakesAnswer(p) ==
    /\ p.ch \in Listed
    /\ \/ p.cmd = "CREATE_OK" /\ ReadOpenState(p.ch, "SUCCEEDED")
       \/ p.cmd = "CREATE_FAILED" /\ ReadOpenState(p.ch, "FAILED")
       \/ p.cmd = "CLOSE" /\ ReadOpenState(p.ch, "CLOSED")
    /\ UNCHANGED drdynvc_state

\* ... or a piece of a message.
TakesPiece(p) ==
    /\ p.ch \in Listed /\ p.cmd \in Data
    /\ \/ ServerStores(p.ch, p, cwritten[p.ch])
       \/ ServerDelivers(p.ch, p, cwritten[p.ch])
       \/ ServerDrops(p.ch)
    /\ UNCHANGED <<drdynvc_state, dvc_open_state>>

LEMMA ServerReceiveEffect ==
    ASSUME DvcInv, ServerReceive
    PROVE  /\ peer = "up" /\ toServer # <<>>
           /\ UNCHANGED <<dvc_channel_id_seq, sending, swritten, queue, client>>
           /\ toServer' = IF peer' = "up" THEN Tail(toServer) ELSE <<>>
           /\ \/ Ignores(Head(toServer))
              \/ TakesAnswer(Head(toServer))
              \/ TakesPiece(Head(toServer))
<1> DEFINE p == Head(toServer)
<1>1. /\ peer = "up" /\ toServer # <<>>
      /\ UNCHANGED <<dvc_channel_id_seq, sending, swritten, queue, client>>
      /\ toServer' = IF peer' = "up" THEN Tail(toServer) ELSE <<>>
  BY DEF ServerReceive
<1>2. p \in Pdus /\ p.cmd \notin {"CREATE", "WMQ_QUIT"}
  <2>1. /\ toServer \in Seq(Pdus)
        /\ \A i \in DOMAIN toServer :
             toServer[i].cmd \notin {"CREATE", "WMQ_QUIT"}
    BY DEF DvcInv, Shape
  <2>2. p \in Pdus /\ 1 \in DOMAIN toServer /\ toServer[1] = p
    BY <1>1, <2>1, TailFacts
  <2> QED
    BY <2>1, <2>2
<1>3. p.cmd \in {"CAPABILITY", "CREATE_OK", "CREATE_FAILED", "CLOSE",
                 "DATA_FIRST", "DATA"}
  BY <1>2 DEF Pdus, Cmds
<1>4. p.ch \in Listed => drdynvc_state = "READY"
  <2>1. SUFFICES ASSUME p.ch \in Listed PROVE drdynvc_state = "READY"
    OBVIOUS
  <2>2. p.ch \in Channels /\ dvc_open_state[p.ch] # "UNUSED"
    BY <2>1 DEF Listed
  <2>3. ~(p.ch > dvc_channel_id_seq)
    BY <2>2 DEF DvcInv, Unused, Untouched
  <2>4. dvc_channel_id_seq > 0
    BY <2>2, <2>3 DEF DvcInv, Shape, Channels
  <2> QED
    BY <2>4 DEF DvcInv, Unused
<1>5. CASE p.cmd = "CAPABILITY"
  <2>1. Ignores(p)
    BY <1>5 DEF ServerReceive, Ignores
  <2> QED
    BY <1>1, <2>1
<1>6. CASE p.cmd # "CAPABILITY" /\ p.ch \notin Listed
  <2>1. Ignores(p)
    BY <1>6 DEF ServerReceive, Ignores
  <2> QED
    BY <1>1, <2>1
<1>7. CASE p.cmd # "CAPABILITY" /\ p.ch \in Listed
  <2>0. /\ UNCHANGED drdynvc_state
        /\ CASE p.cmd = "CREATE_OK"  -> ReadOpenState(p.ch, "SUCCEEDED")
             [] p.cmd = "CREATE_FAILED" -> ReadOpenState(p.ch, "FAILED")
             [] p.cmd = "CLOSE"      -> ReadOpenState(p.ch, "CLOSED")
             [] p.cmd = "DATA_FIRST" -> ReadDataFirst(p)
             [] p.cmd = "DATA"       -> ReadData(p)
    BY <1>4, <1>7 DEF ServerReceive
  <2>1. CASE p.cmd = "CREATE_OK"
    <3>1. ReadOpenState(p.ch, "SUCCEEDED")
      BY <2>0, <2>1
    <3> QED
      BY <1>1, <1>7, <2>0, <2>1, <3>1 DEF TakesAnswer
  <2>2. CASE p.cmd = "CREATE_FAILED"
    <3>1. ReadOpenState(p.ch, "FAILED")
      BY <2>0, <2>2
    <3> QED
      BY <1>1, <1>7, <2>0, <2>2, <3>1 DEF TakesAnswer
  <2>3. CASE p.cmd = "CLOSE"
    <3>1. ReadOpenState(p.ch, "CLOSED")
      BY <2>0, <2>3
    <3> QED
      BY <1>1, <1>7, <2>0, <2>3, <3>1 DEF TakesAnswer
  <2>4. CASE p.cmd = "DATA_FIRST"
    <3>1. ReadDataFirst(p)
      BY <2>0, <2>4
    <3>2. ServerStores(p.ch, p, cwritten[p.ch])
      BY <1>1, <1>7, <2>4, <3>1, ReadFirstEffect
    <3>3. UNCHANGED dvc_open_state
      BY <3>1 DEF ReadDataFirst
    <3> QED
      BY <1>1, <1>7, <2>0, <2>4, <3>2, <3>3 DEF TakesPiece, Data
  <2>5. CASE p.cmd = "DATA"
    <3>1. ReadData(p)
      BY <2>0, <2>5
    <3>2. \/ ServerStores(p.ch, p, cwritten[p.ch])
          \/ ServerDelivers(p.ch, p, cwritten[p.ch])
          \/ ServerDrops(p.ch)
      BY <1>1, <1>7, <2>5, <3>1, ReadDataEffect
    <3>3. UNCHANGED dvc_open_state
      BY <3>1 DEF ReadData
    <3> QED
      BY <1>1, <1>7, <2>0, <2>5, <3>2, <3>3 DEF TakesPiece, Data
  <2> QED
    BY <1>3, <1>7, <2>1, <2>2, <2>3, <2>4, <2>5
<1> QED
  BY <1>5, <1>6, <1>7

\* The messages written to a channel stay, or one more is written.
Extends(wr, wr2) ==
    wr2 = wr \/ \E m \in Seq(Units) : wr2 = Append(wr, m)

\* The server writes a piece of the last message of wr to ch.
ServerSends(ch, w, wr) ==
    /\ peer = "up"
    /\ swritten' = [swritten EXCEPT ![ch] = wr] /\ Extends(swritten[ch], wr)
    /\ Numbered(wr) /\ InLast(w, ch, wr)
    /\ w.rest[1] = NextOf(sending[ch], swritten[ch])
    /\ ServerSend(ch, w)

LEMMA ServerWriteEffect ==
    ASSUME DvcInv, NEW ch \in Channels, ServerWrite(ch) \/ ServerWriteNext(ch)
    PROVE  \E w \in Writes, wr \in Seq(Seq(Units)) : ServerSends(ch, w, wr)
<1> DEFINE old == swritten[ch]
<1>1. /\ swritten \in [Channels -> Seq(Seq(Units))] /\ old \in Seq(Seq(Units))
      /\ sending[ch] \in Writes
  BY DEF DvcInv, Shape
<1>2. Numbered(old) /\ (sending[ch] = Idle \/ Midway(sending[ch], ch, old))
  BY DEF DvcInv, ServerSide
<1>3. CASE ServerWrite(ch)
  <2>1. PICK len \in Lengths :
          LET msg == Message(Len(old) + 1, len)
          IN  /\ swritten' = [swritten EXCEPT ![ch] = Append(@, msg)]
              /\ ServerSend(ch, [ch |-> ch, rest |-> msg, first |-> TRUE])
    BY <1>3 DEF ServerWrite
  <2> DEFINE m == Message(Len(old) + 1, len)
             w == [ch |-> ch, rest |-> m, first |-> TRUE]
             wr == Append(old, m)
  <2>2. m \in Seq(Units) /\ wr \in Seq(Seq(Units)) /\ Numbered(wr)
    BY <1>1, <1>2, NumberedMore
  <2>3. w \in Writes /\ InLast(w, ch, wr) /\ w.rest[1] = Fresh(old)
    BY <1>1, <1>2, WriteBegins
  <2>4. swritten' = [swritten EXCEPT ![ch] = wr] /\ ServerSend(ch, w)
    BY <2>1
  <2>5. peer = "up" /\ sending[ch] = Idle
    BY <1>3 DEF ServerWrite
  <2> HIDE DEF w, m
  <2>6. Extends(old, wr)
    BY <2>2 DEF Extends
  <2>7. NextOf(sending[ch], old) = Fresh(old)
    BY <2>5 DEF NextOf, Idle
  <2> HIDE DEF wr
  <2>8. ServerSends(ch, w, wr)
    BY <2>2, <2>3, <2>4, <2>5, <2>6, <2>7 DEF ServerSends
  <2> QED
    BY <2>2, <2>3, <2>8
<1>4. CASE ServerWriteNext(ch)
  <2> DEFINE w == sending[ch]
  <2>1. /\ peer = "up" /\ w # Idle /\ ServerSend(ch, w)
        /\ swritten' = swritten
    BY <1>4 DEF ServerWriteNext
  <2>2. Midway(w, ch, old)
    BY <1>2, <2>1
  <2>3. InLast(w, ch, old) /\ w.rest # <<>>
    BY <2>2 DEF Midway, InLast
  <2>4. w.rest[1] = NextOf(w, old)
    BY <2>3 DEF NextOf
  <2>5. swritten' = [swritten EXCEPT ![ch] = old]
    BY <1>1, <2>1
  <2>6. ServerSends(ch, w, old)
    BY <1>2, <2>1, <2>3, <2>4, <2>5 DEF ServerSends, Extends
  <2> QED
    BY <1>1, <2>6
<1> QED
  BY <1>3, <1>4

\* A plugin thread writes a piece of the last message of wr to ch.
ClientSends(v, ch, w, wr) ==
    /\ cwritten' = [cwritten EXCEPT ![ch] = wr] /\ Extends(cwritten[ch], wr)
    /\ Numbered(wr) /\ InLast(w, ch, wr)
    /\ \/ /\ writing[v] = Idle /\ ch \in open /\ LockFree(ch)
          /\ w.rest[1] = Fresh(cwritten[ch])
       \/ w = writing[v]
    /\ WriterSend(v, w)

LEMMA ClientWriteEffect ==
    ASSUME DvcInv, NEW v \in Writers, WriterStart(v) \/ WriterNext(v)
    PROVE  \E ch \in Channels, w \in Writes, wr \in Seq(Seq(Units)) :
              ClientSends(v, ch, w, wr)
<1>0. /\ cwritten \in [Channels -> Seq(Seq(Units))] /\ open \subseteq Channels
      /\ writing[v] \in Writes
  BY DEF DvcInv, Shape
<1>1. \A c \in Channels : Numbered(cwritten[c])
  BY DEF DvcInv, ClientSide
<1>2. CASE WriterStart(v)
  <2>1. PICK ch \in open, len \in Lengths :
          LET msg == Message(Len(cwritten[ch]) + 1, len)
          IN  /\ LockFree(ch)
              /\ cwritten' = [cwritten EXCEPT ![ch] = Append(@, msg)]
              /\ WriterSend(v, [ch |-> ch, rest |-> msg, first |-> TRUE])
    BY <1>2 DEF WriterStart
  <2> DEFINE old == cwritten[ch]
             m == Message(Len(old) + 1, len)
             w == [ch |-> ch, rest |-> m, first |-> TRUE]
             wr == Append(old, m)
  <2>2. ch \in Channels /\ old \in Seq(Seq(Units)) /\ Numbered(old)
    BY <1>0, <1>1
  <2>3. m \in Seq(Units) /\ wr \in Seq(Seq(Units)) /\ Numbered(wr)
    BY <2>2, NumberedMore
  <2>4. w \in Writes /\ InLast(w, ch, wr) /\ w.rest[1] = Fresh(old)
    BY <2>2, WriteBegins
  <2>5. /\ cwritten' = [cwritten EXCEPT ![ch] = wr] /\ WriterSend(v, w)
        /\ LockFree(ch)
    BY <2>1
  <2>6. writing[v] = Idle
    BY <1>2 DEF WriterStart
  <2> HIDE DEF w, m
  <2>7. Extends(old, wr)
    BY <2>3 DEF Extends
  <2> HIDE DEF wr
  <2>8. ClientSends(v, ch, w, wr)
    BY <2>3, <2>4, <2>5, <2>6, <2>7 DEF ClientSends
  <2> QED
    BY <2>2, <2>3, <2>4, <2>8
<1>3. CASE WriterNext(v)
  <2> DEFINE w == writing[v]
             ch == writing[v].ch
  <2>1. w # Idle /\ WriterSend(v, w) /\ cwritten' = cwritten
    BY <1>3 DEF WriterNext
  <2>2. ch \in Channels /\ Midway(w, ch, cwritten[ch])
    BY <2>1 DEF DvcInv, ClientSide
  <2>3. InLast(w, ch, cwritten[ch])
    BY <2>2 DEF Midway
  <2>4. /\ cwritten' = [cwritten EXCEPT ![ch] = cwritten[ch]]
        /\ cwritten[ch] \in Seq(Seq(Units))
    BY <1>0, <2>1, <2>2
  <2>5. ClientSends(v, ch, w, cwritten[ch])
    BY <1>1, <2>1, <2>2, <2>3, <2>4 DEF ClientSends, Extends
  <2> QED
    BY <1>0, <2>2, <2>4, <2>5
<1> QED
  BY <1>2, <1>3

\* The PDU is sent unless an end of the connection is closed.
LEMMA WriterSendFacts ==
    ASSUME toServer \in Seq(Pdus), NEW w, Fragment(w) \in Pdus,
           Send(<<Fragment(w)>>)
    PROVE  toServer' = IF peer = "up" THEN Append(toServer, Fragment(w))
                                      ELSE toServer
BY SendFacts DEF Send

-----------------------------------------------------------------------------
(***************************************************************************)
(* The types.                                                              *)
(***************************************************************************)

LEMMA ShapeServer ==
    ASSUME DvcInv,
           \/ ManagerOpen \/ ServerOpen
           \/ \E ch \in Channels : ServerClose(ch)
    PROVE  Shape'
<1>1. Shape
  BY DEF DvcInv
<1>2. \A cmd \in Cmds, ch \in 0..MaxChannels : Append(queue, Pdu(cmd, ch)) \in Seq(Pdus)
  BY <1>1, PduFacts, AppendFacts DEF Shape
<1>3. /\ "CAPABILITY" \in Cmds /\ "CREATE" \in Cmds /\ "CLOSE" \in Cmds
      /\ 0 \in 0..MaxChannels /\ Channels \subseteq 0..MaxChannels
  BY DynamicChannelsAssumption DEF Cmds, Channels
<1>4. CASE ManagerOpen
  <2>1. queue' \in Seq(Pdus)
    BY <1>2, <1>3, <1>4 DEF ManagerOpen
  <2> QED
    BY <1>1, <1>4, <2>1 DEF Shape, ManagerOpen, client, Channels
<1>5. CASE ServerOpen
  <2>1. dvc_channel_id_seq' \in Channels /\ dvc_channel_id_seq' \in 0..MaxChannels
    BY <1>1, <1>5, DynamicChannelsAssumption DEF ServerOpen, Shape, Channels
  <2>2. queue' \in Seq(Pdus)
    BY <1>2, <1>3, <1>5, <2>1 DEF ServerOpen
  <2>3. dvc_open_state' \in [Channels -> OpenStates]
    BY <1>1, <1>5, <2>1 DEF ServerOpen, Shape, OpenStates
  <2> QED
    BY <1>1, <1>5, <2>1, <2>2, <2>3 DEF Shape, ServerOpen, client, Channels
<1>6. ASSUME NEW ch \in Channels, ServerClose(ch) PROVE Shape'
  <2>1. queue' \in Seq(Pdus)
    BY <1>1, <1>2, <1>3, <1>6 DEF ServerClose, Shape
  <2>2. dvc_open_state' \in [Channels -> OpenStates]
    BY <1>1, <1>6 DEF ServerClose, Shape, OpenStates
  <2> QED
    BY <1>1, <1>6, <2>1, <2>2 DEF Shape, ServerClose, client, Channels
<1> QED
  BY <1>4, <1>5, <1>6

LEMMA ShapeWriting ==
    ASSUME DvcInv, ServerWriting \/ ClientWriting
    PROVE  Shape'
<1>1. Shape
  BY DEF DvcInv
<1>2. CASE ServerWriting
  <2>1. PICK ch \in Channels : ServerWrite(ch) \/ ServerWriteNext(ch)
    BY <1>2 DEF ServerWriting
  <2>2. PICK w \in Writes, wr \in Seq(Seq(Units)) : ServerSends(ch, w, wr)
    BY <2>1, ServerWriteEffect
  <2>3. Fragment(w) \in Pdus /\ AfterFragment(w) \in Writes
    BY <2>2, FragmentPiece DEF ServerSends
  <2>4. queue' \in Seq(Pdus)
    BY <1>1, <2>2, <2>3, AppendFacts DEF ServerSends, ServerSend, Shape
  <2>5. sending' \in [Channels -> Writes]
    BY <1>1, <2>2, <2>3 DEF ServerSends, ServerSend, Shape
  <2>6. swritten' \in [Channels -> Seq(Seq(Units))]
    BY <1>1, <2>2 DEF ServerSends, Shape
  <2> QED
    BY <1>1, <2>2, <2>4, <2>5, <2>6
       DEF Shape, ServerSends, ServerSend, client, Channels, Writes
<1>3. CASE ClientWriting
  <2>1. PICK v \in Writers : WriterStart(v) \/ WriterNext(v)
    BY <1>3 DEF ClientWriting
  <2>2. PICK ch \in Channels, w \in Writes, wr \in Seq(Seq(Units)) :
          ClientSends(v, ch, w, wr)
    BY <2>1, ClientWriteEffect
  <2>3. /\ Fragment(w) \in Pdus /\ AfterFragment(w) \in Writes
        /\ Fragment(w).cmd \in Data
    BY <2>2, FragmentPiece DEF ClientSends
  <2>4. toServer' = toServer \/ toServer' = Append(toServer, Fragment(w))
    BY <1>1, <2>2, <2>3, WriterSendFacts DEF ClientSends, WriterSend, Shape
  <2>5. /\ toServer' \in Seq(Pdus)
        /\ \A i \in DOMAIN toServer' :
             toServer'[i].cmd \notin {"CREATE", "WMQ_QUIT"}
    <3>1. CASE toServer' = toServer
      BY <1>1, <3>1 DEF Shape
    <3>2. CASE toServer' = Append(toServer, Fragment(w))
      <4>1. /\ DOMAIN toServer' = 1..(Len(toServer) + 1)
            /\ \A i \in 1..Len(toServer) : toServer'[i] = toServer[i]
            /\ toServer'[Len(toServer) + 1] = Fragment(w)
            /\ Len(toServer) \in Nat /\ DOMAIN toServer = 1..Len(toServer)
            /\ toServer' \in Seq(Pdus)
        BY <1>1, <2>3, <3>2, AppendFacts DEF Shape
      <4>2. Fragment(w).cmd \notin {"CREATE", "WMQ_QUIT"}
        BY <2>3 DEF Data
      <4>3. ASSUME NEW i \in DOMAIN toServer'
            PROVE  toServer'[i].cmd \notin {"CREATE", "WMQ_QUIT"}
        <5>1. i \in 1..Len(toServer) \/ i = Len(toServer) + 1
          BY <4>1
        <5> QED
          BY <1>1, <4>1, <4>2, <5>1 DEF Shape
      <4> QED
        BY <4>1, <4>3
    <3> QED
      BY <2>4, <3>1, <3>2
  <2>6. writing' \in [Writers -> Writes]
    BY <1>1, <2>2, <2>3 DEF ClientSends, WriterSend, Shape
  <2>7. cwritten' \in [Channels -> Seq(Seq(Units))]
    BY <1>1, <2>2 DEF ClientSends, Shape
  <2> QED
    BY <1>1, <2>2, <2>5, <2>6, <2>7
       DEF Shape, ClientSends, WriterSend, server, Channels, Writes
<1> QED
  BY <1>2, <1>3

LEMMA ShapeReceive ==
    ASSUME DvcInv, ServerReceive
    PROVE  Shape'
<1> DEFINE p == Head(toServer)
<1>1. Shape
  BY DEF DvcInv
<1>2. /\ peer = "up" /\ toServer # <<>>
      /\ UNCHANGED <<dvc_channel_id_seq, sending, swritten, queue, client>>
      /\ toServer' = IF peer' = "up" THEN Tail(toServer) ELSE <<>>
      /\ Ignores(p) \/ TakesAnswer(p) \/ TakesPiece(p)
  BY ServerReceiveEffect
<1> HIDE DEF p
<1>3. /\ toServer' \in Seq(Pdus)
      /\ \A i \in DOMAIN toServer' :
           toServer'[i].cmd \notin {"CREATE", "WMQ_QUIT"}
  <2>1. CASE toServer' = <<>>
    BY <2>1
  <2>2. CASE toServer' = Tail(toServer)
    <3>1. /\ toServer' \in Seq(Pdus)
          /\ DOMAIN toServer' = 1..(Len(toServer) - 1)
          /\ \A i \in 1..(Len(toServer) - 1) : toServer'[i] = toServer[i + 1]
          /\ Len(toServer) \in Nat /\ DOMAIN toServer = 1..Len(toServer)
      BY <1>1, <1>2, <2>2, TailFacts DEF Shape
    <3>2. ASSUME NEW i \in DOMAIN toServer'
          PROVE  toServer'[i].cmd \notin {"CREATE", "WMQ_QUIT"}
      <4>1. i + 1 \in DOMAIN toServer /\ toServer'[i] = toServer[i + 1]
        BY <3>1
      <4> QED
        BY <1>1, <4>1 DEF Shape
    <3> QED
      BY <3>1, <3>2
  <2> QED
    BY <1>2, <2>1, <2>2
<1>4. /\ drdynvc_state' \in {"NONE", "INITIALIZED", "READY"}
      /\ dvc_open_state' \in [Channels -> OpenStates]
      /\ peer' \in {"up", "eof", "dropped"}
      /\ total_length' \in [Channels -> Nat]
      /\ receiveData' \in [Channels -> Seq(Units)]
      /\ inbox' \in [Channels -> Seq(Seq(Units))]
  <2>1. CASE Ignores(p)
    BY <1>1, <2>1 DEF Shape, Ignores
  <2>2. CASE TakesAnswer(p)
    <3>1. \E s \in {"SUCCEEDED", "FAILED", "CLOSED"} : ReadOpenState(p.ch, s)
      BY <2>2 DEF TakesAnswer
    <3> QED
      BY <1>1, <2>2, <3>1 DEF Shape, TakesAnswer, ReadOpenState, OpenStates
  <2>3. CASE TakesPiece(p)
    <3>1. UNCHANGED <<drdynvc_state, dvc_open_state>>
      BY <2>3 DEF TakesPiece
    <3>2. CASE ServerStores(p.ch, p, cwritten[p.ch])
      <4>1. PICK D \in Seq(Units), L \in Nat :
              /\ total_length' = [total_length EXCEPT ![p.ch] = L]
              /\ receiveData' = [receiveData EXCEPT ![p.ch] = D]
              /\ UNCHANGED <<inbox, peer>>
        BY <3>2 DEF ServerStores
      <4>2. total_length' \in [Channels -> Nat]
        BY <1>1, <4>1 DEF Shape
      <4>3. receiveData' \in [Channels -> Seq(Units)]
        BY <1>1, <4>1 DEF Shape
      <4>4. /\ drdynvc_state' \in {"NONE", "INITIALIZED", "READY"}
            /\ dvc_open_state' \in [Channels -> OpenStates]
            /\ peer' \in {"up", "eof", "dropped"}
            /\ inbox' \in [Channels -> Seq(Seq(Units))]
        BY <1>1, <3>1, <4>1 DEF Shape
      <4> QED
        BY <4>2, <4>3, <4>4
    <3>3. CASE ServerDelivers(p.ch, p, cwritten[p.ch])
      <4>1. PICK m \in Seq(Units), D \in Seq(Units) :
              /\ total_length' = [total_length EXCEPT ![p.ch] = 0]
              /\ receiveData' = [receiveData EXCEPT ![p.ch] = D]
              /\ inbox' = [inbox EXCEPT ![p.ch] = Append(@, m)]
              /\ UNCHANGED peer
        BY <3>3 DEF ServerDelivers
      <4>2. \A s \in Seq(Seq(Units)) : Append(s, m) \in Seq(Seq(Units))
        BY AppendProperties
      <4>3. inbox' \in [Channels -> Seq(Seq(Units))]
        BY <1>1, <4>1, <4>2 DEF Shape
      <4> QED
        BY <1>1, <3>1, <4>1, <4>3 DEF Shape
    <3>4. CASE ServerDrops(p.ch)
      BY <1>1, <3>1, <3>4 DEF Shape, ServerDrops
    <3> QED
      BY <2>3, <3>2, <3>3, <3>4 DEF TakesPiece
  <2> QED
    BY <1>2, <2>1, <2>2, <2>3
<1> QED
  BY <1>1, <1>2, <1>3, <1>4 DEF Shape, client, Channels

\* How much of the queue a disconnect leaves.
LEMMA DisconnectFacts ==
    ASSUME Shape, Disconnect
    PROVE  \E n \in 0..Len(queue) :
             /\ queue' = Append(SubSeq(queue, 1, n), Quit)
             /\ thread = "respond" => n >= 1
<1>1. /\ Cardinality(Unanswered) \in Nat
      /\ thread = "respond" => Cardinality(Unanswered) = 1
  <2>1. CASE thread = "respond"
    <3>1. Unanswered = {Head(queue).ch}
      BY <2>1 DEF Unanswered
    <3>2. Cardinality(Unanswered) = 1
      BY <3>1, FS_Singleton
    <3> QED
      BY <3>2
  <2>2. CASE thread # "respond"
    <3>1. Cardinality(Unanswered) = 0
      BY <2>2, FS_EmptySet DEF Unanswered
    <3> QED
      BY <2>2, <3>1
  <2> QED
    BY <2>1, <2>2
<1>2. PICK n \in Cardinality(Unanswered)..Len(queue) :
        queue' = Append(SubSeq(queue, 1, n), Quit)
  BY DEF Disconnect
<1>3. n \in 0..Len(queue) /\ (thread = "respond" => n >= 1)
  BY <1>1, <1>2
<1> QED
  BY <1>2, <1>3

LEMMA ShapeDisconnect ==
    ASSUME DvcInv, Disconnect
    PROVE  Shape'
<1>1. Shape
  BY DEF DvcInv
<1>2. PICK n \in 0..Len(queue) : queue' = Append(SubSeq(queue, 1, n), Quit)
  BY <1>1, DisconnectFacts
<1>3. queue' \in Seq(Pdus)
  <2>1. SubSeq(queue, 1, n) \in Seq(Pdus)
    BY <1>1, PrefixFacts DEF Shape
  <2> QED
    BY <1>2, <2>1, QuitFacts, AppendFacts
<1>4. /\ toServer' \in Seq(Pdus)
      /\ \A i \in DOMAIN toServer' :
           toServer'[i].cmd \notin {"CREATE", "WMQ_QUIT"}
  <2>1. toServer' = <<>>
    BY DEF Disconnect, ConnectionLost
  <2> QED
    BY <2>1
<1>5. peer' \in {"up", "eof", "dropped"} /\ main' \in {"run", "join", "closed"}
  BY <1>1 DEF Disconnect, ConnectionLost, Shape
<1> QED
  BY <1>1, <1>3, <1>4, <1>5 DEF Shape, Disconnect, ConnectionLost, Channels

\* A message that is passed on.
LEMMA DeliverFacts ==
    ASSUME Shape, NEW ch \in Channels, NEW m \in Seq(Units), Deliver(ch, m)
    PROVE  /\ got' \in [Channels -> Seq(Seq(Units))]
           /\ got'[ch] = Append(got[ch], m)
           /\ \A c \in Channels : c # ch => got'[c] = got[c]
           /\ dvc_data' \in [Channels -> [length : Nat, data : Seq(Units)]]
           /\ dvc_data'[ch] = NoData
           /\ \A c \in Channels : c # ch => dvc_data'[c] = dvc_data[c]
           /\ closes' \in [Channels -> Nat]
           /\ \/ UNCHANGED <<toServer, open, closes>>
              \/ Send(<<Pdu("CLOSE", ch)>>) /\ RemoveChannel(ch)
<1>1. got \in [Channels -> Seq(Seq(Units))] /\ closes \in [Channels -> Nat]
  BY DEF Shape
<1>2. got' = [got EXCEPT ![ch] = Append(@, m)]
  BY DEF Deliver
<1>3. Append(got[ch], m) \in Seq(Seq(Units))
  BY <1>1, AppendProperties
<1>4. /\ got' \in [Channels -> Seq(Seq(Units))]
      /\ got'[ch] = Append(got[ch], m)
      /\ \A c \in Channels : c # ch => got'[c] = got[c]
  BY <1>1, <1>2, <1>3
<1>5. NoData \in [length : Nat, data : Seq(Units)]
  BY DEF NoData
<1>6. CASE /\ dvc_data' = [dvc_data EXCEPT ![ch] = NoData]
           /\ UNCHANGED <<toServer, open, closes>>
  BY <1>1, <1>4, <1>5, <1>6 DEF Shape
<1>7. CASE Send(<<Pdu("CLOSE", ch)>>) /\ RemoveChannel(ch)
  BY <1>4, <1>7, RemoveFacts
<1> QED
  BY <1>6, <1>7 DEF Deliver

LEMMA ShapeControl ==
    ASSUME DvcInv, ClientControl
    PROVE  Shape'
<1>1. Shape /\ Ending
  BY DEF DvcInv
<1>2. /\ UNCHANGED <<server, writing, cwritten>>
      /\ AddsAnswers(toServer, toServer', Known)
      /\ \/ queue' = queue
         \/ queue # <<>> /\ queue' = Tail(queue)
         \/ queue' = <<>>
  BY <1>1, ControlFrame
<1>3. queue' \in Seq(Pdus)
  <2>1. queue \in Seq(Pdus) /\ <<>> \in Seq(Pdus)
    BY <1>1 DEF Shape
  <2>2. queue # <<>> => Tail(queue) \in Seq(Pdus)
    BY <2>1, TailFacts
  <2> QED
    BY <1>2, <2>1, <2>2
<1>4. /\ toServer' \in Seq(Pdus)
      /\ \A i \in DOMAIN toServer' :
           toServer'[i].cmd \notin {"CREATE", "WMQ_QUIT"}
  <2>1. /\ toServer \in Seq(Pdus)
        /\ \A i \in DOMAIN toServer :
             toServer[i].cmd \notin {"CREATE", "WMQ_QUIT"}
    BY <1>1 DEF Shape
  <2> QED
    BY <1>2, <2>1, AnswersKeepData, AnswersOnly
<1>5. /\ state' \in {"CAPABILITIES", "READY"}
      /\ thread' \in {"loop", "respond", "closing", "ended"}
      /\ main' \in {"run", "join", "closed"}
  BY <1>1 DEF Shape, ClientControl, ThreadNext, MainJoin, ThreadCapability,
     ThreadAccept, ThreadRespond, ThreadRefuse, ThreadData, ThreadClose,
     ThreadQuit, ThreadCloseRemaining, ThreadEnd, PluginClose
<1> DEFINE G == /\ open' \subseteq Channels /\ closes' \in [Channels -> Nat]
                /\ dvc_data' \in [Channels -> [length : Nat, data : Seq(Units)]]
                /\ got' \in [Channels -> Seq(Seq(Units))]
<1>6. UNCHANGED <<open, closes, dvc_data, got>> => G
  BY <1>1 DEF Shape
<1>7. ASSUME NEW ch \in open, RemoveChannel(ch), UNCHANGED got PROVE G
  <2>1. ch \in Channels
    BY <1>1 DEF Shape
  <2> QED
    BY <1>1, <1>7, <2>1, RemoveFacts DEF Shape
<1>8. G
  <2>1. CASE MainJoin
    <3>1. NoData \in [length : Nat, data : Seq(Units)]
      BY DEF NoData
    <3>2. /\ open' = {} /\ UNCHANGED got
          /\ closes' = [ch \in Channels |->
                         IF ch \in open THEN closes[ch] + 1 ELSE closes[ch]]
          /\ dvc_data' = [ch \in Channels |-> NoData]
      BY <2>1 DEF MainJoin
    <3>3. closes' \in [Channels -> Nat]
      BY <1>1, <3>2 DEF Shape
    <3>4. dvc_data' \in [Channels -> [length : Nat, data : Seq(Units)]]
      BY <3>1, <3>2
    <3> QED
      BY <1>1, <3>2, <3>3, <3>4 DEF Shape
  <2>2. CASE ThreadCapability \/ ThreadRespond \/ ThreadQuit \/ ThreadEnd
    <3>1. UNCHANGED <<open, closes, dvc_data, got>>
      BY <2>2 DEF ThreadCapability, ThreadRespond, ThreadQuit, ThreadEnd
    <3> QED
      BY <1>6, <3>1
  <2>3. CASE ThreadAccept
    <3>1. 1 \in DOMAIN queue /\ queue[1] = Head(queue)
      BY <1>1, <2>3, HeadFacts DEF ThreadAccept
    <3>2. Head(queue).ch \in Channels
      BY <2>3, <3>1 DEF DvcInv, Requests, ThreadAccept
    <3> QED
      BY <1>1, <2>3, <3>2 DEF Shape, ThreadAccept
  <2>4. CASE ThreadRefuse
    <3>1. CASE Head(queue).ch \in open
      BY <1>7, <2>4, <3>1 DEF ThreadRefuse
    <3>2. CASE Head(queue).ch \notin open
      BY <1>6, <2>4, <3>2 DEF ThreadRefuse
    <3> QED
      BY <3>1, <3>2
  <2>5. CASE ThreadData
    <3> DEFINE p  == Head(queue)
               ch == Head(queue).ch
               wr == swritten[ch]
    <3>1. CASE /\ ch \notin open
               /\ UNCHANGED <<toServer, open, closes, dvc_data, got>>
      BY <1>6, <3>1
    <3>2. CASE ch \in open /\ Stores(ch, p, wr)
      <4>1. PICK D \in Seq(Units), L \in Nat :
              /\ dvc_data' = [dvc_data EXCEPT ![ch] = [length |-> L, data |-> D]]
              /\ UNCHANGED <<toServer, open, closes, got>>
        BY <3>2 DEF Stores
      <4>2. [length |-> L, data |-> D] \in [length : Nat, data : Seq(Units)]
        OBVIOUS
      <4> HIDE DEF ch
      <4>3. dvc_data' \in [Channels -> [length : Nat, data : Seq(Units)]]
        BY <1>1, <4>1, <4>2 DEF Shape
      <4> QED
        BY <1>1, <4>1, <4>3 DEF Shape
    <3>3. CASE ch \in open /\ Delivers(ch, p, wr)
      <4>1. PICK m \in Seq(Units) : Deliver(ch, m)
        BY <3>3 DEF Delivers
      <4>2. ch \in Channels
        BY <1>1, <3>3 DEF Shape
      <4> HIDE DEF ch
      <4>3. /\ got' \in [Channels -> Seq(Seq(Units))]
            /\ dvc_data' \in [Channels -> [length : Nat, data : Seq(Units)]]
            /\ closes' \in [Channels -> Nat]
            /\ \/ UNCHANGED <<toServer, open, closes>>
               \/ Send(<<Pdu("CLOSE", ch)>>) /\ RemoveChannel(ch)
        BY <1>1, <4>1, <4>2, DeliverFacts
      <4>4. open' \subseteq Channels
        BY <1>1, <4>3 DEF Shape, RemoveChannel
      <4> QED
        BY <4>3, <4>4
    <3> QED
      BY <2>5, <3>1, <3>2, <3>3, ThreadDataEffect
  <2>6. CASE ThreadClose
    <3>1. CASE Head(queue).ch \in open
      BY <1>7, <2>6, <3>1 DEF ThreadClose
    <3>2. CASE Head(queue).ch \notin open
      BY <1>6, <2>6, <3>2 DEF ThreadClose
    <3> QED
      BY <3>1, <3>2
  <2>7. CASE ThreadCloseRemaining
    BY <1>7, <2>7 DEF ThreadCloseRemaining
  <2>8. CASE PluginClose
    BY <1>7, <2>8 DEF PluginClose
  <2> HIDE DEF G
  <2> QED
    BY <2>1, <2>2, <2>3, <2>4, <2>5, <2>6, <2>7, <2>8
       DEF ClientControl, ThreadNext
<1> QED
  BY <1>1, <1>2, <1>3, <1>4, <1>5, <1>8 DEF Shape, server, Channels

\* Every step keeps the types.
LEMMA ShapeStep ==
    ASSUME DvcInv, Next
    PROVE  Shape'
BY NextSplit, ShapeServer, ShapeWriting, ShapeReceive, ShapeDisconnect,
   ShapeControl

-----------------------------------------------------------------------------
(***************************************************************************)
(* What is written and what is received.                                   *)
(***************************************************************************)

LEMMA PiecesTail ==
    ASSUME NEW q \in Seq(Pdus), q # <<>>, NEW ch, NEW wr, Pieces(q, ch, wr)
    PROVE  Pieces(Tail(q), ch, wr)
<1>1. \A i \in DataOf(Tail(q), ch) :
        i + 1 \in DataOf(q, ch) /\ Tail(q)[i] = q[i + 1]
  BY DataOfTail
<1> QED
  BY <1>1 DEF Pieces

LEMMA PiecesDisconnect ==
    ASSUME NEW q \in Seq(Pdus), NEW n \in 0..Len(q), NEW ch, NEW wr
    PROVE  LET t == Append(SubSeq(q, 1, n), Quit)
           IN  /\ Pieces(q, ch, wr) => Pieces(t, ch, wr)
               /\ \A r : Chain(q, ch, wr, r) => Chain(t, ch, wr, r)
<1> DEFINE u == SubSeq(q, 1, n)
<1>1. u \in Seq(Pdus)
  BY PrefixFacts
<1>2. /\ Pieces(q, ch, wr) => Pieces(u, ch, wr)
      /\ \A r : Chain(q, ch, wr, r) => Chain(u, ch, wr, r)
  BY StreamPrefix
<1> HIDE DEF u
<1>3. Quit \in Pdus /\ ~(Quit.ch = ch /\ Quit.cmd \in Data)
  BY QuitFacts DEF Data
<1>4. /\ Pieces(u, ch, wr) => Pieces(Append(u, Quit), ch, wr)
      /\ \A r : Chain(u, ch, wr, r) => Chain(Append(u, Quit), ch, wr, r)
  BY <1>1, <1>3, StreamAppendOther
<1> QED
  BY <1>2, <1>4 DEF u

\* Pieces stay pieces when more is written.
LEMMA ExtendsStream ==
    ASSUME NEW q \in Seq(Pdus), NEW ch, NEW wr \in Seq(Seq(Units)),
           NEW wr2, Extends(wr, wr2), Pieces(q, ch, wr)
    PROVE  /\ Pieces(q, ch, wr2)
           /\ \A r : Chain(q, ch, wr, r) => Chain(q, ch, wr2, r)
           /\ \A r, s : EndsAt(q, ch, wr, r, s) => EndsAt(q, ch, wr2, r, s)
<1>1. CASE wr2 = wr
  BY <1>1
<1>2. ASSUME NEW m \in Seq(Units), wr2 = Append(wr, m)
      PROVE  /\ Pieces(q, ch, wr2)
             /\ \A r : Chain(q, ch, wr, r) => Chain(q, ch, wr2, r)
             /\ \A r, s : EndsAt(q, ch, wr, r, s) => EndsAt(q, ch, wr2, r, s)
  BY <1>2, StreamMoreWritten
<1> QED
  BY <1>1, <1>2 DEF Extends

LEMMA ExtendsReceived ==
    ASSUME NEW wr \in Seq(Seq(Units)), NEW msgs \in Seq(Seq(Units)),
           NEW data, NEW len, NEW wr2, Extends(wr, wr2),
           Received(msgs, wr, data, len)
    PROVE  Received(msgs, wr2, data, len)
BY ReceivedMoreWritten DEF Extends

LEMMA ServerSideStep ==
    ASSUME DvcInv, Next
    PROVE  ServerSide'
<1>1. Shape /\ Ending /\ ServerSide
  BY DEF DvcInv
<1>2. queue \in Seq(Pdus)
  BY <1>1 DEF Shape
<1>3. CASE ServerWriting
  <2>1. PICK ch \in Channels : ServerWrite(ch) \/ ServerWriteNext(ch)
    BY <1>3 DEF ServerWriting
  <2>2. PICK w \in Writes, wr \in Seq(Seq(Units)) : ServerSends(ch, w, wr)
    BY <2>1, ServerWriteEffect
  <2> DEFINE x == Fragment(w)
             v == AfterFragment(w)
  <2>3. /\ x \in Pdus /\ x.ch = ch /\ IsPiece(x, wr)
        /\ v = Idle \/ Midway(v, ch, wr)
    BY <2>2, FragmentPiece DEF ServerSends
  <2>4. /\ swritten' = [swritten EXCEPT ![ch] = wr]
        /\ sending' = [sending EXCEPT ![ch] = v]
        /\ queue' = Append(queue, x)
        /\ Extends(swritten[ch], wr) /\ Numbered(wr)
    BY <2>2 DEF ServerSends, ServerSend
  <2> HIDE DEF x, v
  <2>5. /\ swritten \in [Channels -> Seq(Seq(Units))]
        /\ sending \in [Channels -> Writes]
    BY <1>1 DEF Shape
  <2>6. /\ Numbered(swritten'[ch])
        /\ sending'[ch] = Idle \/ Midway(sending'[ch], ch, swritten'[ch])
        /\ Pieces(queue', ch, swritten'[ch])
    <3>1. Pieces(queue, ch, swritten[ch])
      BY <1>1 DEF ServerSide
    <3>2. Pieces(queue, ch, wr)
      BY <1>2, <2>4, <2>5, <3>1, ExtendsStream
    <3>3. Pieces(queue', ch, wr)
      BY <1>2, <2>3, <2>4, <3>2, PiecesAdd
    <3> QED
      BY <2>3, <2>4, <2>5, <3>3
  <2>7. ASSUME NEW c \in Channels, c # ch
        PROVE  /\ Numbered(swritten'[c])
               /\ sending'[c] = Idle \/ Midway(sending'[c], c, swritten'[c])
               /\ Pieces(queue', c, swritten'[c])
    <3>1. swritten'[c] = swritten[c] /\ sending'[c] = sending[c]
      BY <2>4, <2>5, <2>7
    <3>2. Pieces(queue', c, swritten[c])
      <4>1. ~(x.ch = c /\ x.cmd \in Data) /\ Pieces(queue, c, swritten[c])
        BY <1>1, <2>3, <2>7 DEF ServerSide
      <4> QED
        BY <1>2, <2>3, <2>4, <4>1, StreamAppendOther
    <3> QED
      BY <1>1, <3>1, <3>2 DEF ServerSide
  <2> QED
    BY <2>6, <2>7 DEF ServerSide, Channels
<1>4. CASE ~ServerWriting
  <2>1. UNCHANGED <<swritten, sending>>
    <3>1. CASE ManagerOpen \/ ServerOpen \/ \E ch \in Channels : ServerClose(ch)
      BY <3>1 DEF ManagerOpen, ServerOpen, ServerClose
    <3>2. CASE ServerReceive \/ Disconnect \/ ClientWriting
      BY <3>2 DEF ServerReceive, Disconnect, ConnectionLost, ClientWriting,
         WriterStart, WriterNext, WriterSend, server
    <3>3. CASE ClientControl
      BY <1>1, <3>3, ControlFrame DEF server
    <3> QED
      BY <1>4, <3>1, <3>2, <3>3, NextSplit
  <2>2. ASSUME NEW ch \in Channels PROVE Pieces(queue', ch, swritten[ch])
    <3>1. Pieces(queue, ch, swritten[ch])
      BY <1>1 DEF ServerSide
    <3>2. CASE queue' = queue
      BY <3>1, <3>2
    <3>3. CASE queue # <<>> /\ queue' = Tail(queue)
      BY <1>2, <3>1, <3>3, PiecesTail
    <3>4. CASE queue' = <<>>
      BY <3>4, StreamEmpty
    <3>5. CASE \E x \in Pdus : x.cmd \notin Data /\ queue' = Append(queue, x)
      BY <1>2, <3>1, <3>5, StreamAppendOther
    <3>6. CASE \E n \in 0..Len(queue) :
                 queue' = Append(SubSeq(queue, 1, n), Quit)
      BY <1>2, <3>1, <3>6, PiecesDisconnect
    <3> QED
      BY <1>1, <1>4, <3>2, <3>3, <3>4, <3>5, <3>6, QueueStep
  <2> QED
    BY <1>1, <2>1, <2>2 DEF ServerSide, Channels
<1> QED
  BY <1>3, <1>4

\* What becomes of the FIFO to the server and of the client's writes.
LEMMA ToServerStep ==
    ASSUME DvcInv, Next, ~ClientWriting
    PROVE  /\ UNCHANGED <<cwritten, writing>>
           /\ \/ AddsAnswers(toServer, toServer', Known)
              \/ toServer # <<>> /\ toServer' = Tail(toServer)
              \/ toServer' = <<>>
<1>1. Shape /\ Ending
  BY DEF DvcInv
<1>2. CASE \/ ManagerOpen \/ ServerOpen \/ ServerWriting
           \/ \E ch \in Channels : ServerClose(ch)
  <2>1. UNCHANGED <<cwritten, writing, toServer>>
    BY <1>2 DEF ManagerOpen, ServerOpen, ServerWriting, ServerWrite,
       ServerWriteNext, ServerSend, ServerClose, client
  <2> QED
    BY <2>1 DEF AddsAnswers
<1>3. CASE ServerReceive
  BY <1>3 DEF ServerReceive, client
<1>4. CASE Disconnect
  BY <1>4 DEF Disconnect, ConnectionLost
<1>5. CASE ClientControl
  BY <1>1, <1>5, ControlFrame
<1> QED
  BY <1>2, <1>3, <1>4, <1>5, NextSplit

LEMMA ClientSideStep ==
    ASSUME DvcInv, Next
    PROVE  ClientSide'
<1>1. Shape /\ Ending /\ ClientSide
  BY DEF DvcInv
<1>2. toServer \in Seq(Pdus)
  BY <1>1 DEF Shape
<1>3. CASE ClientWriting
  <2>1. PICK v \in Writers : WriterStart(v) \/ WriterNext(v)
    BY <1>3 DEF ClientWriting
  <2>2. PICK ch \in Channels, w \in Writes, wr \in Seq(Seq(Units)) :
          ClientSends(v, ch, w, wr)
    BY <2>1, ClientWriteEffect
  <2> DEFINE x == Fragment(w)
             u == AfterFragment(w)
  <2>3. /\ x \in Pdus /\ x.ch = ch /\ IsPiece(x, wr)
        /\ u = Idle \/ Midway(u, ch, wr)
    BY <2>2, FragmentPiece DEF ClientSends
  <2>4. /\ cwritten' = [cwritten EXCEPT ![ch] = wr]
        /\ writing' = [writing EXCEPT ![v] = u]
        /\ Extends(cwritten[ch], wr) /\ Numbered(wr)
        /\ (writing[v] = Idle /\ LockFree(ch)) \/ w = writing[v]
    BY <2>2 DEF ClientSends, WriterSend
  <2>5. toServer' = toServer \/ toServer' = Append(toServer, x)
    BY <1>2, <2>2, <2>3, WriterSendFacts DEF ClientSends, WriterSend
  <2>6. w.ch = ch
    BY <2>2 DEF ClientSends, InLast
  <2> HIDE DEF x, u
  <2>7. /\ cwritten \in [Channels -> Seq(Seq(Units))]
        /\ writing \in [Writers -> Writes]
    BY <1>1 DEF Shape
  <2>8. u.ch = ch \/ u = Idle
    BY <2>3 DEF Midway, InLast
  <2>9. \A c \in Writers : c # v /\ writing[c].ch = ch => FALSE
    <3>1. ch # 0
      BY DEF Channels
    <3> QED
      BY <1>1, <2>4, <2>6, <3>1 DEF ClientSide, LockFree
  <2>10. ASSUME NEW c \in Channels
         PROVE  /\ Numbered(cwritten'[c])
                /\ Pieces(toServer', c, cwritten'[c])
    <3>1. Pieces(toServer, c, cwritten[c]) /\ Numbered(cwritten[c])
      BY <1>1 DEF ClientSide
    <3>2. CASE c = ch
      <4>1. cwritten'[c] = wr
        BY <2>4, <2>7, <3>2
      <4>2. Pieces(toServer, ch, wr)
        BY <1>2, <2>4, <2>7, <3>1, <3>2, ExtendsStream
      <4>3. Pieces(toServer', ch, wr)
        BY <1>2, <2>3, <2>5, <4>2, PiecesAdd
      <4> QED
        BY <2>4, <3>2, <4>1, <4>3
    <3>3. CASE c # ch
      <4>1. cwritten'[c] = cwritten[c]
        BY <2>4, <2>7, <3>3
      <4>2. ~(x.ch = c /\ x.cmd \in Data)
        BY <2>3, <3>3
      <4>3. Pieces(toServer', c, cwritten[c])
        BY <1>2, <2>3, <2>5, <3>1, <4>2, StreamAppendOther
      <4> QED
        BY <3>1, <4>1, <4>3
    <3> QED
      BY <3>2, <3>3
  <2>11. ASSUME NEW c \in Writers, writing'[c] # Idle
         PROVE  /\ writing'[c].ch \in Channels
                /\ Midway(writing'[c], writing'[c].ch,
                          cwritten'[writing'[c].ch])
    <3>1. CASE c = v
      <4>1. writing'[c] = u /\ cwritten'[ch] = wr /\ u # Idle
        BY <2>4, <2>7, <2>11, <3>1
      <4>2. u.ch = ch /\ Midway(u, ch, wr)
        BY <2>3, <2>8, <4>1
      <4> QED
        BY <4>1, <4>2
    <3>2. CASE c # v
      <4>1. writing'[c] = writing[c]
        BY <2>4, <2>7, <3>2
      <4>2. /\ writing[c].ch \in Channels
            /\ Midway(writing[c], writing[c].ch, cwritten[writing[c].ch])
        BY <1>1, <2>11, <4>1 DEF ClientSide
      <4>3. writing[c].ch # ch
        BY <2>9, <3>2
      <4>4. cwritten'[writing[c].ch] = cwritten[writing[c].ch]
        BY <2>4, <2>7, <4>2, <4>3
      <4> QED
        BY <4>1, <4>2, <4>4
    <3> QED
      BY <3>1, <3>2
  <2>12. ASSUME NEW c \in Writers, NEW d \in Writers,
                writing'[c].ch = writing'[d].ch, writing'[c].ch # 0
         PROVE  c = d
    <3>1. Idle.ch = 0
      BY DEF Idle
    <3>2. /\ \A b \in Writers : b # v => writing'[b] = writing[b]
          /\ writing'[v] = u
      BY <2>4, <2>7
    <3>3. CASE c # v /\ d # v
      BY <1>1, <2>12, <3>2, <3>3 DEF ClientSide
    <3>4. CASE c = v /\ d # v
      BY <2>8, <2>9, <2>12, <3>1, <3>2, <3>4
    <3>5. CASE c # v /\ d = v
      BY <2>8, <2>9, <2>12, <3>1, <3>2, <3>5
    <3> QED
      BY <3>3, <3>4, <3>5
  <2> QED
    BY <2>10, <2>11, <2>12 DEF ClientSide, Channels, Idle
<1>4. CASE ~ClientWriting
  <2>1. UNCHANGED <<cwritten, writing>>
    BY <1>4, ToServerStep
  <2>2. ASSUME NEW ch \in Channels PROVE Pieces(toServer', ch, cwritten[ch])
    <3>1. Pieces(toServer, ch, cwritten[ch])
      BY <1>1 DEF ClientSide
    <3>2. CASE AddsAnswers(toServer, toServer', Known)
      BY <1>2, <3>1, <3>2, AnswersKeepData
    <3>3. CASE toServer # <<>> /\ toServer' = Tail(toServer)
      BY <1>2, <3>1, <3>3, PiecesTail
    <3>4. CASE toServer' = <<>>
      BY <3>4, StreamEmpty
    <3> QED
      BY <1>4, <3>2, <3>3, <3>4, ToServerStep
  <2> QED
    BY <1>1, <2>1, <2>2 DEF ClientSide, Channels, Idle
<1> QED
  BY <1>3, <1>4

\* A step that removes channels or leaves them alone: what they have of a
\* message is released.
LEMMA ReleaseKeeps ==
    ASSUME ClientHas, UNCHANGED <<got, swritten>>,
           \A ch \in Channels :
              dvc_data'[ch] = dvc_data[ch] \/ dvc_data'[ch] = NoData
    PROVE  ClientHas'
<1> SUFFICES ASSUME NEW ch \in Channels
             PROVE  /\ Received(got'[ch], swritten'[ch], dvc_data'[ch].data,
                                dvc_data'[ch].length)
                    /\ dvc_data'[ch].data = <<>> => dvc_data'[ch].length = 0
  BY DEF ClientHas, Channels
<1>1. /\ Received(got[ch], swritten[ch], dvc_data[ch].data,
                  dvc_data[ch].length)
      /\ dvc_data[ch].data = <<>> => dvc_data[ch].length = 0
  BY DEF ClientHas
<1>2. CASE dvc_data'[ch] = dvc_data[ch]
  BY <1>1, <1>2
<1>3. CASE dvc_data'[ch] = NoData
  <2>1. dvc_data'[ch].data = <<>> /\ dvc_data'[ch].length = 0
    BY <1>3 DEF NoData
  <2>2. Received(got[ch], swritten[ch], <<>>, 0)
    BY <1>1, ReceivedLess
  <2> QED
    BY <2>1, <2>2
<1> QED
  BY <1>2, <1>3

LEMMA ClientHasControl ==
    ASSUME DvcInv, ClientControl
    PROVE  ClientHas'
<1>1. Shape /\ Ending /\ ClientHas /\ swritten' = swritten
  BY ControlFrame DEF DvcInv, server
<1>2. ASSUME NEW ch \in open, RemoveChannel(ch), UNCHANGED got PROVE ClientHas'
  <2>1. ch \in Channels
    BY <1>1 DEF Shape
  <2>2. /\ dvc_data'[ch] = NoData
        /\ \A c \in Channels : c # ch => dvc_data'[c] = dvc_data[c]
    BY <1>1, <1>2, <2>1, RemoveFacts
  <2> QED
    BY <1>1, <1>2, <2>2, ReleaseKeeps
<1>3. CASE UNCHANGED <<got, dvc_data>>
  BY <1>1, <1>3, ReleaseKeeps
<1>4. CASE MainJoin
  <2>1. \A ch \in Channels : dvc_data'[ch] = NoData
    BY <1>4 DEF MainJoin
  <2>2. UNCHANGED <<got, swritten>>
    BY <1>1, <1>4 DEF MainJoin
  <2> QED
    BY <1>1, <2>1, <2>2, ReleaseKeeps
<1>5. CASE \/ ThreadCapability \/ ThreadAccept \/ ThreadRespond \/ ThreadQuit
           \/ ThreadEnd
  BY <1>3, <1>5 DEF ThreadCapability, ThreadAccept, ThreadRespond, ThreadQuit,
     ThreadEnd
<1>6. CASE ThreadRefuse
  BY <1>2, <1>3, <1>6 DEF ThreadRefuse
<1>7. CASE ThreadClose
  BY <1>2, <1>3, <1>7 DEF ThreadClose
<1>8. CASE ThreadCloseRemaining \/ PluginClose
  BY <1>2, <1>8 DEF ThreadCloseRemaining, PluginClose
<1>9. CASE ThreadData
  <2> DEFINE p  == Head(queue)
             ch == Head(queue).ch
             wr == swritten[ch]
  <2>1. CASE /\ ch \notin open
             /\ UNCHANGED <<toServer, open, closes, dvc_data, got>>
    BY <1>3, <2>1
  <2>2. CASE ch \in open /\ Stores(ch, p, wr)
    <3>1. PICK D \in Seq(Units), L \in Nat :
            /\ D # <<>> /\ Received(got[ch], wr, D, L)
            /\ dvc_data' = [dvc_data EXCEPT ![ch] = [length |-> L, data |-> D]]
            /\ UNCHANGED got
      BY <2>2 DEF Stores
    <3>2. ch \in Channels /\ dvc_data \in [Channels -> [length : Nat, data : Seq(Units)]]
      BY <1>1, <2>2 DEF Shape
    <3> HIDE DEF ch
    <3>3. /\ dvc_data'[ch].data = D /\ dvc_data'[ch].length = L
          /\ \A c \in Channels : c # ch => dvc_data'[c] = dvc_data[c]
      BY <3>1, <3>2
    <3>4. ASSUME NEW c \in Channels
          PROVE  /\ Received(got'[c], swritten'[c], dvc_data'[c].data,
                             dvc_data'[c].length)
                 /\ dvc_data'[c].data = <<>> => dvc_data'[c].length = 0
      <4>1. CASE c = ch
        BY <1>1, <3>1, <3>3, <4>1
      <4>2. CASE c # ch
        BY <1>1, <3>1, <3>3, <4>2 DEF ClientHas
      <4> QED
        BY <4>1, <4>2
    <3> QED
      BY <3>4 DEF ClientHas, Channels
  <2>3. CASE ch \in open /\ Delivers(ch, p, wr)
    <3>1. PICK m \in Seq(Units) :
            /\ Received(Append(got[ch], m), wr, <<>>, 0)
            /\ Deliver(ch, m)
      BY <2>3 DEF Delivers
    <3>2. ch \in Channels
      BY <1>1, <2>3 DEF Shape
    <3> HIDE DEF ch
    <3>3. /\ got'[ch] = Append(got[ch], m)
          /\ \A c \in Channels : c # ch => got'[c] = got[c]
          /\ dvc_data'[ch] = NoData
          /\ \A c \in Channels : c # ch => dvc_data'[c] = dvc_data[c]
      BY <1>1, <3>1, <3>2, DeliverFacts
    <3>4. ASSUME NEW c \in Channels
          PROVE  /\ Received(got'[c], swritten'[c], dvc_data'[c].data,
                             dvc_data'[c].length)
                 /\ dvc_data'[c].data = <<>> => dvc_data'[c].length = 0
      <4>1. CASE c = ch
        <5>1. dvc_data'[c].data = <<>> /\ dvc_data'[c].length = 0
          BY <3>3, <4>1 DEF NoData
        <5>2. got'[c] = Append(got[ch], m) /\ swritten'[c] = wr
          BY <1>1, <3>3, <4>1
        <5> QED
          BY <3>1, <5>1, <5>2
      <4>2. CASE c # ch
        BY <1>1, <3>3, <4>2 DEF ClientHas
      <4> QED
        BY <4>1, <4>2
    <3> QED
      BY <3>4 DEF ClientHas, Channels
  <2> QED
    BY <1>9, <2>1, <2>2, <2>3, ThreadDataEffect
<1> QED
  BY <1>4, <1>5, <1>6, <1>7, <1>8, <1>9 DEF ClientControl, ThreadNext

LEMMA ClientHasStep ==
    ASSUME DvcInv, Next
    PROVE  ClientHas'
<1>1. Shape /\ ClientHas
  BY DEF DvcInv
<1>2. CASE ServerWriting
  <2>1. PICK ch \in Channels : ServerWrite(ch) \/ ServerWriteNext(ch)
    BY <1>2 DEF ServerWriting
  <2>2. PICK w \in Writes, wr \in Seq(Seq(Units)) : ServerSends(ch, w, wr)
    BY <2>1, ServerWriteEffect
  <2>3. /\ swritten' = [swritten EXCEPT ![ch] = wr] /\ Extends(swritten[ch], wr)
        /\ UNCHANGED <<got, dvc_data>>
    BY <2>2 DEF ServerSends, ServerSend, client
  <2>4. /\ swritten \in [Channels -> Seq(Seq(Units))]
        /\ got \in [Channels -> Seq(Seq(Units))]
    BY <1>1 DEF Shape
  <2>5. ASSUME NEW c \in Channels
        PROVE  Received(got[c], swritten'[c], dvc_data[c].data,
                        dvc_data[c].length)
    <3>1. Received(got[c], swritten[c], dvc_data[c].data, dvc_data[c].length)
      BY <1>1 DEF ClientHas
    <3>2. swritten'[c] = IF c = ch THEN wr ELSE swritten[c]
      BY <2>3, <2>4
    <3>3. Extends(swritten[c], swritten'[c])
      BY <2>3, <3>2 DEF Extends
    <3>4. swritten[c] \in Seq(Seq(Units)) /\ got[c] \in Seq(Seq(Units))
      BY <2>4
    <3> QED
      BY <3>1, <3>3, <3>4, ExtendsReceived
  <2> QED
    BY <1>1, <2>3, <2>5 DEF ClientHas, Channels
<1>3. CASE \/ ManagerOpen \/ ServerOpen \/ ServerReceive \/ Disconnect
           \/ ClientWriting \/ \E ch \in Channels : ServerClose(ch)
  <2>1. UNCHANGED <<swritten, got, dvc_data>>
    BY <1>3 DEF ManagerOpen, ServerOpen, ServerReceive, Disconnect,
       ConnectionLost, ServerClose, ClientWriting, WriterStart, WriterNext,
       WriterSend, client, server
  <2> QED
    BY <1>1, <2>1 DEF ClientHas, Channels
<1>4. CASE ClientControl
  BY <1>4, ClientHasControl
<1> QED
  BY <1>2, <1>3, <1>4, NextSplit

\* One message of a channel ch changes on the server.
LEMMA ServerHasChange ==
    ASSUME DvcInv, NEW ch \in Channels, UNCHANGED cwritten,
           \A c \in Channels : c # ch =>
              /\ inbox'[c] = inbox[c] /\ total_length'[c] = total_length[c]
              /\ receiveData'[c] = receiveData[c],
           NEW data, Partial(ch)' = data,
           Received(inbox'[ch], cwritten[ch], data, total_length'[ch]),
           total_length'[ch] # 0 => receiveData'[ch] # <<>>
    PROVE  ServerHas'
<1> SUFFICES ASSUME NEW c \in Channels
             PROVE  /\ Received(inbox'[c], cwritten'[c], Partial(c)',
                                total_length'[c])
                    /\ total_length'[c] # 0 => receiveData'[c] # <<>>
  BY DEF ServerHas, Channels
<1>1. CASE c = ch
  BY <1>1
<1>2. CASE c # ch
  <2>1. Partial(c)' = Partial(c)
    BY <1>2 DEF Partial
  <2> QED
    BY <1>2, <2>1 DEF DvcInv, ServerHas
<1> QED
  BY <1>1, <1>2

LEMMA ServerHasStep ==
    ASSUME DvcInv, Next
    PROVE  ServerHas'
<1>1. Shape /\ Ending /\ ServerHas
  BY DEF DvcInv
<1>2. /\ cwritten \in [Channels -> Seq(Seq(Units))]
      /\ inbox \in [Channels -> Seq(Seq(Units))]
      /\ total_length \in [Channels -> Nat]
      /\ receiveData \in [Channels -> Seq(Units)]
  BY <1>1 DEF Shape
<1>3. CASE UNCHANGED <<inbox, cwritten, total_length, receiveData>>
  BY <1>1, <1>3 DEF ServerHas, Partial, Channels
<1>4. CASE \/ ManagerOpen \/ ServerOpen \/ ServerWriting \/ Disconnect
           \/ \E ch \in Channels : ServerClose(ch)
  BY <1>3, <1>4 DEF ManagerOpen, ServerOpen, ServerWriting, ServerWrite,
     ServerWriteNext, ServerSend, ServerClose, Disconnect, ConnectionLost, client
<1>5. CASE ClientControl
  BY <1>1, <1>3, <1>5, ControlFrame DEF server
<1>6. CASE ClientWriting
  <2>1. PICK v \in Writers : WriterStart(v) \/ WriterNext(v)
    BY <1>6 DEF ClientWriting
  <2>2. PICK ch \in Channels, w \in Writes, wr \in Seq(Seq(Units)) :
          ClientSends(v, ch, w, wr)
    BY <2>1, ClientWriteEffect
  <2>3. /\ cwritten' = [cwritten EXCEPT ![ch] = wr] /\ Extends(cwritten[ch], wr)
        /\ UNCHANGED <<inbox, total_length, receiveData>>
    BY <2>2 DEF ClientSends, WriterSend, server
  <2>4. ASSUME NEW c \in Channels
        PROVE  Received(inbox[c], cwritten'[c], Partial(c), total_length[c])
    <3>1. Received(inbox[c], cwritten[c], Partial(c), total_length[c])
      BY <1>1 DEF ServerHas
    <3>2. cwritten'[c] = IF c = ch THEN wr ELSE cwritten[c]
      BY <1>2, <2>3
    <3>3. Extends(cwritten[c], cwritten'[c])
      BY <2>3, <3>2 DEF Extends
    <3>4. cwritten[c] \in Seq(Seq(Units)) /\ inbox[c] \in Seq(Seq(Units))
      BY <1>2
    <3> QED
      BY <3>1, <3>3, <3>4, ExtendsReceived
  <2>5. \A c \in Channels : Partial(c)' = Partial(c)
    BY <2>3 DEF Partial
  <2> QED
    BY <1>1, <2>3, <2>4, <2>5 DEF ServerHas, Channels
<1>7. CASE ServerReceive
  <2> DEFINE p  == Head(toServer)
  <2>1. UNCHANGED cwritten /\ (Ignores(p) \/ TakesAnswer(p) \/ TakesPiece(p))
    BY <1>7, ServerReceiveEffect DEF client
  <2>2. CASE Ignores(p) \/ TakesAnswer(p)
    BY <1>3, <2>1, <2>2 DEF Ignores, TakesAnswer, ReadOpenState
  <2>3. CASE TakesPiece(p)
    <3>1. PICK ch \in Channels :
            \/ ServerStores(ch, p, cwritten[ch])
            \/ ServerDelivers(ch, p, cwritten[ch])
            \/ ServerDrops(ch)
      BY <2>3 DEF TakesPiece, Listed
    <3> DEFINE wr == cwritten[ch]
    <3>2. Received(inbox[ch], wr, Partial(ch), total_length[ch])
      BY <1>1, <3>1 DEF ServerHas
    <3> HIDE DEF p
    <3>3. CASE ServerStores(ch, p, wr)
      <4>1. PICK D \in Seq(Units), L \in Nat :
              /\ D # <<>> /\ L # 0 /\ Received(inbox[ch], wr, D, L)
              /\ total_length' = [total_length EXCEPT ![ch] = L]
              /\ receiveData' = [receiveData EXCEPT ![ch] = D]
              /\ UNCHANGED inbox
        BY <3>3 DEF ServerStores
      <4>2. /\ total_length'[ch] = L /\ receiveData'[ch] = D
            /\ \A c \in Channels : c # ch =>
                 /\ inbox'[c] = inbox[c] /\ total_length'[c] = total_length[c]
                 /\ receiveData'[c] = receiveData[c]
        BY <1>2, <3>1, <4>1
      <4>3. Partial(ch)' = D
        BY <4>1, <4>2 DEF Partial
      <4> QED
        BY <2>1, <3>1, <4>1, <4>2, <4>3, ServerHasChange
    <3>4. CASE ServerDelivers(ch, p, wr)
      <4>1. PICK m \in Seq(Units), D \in Seq(Units) :
              /\ Received(Append(inbox[ch], m), wr, <<>>, 0)
              /\ total_length' = [total_length EXCEPT ![ch] = 0]
              /\ receiveData' = [receiveData EXCEPT ![ch] = D]
              /\ inbox' = [inbox EXCEPT ![ch] = Append(@, m)]
        BY <3>4 DEF ServerDelivers
      <4>2. /\ total_length'[ch] = 0 /\ inbox'[ch] = Append(inbox[ch], m)
            /\ \A c \in Channels : c # ch =>
                 /\ inbox'[c] = inbox[c] /\ total_length'[c] = total_length[c]
                 /\ receiveData'[c] = receiveData[c]
        BY <1>2, <3>1, <4>1
      <4>3. Partial(ch)' = <<>>
        BY <4>2 DEF Partial
      <4> QED
        BY <2>1, <3>1, <4>1, <4>2, <4>3, ServerHasChange
    <3>5. CASE ServerDrops(ch)
      <4>1. PICK D \in Seq(Units) :
              /\ total_length' = [total_length EXCEPT ![ch] = 0]
              /\ receiveData' = [receiveData EXCEPT ![ch] = D]
              /\ UNCHANGED inbox
        BY <3>5 DEF ServerDrops
      <4>2. /\ total_length'[ch] = 0 /\ inbox'[ch] = inbox[ch]
            /\ \A c \in Channels : c # ch =>
                 /\ inbox'[c] = inbox[c] /\ total_length'[c] = total_length[c]
                 /\ receiveData'[c] = receiveData[c]
        BY <1>2, <3>1, <4>1
      <4>3. Partial(ch)' = <<>>
        BY <4>2 DEF Partial
      <4>4. Received(inbox[ch], wr, <<>>, 0)
        BY <3>2, ReceivedLess
      <4> QED
        BY <2>1, <3>1, <4>1, <4>2, <4>3, <4>4, ServerHasChange
    <3> QED
      BY <3>1, <3>3, <3>4, <3>5
  <2> QED
    BY <2>1, <2>2, <2>3
<1> QED
  BY <1>4, <1>5, <1>6, <1>7, NextSplit

-----------------------------------------------------------------------------
(***************************************************************************)
(* From the server to the client.                                          *)
(***************************************************************************)

\* A step that does nothing to the data of ch keeps its flow.
LEMMA FlowsKept ==
    ASSUME NEW ch, Flows(ch), Live(ch)' => Live(ch), peer' = "up" => peer = "up",
           swritten'[ch] = swritten[ch], sending'[ch] = sending[ch],
           got'[ch] = got[ch], dvc_data'[ch] = dvc_data[ch],
           \A r : Chain(queue, ch, swritten[ch], r) =>
                    Chain(queue', ch, swritten[ch], r),
           peer' = "up" =>
             \A r, s : EndsAt(queue, ch, swritten[ch], r, s) =>
                         EndsAt(queue', ch, swritten[ch], r, s)
    PROVE  Flows(ch)'
BY DEF Flows

\* A channel that is open has no request in the queue, except the one that is
\* being answered.
LEMMA NoRequest ==
    ASSUME DvcInv, NEW ch \in open, ~(thread = "respond" /\ Head(queue).ch = ch)
    PROVE  ~Carries(queue, ch, {"CREATE"})
<1>1. SUFFICES ASSUME NEW i \in DOMAIN queue, queue[i].ch = ch,
                      queue[i].cmd = "CREATE"
               PROVE  FALSE
  BY DEF Carries
<1>2. thread = "respond" /\ i = 1
  BY <1>1 DEF DvcInv, Requests
<1>3. Shape /\ queue # <<>>
  BY <1>1, <1>2 DEF DvcInv, Ending
<1>4. Head(queue) = queue[1]
  BY <1>3, HeadFacts
<1> QED
  BY <1>1, <1>2, <1>4

\* What is in the queue after the head was in it before.
LEMMA TailCarries ==
    ASSUME Shape, queue # <<>>, queue' = Tail(queue), NEW ch, NEW cmds,
           Carries(queue', ch, cmds)
    PROVE  Carries(queue, ch, cmds)
<1>1. queue \in Seq(Pdus)
  BY DEF Shape
<1> QED
  BY <1>1, CarriesTail

\* The flow of a channel other than the one whose PDU is taken.
LEMMA FlowsTail ==
    ASSUME DvcInv, queue # <<>>, queue' = Tail(queue), NEW ch \in Channels,
           ~(Head(queue).ch = ch /\ Head(queue).cmd \in Data),
           ch \in open' => ch \in open, UNCHANGED server,
           got'[ch] = got[ch], dvc_data'[ch] = dvc_data[ch]
    PROVE  Flows(ch)'
<1>1. Shape /\ Flows(ch) /\ queue \in Seq(Pdus)
  BY DEF DvcInv, Shape, ToClient
<1>2. Live(ch)' => Live(ch)
  BY <1>1, TailCarries DEF Live
<1>3. /\ \A r : Chain(queue, ch, swritten[ch], r) =>
                  Chain(queue', ch, swritten[ch], r)
      /\ \A r, s : EndsAt(queue, ch, swritten[ch], r, s) =>
                     EndsAt(queue', ch, swritten[ch], r, s)
  BY <1>1, StreamTailOther
<1>4. UNCHANGED <<peer, swritten, sending>>
  BY DEF server
<1> QED
  BY <1>1, <1>2, <1>3, <1>4, FlowsKept

\* The flow of a channel whose data a step leaves alone, with its queue.
LEMMA FlowsSame ==
    ASSUME DvcInv, NEW ch \in Channels, UNCHANGED <<queue, swritten, sending>>,
           Live(ch)' => Live(ch), peer' = "up" => peer = "up",
           got'[ch] = got[ch], dvc_data'[ch] = dvc_data[ch]
    PROVE  Flows(ch)'
<1>1. Flows(ch)
  BY DEF DvcInv, ToClient
<1> QED
  BY <1>1, FlowsKept

\* A channel that is removed has no flow.
LEMMA FlowsRemoved ==
    ASSUME DvcInv, NEW ch \in open,
           ~(thread = "respond" /\ Head(queue).ch = ch), open' = open \ {ch},
           queue' = queue \/ (queue # <<>> /\ queue' = Tail(queue))
    PROVE  Flows(ch)'
<1>1. ~Carries(queue, ch, {"CREATE"})
  BY NoRequest
<1>2. ~Carries(queue', ch, {"CREATE"})
  BY <1>1, TailCarries DEF DvcInv
<1>3. ~Live(ch)'
  BY <1>2 DEF Live
<1> QED
  BY <1>3 DEF Flows

\* The flow when the server adds a PDU that is not data of ch.
LEMMA FlowsAppend ==
    ASSUME DvcInv, NEW x \in Pdus, queue' = Append(queue, x), NEW ch \in Channels,
           ~(x.ch = ch /\ x.cmd \in Data \cup {"CREATE"}),
           swritten'[ch] = swritten[ch], sending'[ch] = sending[ch],
           UNCHANGED <<peer, client>>
    PROVE  Flows(ch)'
<1>1. Flows(ch) /\ queue \in Seq(Pdus)
  BY DEF DvcInv, Shape, ToClient
<1>2. Live(ch)' => Live(ch)
  <2>1. Carries(queue', ch, {"CREATE"}) => Carries(queue, ch, {"CREATE"})
    BY <1>1, CarriesAppend
  <2> QED
    BY <2>1 DEF Live, client
<1>3. /\ \A r : Chain(queue, ch, swritten[ch], r) =>
                  Chain(queue', ch, swritten[ch], r)
      /\ \A r, s : EndsAt(queue, ch, swritten[ch], r, s) =>
                     EndsAt(queue', ch, swritten[ch], r, s)
  BY <1>1, StreamAppendOther
<1> QED
  BY <1>1, <1>2, <1>3, FlowsKept DEF client

LEMMA ToClientWriting ==
    ASSUME DvcInv, ServerWriting
    PROVE  ToClient'
<1>1. Shape /\ ToClient /\ ServerSide
  BY DEF DvcInv
<1>2. PICK ch \in Channels : ServerWrite(ch) \/ ServerWriteNext(ch)
  BY DEF ServerWriting
<1>3. PICK w \in Writes, wr \in Seq(Seq(Units)) : ServerSends(ch, w, wr)
  BY <1>2, ServerWriteEffect
<1> DEFINE x == Fragment(w)
           v == AfterFragment(w)
           r == Expects(got[ch], dvc_data[ch].data)
<1>4. /\ x \in Pdus /\ x.ch = ch /\ x.cmd \in Data /\ IsPiece(x, wr)
      /\ At(x) = w.rest[1] /\ NextOf(v, wr) = After(x, wr)
  BY <1>3, FragmentPiece DEF ServerSends
<1>5. /\ swritten' = [swritten EXCEPT ![ch] = wr]
      /\ sending' = [sending EXCEPT ![ch] = v]
      /\ queue' = Append(queue, x) /\ peer = "up"
      /\ Extends(swritten[ch], wr) /\ Numbered(wr)
      /\ At(x) = NextOf(sending[ch], swritten[ch])
      /\ UNCHANGED <<peer, client>>
  BY <1>3, <1>4 DEF ServerSends, ServerSend
<1> HIDE DEF x, v
<1>6. /\ swritten \in [Channels -> Seq(Seq(Units))]
      /\ sending \in [Channels -> Writes] /\ queue \in Seq(Pdus)
      /\ got[ch] \in Seq(Seq(Units)) /\ dvc_data[ch].data \in Seq(Units)
  BY <1>1 DEF Shape
<1>7. ASSUME NEW c \in Channels, c # ch PROVE Flows(c)'
  <2>1. swritten'[c] = swritten[c] /\ sending'[c] = sending[c]
    BY <1>5, <1>6, <1>7
  <2> QED
    BY <1>4, <1>5, <1>7, <2>1, FlowsAppend
<1>8. Flows(ch)'
  <2>1. SUFFICES ASSUME Live(ch)' PROVE Flows(ch)'
    BY DEF Flows
  <2>2. Live(ch)
    <3>1. Carries(queue', ch, {"CREATE"}) => Carries(queue, ch, {"CREATE"})
      BY <1>4, <1>5, <1>6, CarriesAppend DEF Data
    <3> QED
      BY <1>5, <2>1, <3>1 DEF Live, client
  <2>3. /\ Chain(queue, ch, swritten[ch], r)
        /\ EndsAt(queue, ch, swritten[ch], r, At(x))
    BY <1>1, <1>5, <2>2 DEF ToClient, Flows
  <2>4. Pieces(queue, ch, swritten[ch]) /\ swritten[ch] \in Seq(Seq(Units))
    BY <1>1, <1>6 DEF ServerSide
  <2>5. r \in Units
    BY <1>6, ExpectsUnits
  <2>6. UNCHANGED <<got, dvc_data>>
    BY <1>5 DEF client
  <2> HIDE DEF r
  <2>7. /\ Pieces(queue, ch, wr) /\ Chain(queue, ch, wr, r)
        /\ EndsAt(queue, ch, wr, r, At(x))
    BY <1>5, <1>6, <2>3, <2>4, ExtendsStream
  <2>8. /\ Chain(queue', ch, wr, r)
        /\ EndsAt(queue', ch, wr, r, After(x, wr))
    BY <1>4, <1>5, <1>6, <2>5, <2>7, StreamAdd
  <2>9. /\ swritten'[ch] = wr /\ sending'[ch] = v
        /\ Expects(got'[ch], dvc_data'[ch].data) = r
        /\ NextOf(sending'[ch], swritten'[ch]) = After(x, wr)
    BY <1>4, <1>5, <1>6, <2>6 DEF r
  <2> QED
    BY <2>8, <2>9 DEF Flows
<1> QED
  BY <1>7, <1>8 DEF ToClient, Channels

\* A new channel: nothing is written to it yet.
LEMMA ToClientOpen ==
    ASSUME DvcInv, ServerOpen
    PROVE  ToClient'
<1>1. Shape /\ ToClient /\ Unused /\ ClientHas
  BY DEF DvcInv
<1>2. PICK n \in Channels : n = dvc_channel_id_seq + 1
  BY <1>1, DynamicChannelsAssumption DEF ServerOpen, Shape, Channels
<1> DEFINE x == Pdu("CREATE", n)
<1>3. x \in Pdus /\ x.cmd = "CREATE" /\ x.ch = n
  <2>1. "CREATE" \in Cmds /\ n \in 0..MaxChannels
    BY DEF Cmds, Channels
  <2> QED
    BY <2>1, PduFacts
<1>4. queue' = Append(queue, x) /\ UNCHANGED <<peer, client, swritten, sending>>
  BY <1>2 DEF ServerOpen
<1> HIDE DEF x
<1>5. ASSUME NEW c \in Channels, c # n PROVE Flows(c)'
  BY <1>3, <1>4, <1>5, FlowsAppend
<1>6. Flows(n)'
  <2>1. n > dvc_channel_id_seq
    BY <1>1, <1>2 DEF Shape
  <2>2. /\ ~Carries(queue, n, Cmds) /\ swritten[n] = <<>> /\ sending[n] = Idle
    BY <1>1, <2>1 DEF Unused, Untouched
  <2>3. queue \in Seq(Pdus) /\ got[n] \in Seq(Seq(Units))
    BY <1>1 DEF Shape
  <2>4. ~Carries(queue', n, Data)
    <3>1. ~Carries(queue, n, Data)
      BY <2>2 DEF Carries, Data, Cmds
    <3> QED
      BY <1>3, <1>4, <2>3, <3>1, CarriesAppend DEF Data
  <2>5. DataOf(queue', n) = {}
    BY <2>4 DEF Carries, DataOf
  <2>6. got[n] = <<>> /\ dvc_data[n].data = <<>>
    <3>1. Received(got[n], <<>>, dvc_data[n].data, dvc_data[n].length)
      BY <1>1, <2>2 DEF ClientHas
    <3>2. Len(got[n]) <= 0
      BY <3>1 DEF Received
    <3> QED
      BY <2>3, <3>1, <3>2 DEF Received
  <2>7. Expects(got[n], dvc_data[n].data) = NextOf(sending[n], swritten[n])
    BY <2>2, <2>6 DEF Expects, NextOf, Idle, Fresh
  <2>8. UNCHANGED <<got, dvc_data, sending, swritten>>
    BY <1>4 DEF client
  <2> QED
    BY <2>5, <2>7, <2>8 DEF Flows, Chain, EndsAt
<1> QED
  BY <1>5, <1>6 DEF ToClient, Channels

LEMMA ToClientOther ==
    ASSUME DvcInv,
           \/ ManagerOpen \/ ServerReceive \/ Disconnect \/ ClientWriting
           \/ \E ch \in Channels : ServerClose(ch)
    PROVE  ToClient'
<1>1. Shape /\ ToClient
  BY DEF DvcInv
<1>2. queue \in Seq(Pdus)
  BY <1>1 DEF Shape
<1>3. CASE ManagerOpen \/ \E ch \in Channels : ServerClose(ch)
  <2>1. UNCHANGED <<peer, client, swritten, sending>>
    BY <1>3 DEF ManagerOpen, ServerClose
  <2>2. \/ queue' = queue
        \/ \E x \in Pdus : /\ x.cmd \in {"CAPABILITY", "CLOSE"}
                           /\ queue' = Append(queue, x)
    <3>1. /\ "CAPABILITY" \in Cmds /\ "CLOSE" \in Cmds /\ 0 \in 0..MaxChannels
          /\ Channels \subseteq 0..MaxChannels
      BY DynamicChannelsAssumption DEF Cmds, Channels
    <3>2. CASE ManagerOpen
      BY <3>1, <3>2, PduFacts DEF ManagerOpen
    <3>3. CASE \E ch \in Channels : ServerClose(ch)
      BY <3>1, <3>3, PduFacts DEF ServerClose
    <3> QED
      BY <1>3, <3>2, <3>3
  <2>3. ASSUME NEW c \in Channels PROVE Flows(c)'
    <3>1. CASE queue' = queue
      <4>1. Live(c)' => Live(c)
        BY <2>1, <3>1 DEF Live, client
      <4> QED
        BY <2>1, <3>1, <4>1, FlowsSame DEF client
    <3>2. ASSUME NEW x \in Pdus, x.cmd \in {"CAPABILITY", "CLOSE"},
                 queue' = Append(queue, x)
          PROVE  Flows(c)'
      <4>1. x.cmd \notin Data \cup {"CREATE"}
        BY <3>2 DEF Data
      <4> QED
        BY <2>1, <3>2, <4>1, FlowsAppend
    <3> QED
      BY <2>2, <3>1, <3>2
  <2> QED
    BY <2>3 DEF ToClient, Channels
<1>4. CASE ServerReceive \/ ClientWriting
  <2>1. /\ UNCHANGED <<queue, swritten, sending, open, got, dvc_data>>
        /\ peer' = "up" => peer = "up"
    BY <1>4 DEF ServerReceive, ClientWriting, WriterStart, WriterNext,
       WriterSend, client, server
  <2>2. \A c \in Channels : Live(c)' => Live(c)
    BY <2>1 DEF Live
  <2>3. \A c \in Channels : Flows(c)'
    BY <2>1, <2>2, FlowsSame
  <2> QED
    BY <2>3 DEF ToClient, Channels
<1>5. CASE Disconnect
  <2>1. PICK n \in 0..Len(queue) : queue' = Append(SubSeq(queue, 1, n), Quit)
    BY <1>1, <1>5, DisconnectFacts
  <2>2. /\ peer' # "up" /\ UNCHANGED <<swritten, sending, open, got, dvc_data>>
    BY <1>5 DEF Disconnect, ConnectionLost
  <2>3. ASSUME NEW c \in Channels PROVE Flows(c)'
    <3>1. Live(c)' => Live(c)
      <4>1. Carries(queue', c, {"CREATE"}) => Carries(queue, c, {"CREATE"})
        <5>1. SubSeq(queue, 1, n) \in Seq(Pdus)
          BY <1>2, PrefixFacts
        <5>2. Carries(queue', c, {"CREATE"}) =>
                Carries(SubSeq(queue, 1, n), c, {"CREATE"})
          BY <2>1, <5>1, QuitFacts, CarriesAppend
        <5> QED
          BY <1>2, <5>2, CarriesPrefix
      <4> QED
        BY <2>2, <4>1 DEF Live
    <3>2. \A r : Chain(queue, c, swritten[c], r) =>
                   Chain(queue', c, swritten[c], r)
      BY <1>2, <2>1, PiecesDisconnect
    <3>3. Flows(c)
      BY <1>1 DEF ToClient
    <3> QED
      BY <2>2, <3>1, <3>2, <3>3, FlowsKept
  <2> QED
    BY <2>3 DEF ToClient, Channels
<1> QED
  BY <1>3, <1>4, <1>5


-----------------------------------------------------------------------------
(***************************************************************************)
(* What a control step of the client does to the channels.                 *)
(***************************************************************************)

\* The thread takes a PDU that is neither a request nor WMQ_QUIT.
Takes ==
    /\ thread = "loop" /\ queue # <<>> /\ queue' = Tail(queue)
    /\ Head(queue).cmd \in Data \cup {"CAPABILITY", "CLOSE"}

\* No channel is opened or closed ...
KeepsOpen ==
    /\ Takes
    /\ Head(queue).cmd = "CLOSE" => Head(queue).ch \notin open
    /\ \/ toServer' = toServer
       \/ toServer' = Append(toServer, Pdu("CAPABILITY", 0))
    /\ ThreadData \/ (Head(queue).cmd \notin Data /\ UNCHANGED <<got, dvc_data>>)
    /\ UNCHANGED <<thread, main, open, closes>>

\* ... the channel ch is closed, and the server is told if it can be ...
Removes(ch) ==
    /\ ch \in open /\ ~(thread = "respond" /\ Head(queue).ch = ch)
    /\ RemoveChannel(ch)
    /\ toServer' = IF peer = "up" THEN Append(toServer, Pdu("CLOSE", ch))
                                  ELSE toServer
    /\ \/ ThreadData /\ Takes /\ Head(queue).cmd \in Data
       \/ Takes /\ Head(queue).cmd = "CLOSE" /\ Head(queue).ch = ch
             /\ Head(queue).cmd \notin Data /\ UNCHANGED got
       \/ UNCHANGED <<queue, got>>
    /\ UNCHANGED <<thread, main>>

\* ... or a request is refused.
Refuses(ch) ==
    /\ thread = "loop" /\ queue # <<>> /\ queue' = Tail(queue)
    /\ Head(queue).cmd = "CREATE" /\ Head(queue).ch = ch /\ ch \notin open
    /\ \/ toServer' = toServer
       \/ toServer' = Append(toServer, Pdu("CREATE_FAILED", ch))
       \/ toServer' = Append(Append(toServer, Pdu("CAPABILITY", 0)),
                             Pdu("CREATE_FAILED", ch))
    /\ UNCHANGED <<thread, main, open, closes, dvc_data, got>>

\* Telling the server of a close.
LEMMA SendClose ==
    ASSUME Shape, NEW ch \in Channels, Send(<<Pdu("CLOSE", ch)>>)
    PROVE  toServer' = IF peer = "up" THEN Append(toServer, Pdu("CLOSE", ch))
                                      ELSE toServer
<1>1. "CLOSE" \in Cmds /\ ch \in 0..MaxChannels /\ toServer \in Seq(Pdus)
  BY DynamicChannelsAssumption DEF Cmds, Channels, Shape
<1>2. Pdu("CLOSE", ch) \in Pdus
  BY <1>1, PduFacts
<1> QED
  BY <1>1, <1>2, SendFacts DEF Send

\* The request that is being answered is the only one of its channel.
LEMMA AnswerGone ==
    ASSUME DvcInv, queue # <<>>, Head(queue).cmd = "CREATE"
    PROVE  /\ Head(queue).ch \in Channels
           /\ ~Carries(Tail(queue), Head(queue).ch, {"CREATE"})
<1>1. Shape /\ Requests
  BY DEF DvcInv
<1>2. /\ queue \in Seq(Pdus) /\ 1 \in DOMAIN queue /\ queue[1] = Head(queue)
  BY <1>1, HeadFacts DEF Shape
<1>3. Head(queue).ch \in Channels
  BY <1>1, <1>2 DEF Requests
<1>4. \A j \in DOMAIN queue :
        queue[j].ch = queue[1].ch /\ queue[j].cmd = "CREATE" => j = 1
  BY <1>1, <1>2 DEF Requests
<1>5. ASSUME Carries(Tail(queue), Head(queue).ch, {"CREATE"}) PROVE FALSE
  <2>1. PICK j \in DOMAIN Tail(queue) :
          Tail(queue)[j].ch = Head(queue).ch /\ Tail(queue)[j].cmd = "CREATE"
    BY <1>5 DEF Carries
  <2>2. /\ j \in 1..(Len(queue) - 1) /\ Tail(queue)[j] = queue[j + 1]
        /\ Len(queue) \in Nat /\ DOMAIN queue = 1..Len(queue)
    BY <1>2, <2>1, TailFacts
  <2>3. j + 1 \in DOMAIN queue /\ j + 1 # 1
    BY <2>2
  <2> QED
    BY <1>2, <1>4, <2>1, <2>2, <2>3
<1> QED
  BY <1>3, <1>5

\* The request at the head of the queue is for a channel that is not open.
LEMMA HeadRequest ==
    ASSUME DvcInv, queue # <<>>, Head(queue).cmd = "CREATE", thread # "respond"
    PROVE  Head(queue).ch \in Channels \ open /\ closes[Head(queue).ch] = 0
<1>1. Shape /\ Requests
  BY DEF DvcInv
<1>2. 1 \in DOMAIN queue /\ queue[1] = Head(queue)
  BY <1>1, HeadFacts
<1> QED
  BY <1>1, <1>2 DEF Requests

LEMMA ControlSplit ==
    ASSUME DvcInv, ClientControl
    PROVE  /\ UNCHANGED <<server, writing, cwritten>>
           /\ \/ MainJoin \/ ThreadAccept \/ ThreadRespond
              \/ ThreadQuit \/ ThreadEnd
              \/ KeepsOpen
              \/ \E ch \in Channels : Removes(ch) \/ Refuses(ch)
<1>1. Shape /\ Ending /\ Requests
  BY DEF DvcInv
<1>2. open \subseteq Channels /\ toServer \in Seq(Pdus)
  BY <1>1 DEF Shape
<1>3. UNCHANGED <<server, writing, cwritten>>
  BY <1>1, ControlFrame
<1>4. CASE ThreadCapability
  <2>1. Pdu("CAPABILITY", 0) \in Pdus
    <3>1. "CAPABILITY" \in Cmds /\ 0 \in 0..MaxChannels
      BY DynamicChannelsAssumption DEF Cmds
    <3> QED
      BY <3>1, PduFacts
  <2>2. \/ toServer' = toServer
        \/ toServer' = Append(toServer, Pdu("CAPABILITY", 0))
    BY <1>2, <1>4, <2>1, SendFacts DEF ThreadCapability, Send
  <2>3. KeepsOpen
    BY <1>4, <2>2 DEF ThreadCapability, Take, KeepsOpen, Takes, Data
  <2> QED
    BY <1>3, <2>3
<1>5. CASE ThreadRefuse
  <2>1. /\ thread = "loop" /\ queue # <<>> /\ queue' = Tail(queue)
        /\ Head(queue).cmd = "CREATE"
    BY <1>5 DEF ThreadRefuse, Take
  <2>2. PICK ch \in Channels : ch = Head(queue).ch /\ ch \notin open
    BY <2>1, HeadRequest
  <2>3. /\ 0 \in 0..MaxChannels /\ ch \in 0..MaxChannels
    BY DynamicChannelsAssumption DEF Channels
  <2>4. \/ toServer' = toServer
        \/ toServer' = Append(toServer, Pdu("CREATE_FAILED", ch))
        \/ toServer' = Append(Append(toServer, Pdu("CAPABILITY", 0)),
                              Pdu("CREATE_FAILED", ch))
    <3>1. Send((IF state = "CAPABILITIES" THEN <<Pdu("CAPABILITY", 0)>>
                                          ELSE <<>>)
               \o <<Pdu("CREATE_FAILED", ch)>>)
      BY <1>5, <2>2 DEF ThreadRefuse
    <3> QED
      BY <1>2, <2>3, <3>1, SendRefusal
  <2>5. UNCHANGED <<thread, main, open, closes, dvc_data, got>>
    BY <1>5, <2>2 DEF ThreadRefuse
  <2>6. Refuses(ch)
    BY <2>1, <2>2, <2>4, <2>5 DEF Refuses
  <2> QED
    BY <1>3, <2>6
<1>6. CASE ThreadData
  <2>1. /\ Takes /\ UNCHANGED <<thread, main>>
        /\ Head(queue).cmd # "CLOSE" /\ Head(queue).cmd \in Data
    BY <1>6 DEF ThreadData, Take, Takes, Data
  <2>2. CASE UNCHANGED <<toServer, open, closes>>
    <3>1. KeepsOpen
      BY <1>6, <2>1, <2>2 DEF KeepsOpen
    <3> QED
      BY <1>3, <3>1
  <2>3. CASE /\ Head(queue).ch \in open
             /\ Send(<<Pdu("CLOSE", Head(queue).ch)>>)
             /\ RemoveChannel(Head(queue).ch)
    <3>1. PICK ch \in Channels : ch = Head(queue).ch
      BY <1>2, <2>3
    <3>2. toServer' = IF peer = "up" THEN Append(toServer, Pdu("CLOSE", ch))
                                     ELSE toServer
      BY <1>1, <2>3, <3>1, SendClose
    <3>3. Removes(ch)
      BY <1>6, <2>1, <2>3, <3>1, <3>2 DEF Removes, Takes
    <3> QED
      BY <1>3, <3>3
  <2> QED
    BY <1>6, <2>2, <2>3, DataControl
<1>7. CASE ThreadClose
  <2>1. /\ Takes /\ UNCHANGED <<thread, main, got>>
        /\ Head(queue).cmd = "CLOSE" /\ Head(queue).cmd \notin Data
    BY <1>7 DEF ThreadClose, Take, Takes, Data
  <2>2. CASE Head(queue).ch \notin open
    <3>1. UNCHANGED <<toServer, open, closes, dvc_data>>
      BY <1>7, <2>2 DEF ThreadClose
    <3>2. KeepsOpen
      BY <2>1, <2>2, <3>1 DEF KeepsOpen
    <3> QED
      BY <1>3, <3>2
  <2>3. CASE Head(queue).ch \in open
    <3>1. PICK ch \in Channels : ch = Head(queue).ch
      BY <1>2, <2>3
    <3>2. Send(<<Pdu("CLOSE", ch)>>) /\ RemoveChannel(ch)
      BY <1>7, <2>3, <3>1 DEF ThreadClose
    <3>3. toServer' = IF peer = "up" THEN Append(toServer, Pdu("CLOSE", ch))
                                     ELSE toServer
      BY <1>1, <3>2, SendClose
    <3>4. Removes(ch)
      BY <2>1, <2>3, <3>1, <3>2, <3>3 DEF Removes, Takes
    <3> QED
      BY <1>3, <3>4
  <2> QED
    BY <2>2, <2>3
<1>8. CASE ThreadCloseRemaining
  <2>1. PICK ch \in open : RemoveChannel(ch)
    BY <1>8 DEF ThreadCloseRemaining
  <2>2. peer # "up"
    BY <1>1, <1>8 DEF ThreadCloseRemaining, Ending
  <2>3. Removes(ch)
    BY <1>8, <2>1, <2>2 DEF Removes, ThreadCloseRemaining
  <2> QED
    BY <1>2, <1>3, <2>3
<1>9. CASE PluginClose
  <2>1. PICK ch \in open \ Unanswered :
          Send(<<Pdu("CLOSE", ch)>>) /\ RemoveChannel(ch)
    BY <1>9 DEF PluginClose
  <2>2. ch \in Channels /\ ~(thread = "respond" /\ Head(queue).ch = ch)
    BY <1>2, <2>1 DEF Unanswered
  <2>3. toServer' = IF peer = "up" THEN Append(toServer, Pdu("CLOSE", ch))
                                   ELSE toServer
    BY <1>1, <2>1, <2>2, SendClose
  <2>4. Removes(ch)
    BY <1>9, <2>1, <2>2, <2>3 DEF Removes, PluginClose
  <2> QED
    BY <1>3, <2>2, <2>4
<1> QED
  BY <1>3, <1>4, <1>5, <1>6, <1>7, <1>8, <1>9 DEF ClientControl, ThreadNext

LEMMA ToClientData ==
    ASSUME DvcInv, ThreadData
    PROVE  ToClient'
<1>1. Shape /\ ToClient /\ Requests
  BY DEF DvcInv
<1>2. /\ queue # <<>> /\ queue' = Tail(queue) /\ thread = "loop"
      /\ Head(queue).cmd \in Data /\ UNCHANGED server
  BY DEF ThreadData, Take, Data
<1>3. /\ Head(queue) \in Pdus /\ 1 \in DOMAIN queue /\ queue[1] = Head(queue)
      /\ queue \in Seq(Pdus)
  BY <1>1, <1>2, HeadFacts DEF Shape
<1>4. CASE Head(queue).ch \notin open
  <2>1. UNCHANGED <<open, dvc_data, got>>
    BY <1>4 DEF ThreadData
  <2>2. ASSUME NEW c \in Channels, Head(queue).ch # c PROVE Flows(c)'
    BY <1>2, <2>1, <2>2, FlowsTail
  <2>3. ASSUME NEW c \in Channels, Head(queue).ch = c PROVE Flows(c)'
    <3>1. ~Carries(queue, c, {"CREATE"})
      <4>1. SUFFICES ASSUME NEW i \in DOMAIN queue, queue[i].ch = c,
                            queue[i].cmd = "CREATE"
                     PROVE  FALSE
        BY DEF Carries
      <4>2. 1 \in DataOf(queue, c)
        BY <1>2, <1>3, <2>3 DEF DataOf
      <4>3. i < 1
        BY <1>1, <4>1, <4>2 DEF Requests
      <4> QED
        BY <1>3, <4>1, <4>3
    <3>2. ~Carries(queue', c, {"CREATE"})
      BY <1>1, <1>2, <3>1, TailCarries
    <3> QED
      BY <1>4, <2>1, <2>3, <3>2 DEF Flows, Live
  <2> QED
    BY <2>2, <2>3 DEF ToClient, Channels
<1>5. CASE Head(queue).ch \in open
  <2>1. PICK ch \in Channels : ch = Head(queue).ch
    BY <1>1, <1>5 DEF Shape
  <2> DEFINE p  == Head(queue)
             wr == swritten[ch]
             r  == Expects(got[ch], dvc_data[ch].data)
             s  == NextOf(sending[ch], swritten[ch])
  <2>2. /\ p \in Pdus /\ got[ch] \in Seq(Seq(Units))
        /\ Chain(Tail(queue), ch, wr, After(p, wr))
        /\ EndsAt(queue, ch, wr, r, s) =>
             EndsAt(Tail(queue), ch, wr, After(p, wr), s)
    BY <1>5, <2>1, ThreadTakes
  <2>3. Stores(ch, p, wr) \/ Delivers(ch, p, wr)
    BY <1>5, <2>1, ThreadDataEffect
  <2>4. peer = "up" => EndsAt(queue, ch, wr, r, s)
    BY <1>1, <1>5, <2>1 DEF ToClient, Flows, Live
  <2>5. UNCHANGED <<peer, swritten, sending>>
    BY <1>2 DEF server
  <2> DEFINE a == After(p, wr)
  <2>6. /\ Chain(queue', ch, wr, a)
        /\ peer = "up" => EndsAt(queue', ch, wr, a, s)
    BY <1>2, <2>2, <2>4
  <2>7. ASSUME \A c \in Channels : c # ch =>
                 /\ got'[c] = got[c] /\ dvc_data'[c] = dvc_data[c]
                 /\ c \in open' => c \in open
        PROVE  \A c \in Channels : c # ch => Flows(c)'
    BY <1>2, <2>1, <2>7, FlowsTail
  <2>8. ASSUME a = Expects(got'[ch], dvc_data'[ch].data) PROVE Flows(ch)'
    <3> HIDE DEF a, p
    <3>1. /\ Chain(queue', ch, swritten'[ch], Expects(got'[ch], dvc_data'[ch].data))
          /\ peer' = "up" =>
               EndsAt(queue', ch, swritten'[ch],
                      Expects(got'[ch], dvc_data'[ch].data),
                      NextOf(sending'[ch], swritten'[ch]))
      BY <2>5, <2>6, <2>8
    <3> QED
      BY <3>1 DEF Flows
  <2> HIDE DEF p, wr
  <2>9. dvc_data \in [Channels -> [length : Nat, data : Seq(Units)]]
    BY <1>1 DEF Shape
  <2>10. CASE Stores(ch, p, wr)
    <3>1. PICK D \in Seq(Units), L \in Nat :
            /\ a = Expects(got[ch], D)
            /\ dvc_data' = [dvc_data EXCEPT ![ch] = [length |-> L, data |-> D]]
            /\ UNCHANGED <<open, got>>
      BY <2>10 DEF Stores
    <3>2. /\ dvc_data'[ch].data = D
          /\ \A c \in Channels : c # ch => dvc_data'[c] = dvc_data[c]
      BY <2>9, <3>1
    <3>3. a = Expects(got'[ch], dvc_data'[ch].data)
      BY <3>1, <3>2
    <3> HIDE DEF a
    <3>4. \A c \in Channels : c # ch => Flows(c)'
      BY <2>7, <3>1, <3>2
    <3>5. Flows(ch)'
      BY <2>8, <3>3
    <3> QED
      BY <3>4, <3>5 DEF ToClient, Channels
  <2>11. CASE Delivers(ch, p, wr)
    <3>1. PICK m \in Seq(Units) :
            /\ a = Expects(Append(got[ch], m), <<>>)
            /\ Deliver(ch, m)
      BY <2>11 DEF Delivers
    <3>2. /\ got'[ch] = Append(got[ch], m) /\ dvc_data'[ch] = NoData
          /\ \A c \in Channels : c # ch => got'[c] = got[c]
          /\ \A c \in Channels : c # ch => dvc_data'[c] = dvc_data[c]
          /\ \/ UNCHANGED open
             \/ RemoveChannel(ch)
      BY <1>1, <3>1, DeliverFacts
    <3>3. a = Expects(got'[ch], dvc_data'[ch].data)
      BY <3>1, <3>2 DEF NoData
    <3> HIDE DEF a
    <3>4. open' \subseteq open
      BY <3>2 DEF RemoveChannel
    <3>5. \A c \in Channels : c # ch => Flows(c)'
      BY <2>7, <3>2, <3>4
    <3>6. Flows(ch)'
      BY <2>8, <3>3
    <3> QED
      BY <3>5, <3>6 DEF ToClient, Channels
  <2> QED
    BY <2>3, <2>10, <2>11
<1> QED
  BY <1>4, <1>5

LEMMA ToClientControl ==
    ASSUME DvcInv, ClientControl
    PROVE  ToClient'
<1>1. Shape /\ ToClient /\ Ending
  BY DEF DvcInv
<1>2. UNCHANGED server
  BY ControlSplit
<1>3. UNCHANGED <<peer, swritten, sending>>
  BY <1>2 DEF server
<1>4. CASE MainJoin
  <2>1. queue' = <<>> /\ open' = {}
    BY <1>4 DEF MainJoin
  <2>2. \A c \in Channels : Flows(c)'
    BY <2>1, CarriesEmpty DEF Flows, Live
  <2> QED
    BY <2>2 DEF ToClient, Channels
<1>5. CASE ThreadAccept
  <2>1. /\ queue # <<>> /\ Head(queue).cmd = "CREATE"
        /\ open' = open \cup {Head(queue).ch}
        /\ UNCHANGED <<queue, got, dvc_data>>
    BY <1>5 DEF ThreadAccept
  <2>2. Carries(queue, Head(queue).ch, {"CREATE"})
    BY <1>1, <2>1, HeadFacts DEF Carries
  <2>3. \A c \in Channels : Live(c)' => Live(c)
    BY <2>1, <2>2 DEF Live
  <2>4. \A c \in Channels : Flows(c)'
    BY <1>3, <2>1, <2>3, FlowsSame
  <2> QED
    BY <2>4 DEF ToClient, Channels
<1>6. CASE ThreadRespond \/ ThreadQuit
  <2>1. /\ queue # <<>> /\ queue' = Tail(queue) /\ UNCHANGED <<open, got, dvc_data>>
        /\ Head(queue).cmd \notin Data
    <3>1. CASE ThreadRespond
      <4>1. thread = "respond" /\ queue' = Tail(queue) /\ UNCHANGED <<open, got, dvc_data>>
        BY <3>1 DEF ThreadRespond
      <4>2. queue # <<>> /\ Head(queue).cmd = "CREATE"
        BY <1>1, <4>1, HeadFacts DEF Ending
      <4> QED
        BY <4>1, <4>2 DEF Data
    <3>2. CASE ThreadQuit
      BY <3>2 DEF ThreadQuit, Take, Data
    <3> QED
      BY <1>6, <3>1, <3>2
  <2>2. \A c \in Channels : Flows(c)'
    BY <1>2, <2>1, FlowsTail
  <2> QED
    BY <2>2 DEF ToClient, Channels
<1>7. CASE ThreadEnd
  <2>1. UNCHANGED <<queue, open, got, dvc_data>>
    BY <1>7 DEF ThreadEnd
  <2>2. \A c \in Channels : Live(c)' => Live(c)
    BY <2>1 DEF Live
  <2>3. \A c \in Channels : Flows(c)'
    BY <1>3, <2>1, <2>2, FlowsSame
  <2> QED
    BY <2>3 DEF ToClient, Channels
<1>8. CASE KeepsOpen /\ ~ThreadData
  <2>1. /\ queue # <<>> /\ queue' = Tail(queue) /\ UNCHANGED <<open, got, dvc_data>>
        /\ Head(queue).cmd \notin Data
    BY <1>8 DEF KeepsOpen, Takes
  <2>2. \A c \in Channels : Flows(c)'
    BY <1>2, <2>1, FlowsTail
  <2> QED
    BY <2>2 DEF ToClient, Channels
<1>9. ASSUME NEW ch \in Channels, Refuses(ch) PROVE ToClient'
  <2>1. /\ queue # <<>> /\ queue' = Tail(queue) /\ UNCHANGED <<open, got, dvc_data>>
        /\ Head(queue).cmd \notin Data
    BY <1>9 DEF Refuses, Data
  <2>2. \A c \in Channels : Flows(c)'
    BY <1>2, <2>1, FlowsTail
  <2> QED
    BY <2>2 DEF ToClient, Channels
<1>10. ASSUME NEW ch \in Channels, Removes(ch), ~ThreadData PROVE ToClient'
  <2>1. /\ open' = open \ {ch} /\ UNCHANGED got
        /\ \A c \in Channels : c # ch => dvc_data'[c] = dvc_data[c]
        /\ ch \in open /\ ~(thread = "respond" /\ Head(queue).ch = ch)
        /\ \/ queue' = queue
           \/ queue # <<>> /\ queue' = Tail(queue) /\ Head(queue).cmd \notin Data
    BY <1>1, <1>10, RemoveFacts DEF Removes, Takes
  <2>2. Flows(ch)'
    BY <2>1, FlowsRemoved
  <2>3. ASSUME NEW c \in Channels, c # ch PROVE Flows(c)'
    <3>1. c \in open' => c \in open
      BY <2>1
    <3>2. CASE queue' = queue
      <4>1. Live(c)' => Live(c)
        BY <3>1, <3>2 DEF Live
      <4> QED
        BY <1>3, <2>1, <2>3, <3>2, <4>1, FlowsSame
    <3>3. CASE queue # <<>> /\ queue' = Tail(queue) /\ Head(queue).cmd \notin Data
      BY <1>2, <2>1, <2>3, <3>1, <3>3, FlowsTail
    <3> QED
      BY <2>1, <3>2, <3>3
  <2> QED
    BY <2>2, <2>3 DEF ToClient, Channels
<1> QED
  BY <1>4, <1>5, <1>6, <1>7, <1>8, <1>9, <1>10, ControlSplit, ToClientData

LEMMA ToClientStep ==
    ASSUME DvcInv, Next
    PROVE  ToClient'
BY NextSplit, ToClientWriting, ToClientOpen, ToClientOther, ToClientControl

-----------------------------------------------------------------------------
(***************************************************************************)
(* From the client to the server.                                          *)
(***************************************************************************)

\* A step that does nothing to the data of ch keeps its flow.
LEMMA BackKept ==
    ASSUME NEW ch, FlowsBack(ch), UNCHANGED writing,
           cwritten'[ch] = cwritten[ch], inbox'[ch] = inbox[ch],
           Partial(ch)' = Partial(ch),
           \A r : Chain(toServer, ch, cwritten[ch], r) =>
                    Chain(toServer', ch, cwritten[ch], r),
           \A r, s : EndsAt(toServer, ch, cwritten[ch], r, s) =>
                       EndsAt(toServer', ch, cwritten[ch], r, s)
    PROVE  FlowsBack(ch)'
<1> DEFINE r == Expects(inbox[ch], Partial(ch))
<1>1. Expects(inbox'[ch], Partial(ch)') = r
  OBVIOUS
<1>2. LockFree(ch)' = LockFree(ch)
  BY DEF LockFree
<1>3. /\ Chain(toServer, ch, cwritten[ch], r)
      /\ \A w \in Writers :
           writing[w].ch = ch =>
             EndsAt(toServer, ch, cwritten[ch], r, writing[w].rest[1])
      /\ LockFree(ch) =>
           EndsAt(toServer, ch, cwritten[ch], r, Fresh(cwritten[ch]))
  BY DEF FlowsBack
<1> HIDE DEF r
<1>4. /\ Chain(toServer', ch, cwritten'[ch], r)
      /\ \A w \in Writers :
           writing'[w].ch = ch =>
             EndsAt(toServer', ch, cwritten'[ch], r, writing'[w].rest[1])
      /\ LockFree(ch)' =>
           EndsAt(toServer', ch, cwritten'[ch], r, Fresh(cwritten'[ch]))
  BY <1>2, <1>3
<1> QED
  BY <1>1, <1>4 DEF FlowsBack

\* Steps that add nothing but answers.
LEMMA ToServerOther ==
    ASSUME DvcInv, AddsAnswers(toServer, toServer', Known),
           UNCHANGED <<peer, writing, cwritten, inbox, total_length, receiveData>>,
           Listed' \subseteq Listed
    PROVE  ToServer'
<1>1. toServer \in Seq(Pdus) /\ ToServer
  BY DEF DvcInv, Shape
<1>2. SUFFICES ASSUME peer = "up", NEW ch \in Listed'
               PROVE  FlowsBack(ch)'
  BY DEF ToServer
<1>3. FlowsBack(ch)
  BY <1>1, <1>2 DEF ToServer
<1>4. Partial(ch)' = Partial(ch)
  BY DEF Partial
<1>5. /\ \A r : Chain(toServer, ch, cwritten[ch], r) =>
                  Chain(toServer', ch, cwritten[ch], r)
      /\ \A r, s : EndsAt(toServer, ch, cwritten[ch], r, s) =>
                     EndsAt(toServer', ch, cwritten[ch], r, s)
  BY <1>1, AnswersKeepData
<1> QED
  BY <1>3, <1>4, <1>5, BackKept

\* A new channel: nothing is written to it yet.
LEMMA ToServerOpen ==
    ASSUME DvcInv, ServerOpen
    PROVE  ToServer'
<1>1. Shape /\ ToServer /\ Unused /\ ServerHas
  BY DEF DvcInv
<1>2. PICK n \in Channels : n = dvc_channel_id_seq + 1
  BY <1>1, DynamicChannelsAssumption DEF ServerOpen, Shape, Channels
<1>3. /\ peer = "up"
      /\ dvc_open_state' = [dvc_open_state EXCEPT ![n] = "NONE"]
      /\ UNCHANGED <<peer, toServer, inbox, total_length, receiveData>>
      /\ UNCHANGED <<writing, cwritten>>
  BY <1>2 DEF ServerOpen, client
<1>4. dvc_open_state \in [Channels -> OpenStates]
  BY <1>1 DEF Shape
<1>5. ASSUME NEW c \in Channels, c # n, c \in Listed' PROVE FlowsBack(c)'
  <2>1. c \in Listed
    BY <1>3, <1>4, <1>5 DEF Listed
  <2>2. FlowsBack(c)
    BY <1>1, <1>3, <2>1 DEF ToServer
  <2>3. Partial(c)' = Partial(c)
    BY <1>3 DEF Partial
  <2> QED
    BY <1>3, <2>2, <2>3, BackKept
<1>6. FlowsBack(n)'
  <2>1. n > dvc_channel_id_seq
    BY <1>1, <1>2 DEF Shape
  <2>2. /\ ~Carries(toServer, n, Cmds) /\ cwritten[n] = <<>>
        /\ LockFree(n) /\ total_length[n] = 0
    BY <1>1, <2>1 DEF Unused, Untouched
  <2>3. DataOf(toServer, n) = {}
    BY <2>2 DEF Carries, DataOf, Data, Cmds
  <2>4. inbox[n] \in Seq(Seq(Units))
    BY <1>1 DEF Shape
  <2>5. Partial(n) = <<>>
    BY <2>2 DEF Partial
  <2>6. inbox[n] = <<>>
    <3>1. Received(inbox[n], <<>>, Partial(n), total_length[n])
      BY <1>1, <2>2 DEF ServerHas
    <3>2. Len(inbox[n]) <= 0
      BY <3>1 DEF Received
    <3> QED
      BY <2>4, <3>2
  <2>7. Expects(inbox[n], Partial(n)) = Fresh(cwritten[n])
    BY <2>2, <2>5, <2>6 DEF Expects, Fresh
  <2>8. FlowsBack(n)
    BY <2>2, <2>3, <2>7 DEF FlowsBack, Chain, EndsAt, LockFree
  <2>9. Partial(n)' = Partial(n)
    BY <1>3 DEF Partial
  <2> QED
    BY <1>3, <2>8, <2>9, BackKept
<1> QED
  BY <1>5, <1>6 DEF ToServer, Listed, Channels

LEMMA ToServerReceive ==
    ASSUME DvcInv, ServerReceive
    PROVE  ToServer'
<1>1. Shape /\ ToServer
  BY DEF DvcInv
<1>2. SUFFICES ASSUME peer' = "up"
               PROVE  \A c \in Listed' : FlowsBack(c)'
  BY DEF ToServer
<1> DEFINE p == Head(toServer)
<1>3. /\ peer = "up" /\ toServer # <<>> /\ toServer' = Tail(toServer)
      /\ UNCHANGED <<writing, cwritten>>
      /\ Ignores(p) \/ TakesAnswer(p) \/ TakesPiece(p)
  BY <1>2, ServerReceiveEffect DEF client
<1>4. toServer \in Seq(Pdus) /\ dvc_open_state \in [Channels -> OpenStates]
  BY <1>1 DEF Shape
<1>5. Listed' \subseteq Listed
  <2>1. CASE UNCHANGED dvc_open_state
    BY <2>1 DEF Listed, Channels
  <2>2. CASE TakesAnswer(p)
    <3>1. PICK s : dvc_open_state' = [dvc_open_state EXCEPT ![p.ch] = s]
      BY <2>2 DEF TakesAnswer, ReadOpenState
    <3>2. p.ch \in Listed /\ p.ch \in Channels
      BY <2>2 DEF TakesAnswer, Listed
    <3> HIDE DEF p
    <3>3. \A c \in Channels : c # p.ch => dvc_open_state'[c] = dvc_open_state[c]
      BY <1>4, <3>1
    <3> QED
      BY <3>2, <3>3 DEF Listed, Channels
  <2> QED
    BY <1>3, <2>1, <2>2 DEF Ignores, TakesPiece
<1>6. ASSUME NEW c \in Listed', inbox'[c] = inbox[c], Partial(c)' = Partial(c),
             ~(p.ch = c /\ p.cmd \in Data)
      PROVE  FlowsBack(c)'
  <2>1. FlowsBack(c)
    BY <1>1, <1>3, <1>5, <1>6 DEF ToServer
  <2>2. /\ \A r : Chain(toServer, c, cwritten[c], r) =>
                    Chain(toServer', c, cwritten[c], r)
        /\ \A r, s : EndsAt(toServer, c, cwritten[c], r, s) =>
                       EndsAt(toServer', c, cwritten[c], r, s)
    BY <1>3, <1>4, <1>6, StreamTailOther
  <2> QED
    BY <1>3, <1>6, <2>1, <2>2, BackKept
<1>7. CASE Ignores(p) \/ TakesAnswer(p)
  <2>1. UNCHANGED <<inbox, total_length, receiveData>>
    BY <1>7 DEF Ignores, TakesAnswer, ReadOpenState
  <2>2. ASSUME NEW c \in Listed' PROVE FlowsBack(c)'
    <3>1. Partial(c)' = Partial(c)
      BY <2>1 DEF Partial
    <3>2. p.ch = c => p.cmd \notin Data
      BY <1>5, <1>7 DEF Ignores, TakesAnswer, Data
    <3> QED
      BY <1>6, <2>1, <3>1, <3>2
  <2> QED
    BY <2>2
<1>8. CASE TakesPiece(p)
  <2>1. PICK ch \in Channels : ch = p.ch /\ ch \in Listed
    BY <1>8 DEF TakesPiece, Listed
  <2> DEFINE wr == cwritten[ch]
             r  == Expects(inbox[ch], Partial(ch))
  <2>2. /\ p.cmd \in Data
        /\ ServerStores(ch, p, wr) \/ ServerDelivers(ch, p, wr) \/ ServerDrops(ch)
    BY <1>8, <2>1 DEF TakesPiece
  <2>3. /\ inbox[ch] \in Seq(Seq(Units))
        /\ Chain(Tail(toServer), ch, wr, After(p, wr))
        /\ \A s : EndsAt(toServer, ch, wr, r, s) =>
                    EndsAt(Tail(toServer), ch, wr, After(p, wr), s)
    BY <1>3, <2>1, <2>2, ServerTakes
  <2>4. FlowsBack(ch)
    BY <1>1, <1>3, <2>1 DEF ToServer
  <2> DEFINE a == After(p, wr)
  <2>5. /\ Chain(toServer', ch, wr, a)
        /\ \A w \in Writers :
             writing[w].ch = ch => EndsAt(toServer', ch, wr, a, writing[w].rest[1])
        /\ LockFree(ch) => EndsAt(toServer', ch, wr, a, Fresh(wr))
    BY <1>3, <2>3, <2>4 DEF FlowsBack
  <2>6. LockFree(ch)' = LockFree(ch)
    BY <1>3 DEF LockFree
  <2> HIDE DEF a
  <2>7. ASSUME Expects(inbox'[ch], Partial(ch)') = a PROVE FlowsBack(ch)'
    BY <1>3, <2>5, <2>6, <2>7 DEF FlowsBack
  <2>8. ASSUME \A c \in Channels : c # ch =>
                 /\ inbox'[c] = inbox[c] /\ total_length'[c] = total_length[c]
                 /\ receiveData'[c] = receiveData[c]
        PROVE  \A c \in Listed' : c # ch => FlowsBack(c)'
    <3> SUFFICES ASSUME NEW c \in Listed', c # ch PROVE FlowsBack(c)'
      OBVIOUS
    <3>1. c \in Channels
      BY <1>5 DEF Listed
    <3>2. inbox'[c] = inbox[c] /\ Partial(c)' = Partial(c)
      BY <2>8, <3>1 DEF Partial
    <3> QED
      BY <1>6, <2>1, <3>2
  <2>9. /\ inbox \in [Channels -> Seq(Seq(Units))]
        /\ total_length \in [Channels -> Nat]
        /\ receiveData \in [Channels -> Seq(Units)]
    BY <1>1 DEF Shape
  <2> HIDE DEF p
  <2>10. CASE ServerStores(ch, p, wr)
    <3>1. PICK D \in Seq(Units), L \in Nat :
            /\ L # 0 /\ a = Expects(inbox[ch], D)
            /\ total_length' = [total_length EXCEPT ![ch] = L]
            /\ receiveData' = [receiveData EXCEPT ![ch] = D]
            /\ UNCHANGED inbox
      BY <2>10 DEF ServerStores, a
    <3>2. /\ total_length'[ch] = L /\ receiveData'[ch] = D
          /\ \A c \in Channels : c # ch =>
               /\ inbox'[c] = inbox[c] /\ total_length'[c] = total_length[c]
               /\ receiveData'[c] = receiveData[c]
      BY <2>9, <3>1
    <3>3. Partial(ch)' = D
      BY <3>1, <3>2 DEF Partial
    <3> QED
      BY <2>7, <2>8, <3>1, <3>2, <3>3
  <2>11. CASE ServerDelivers(ch, p, wr)
    <3>1. PICK m \in Seq(Units), D \in Seq(Units) :
            /\ a = Expects(Append(inbox[ch], m), <<>>)
            /\ total_length' = [total_length EXCEPT ![ch] = 0]
            /\ receiveData' = [receiveData EXCEPT ![ch] = D]
            /\ inbox' = [inbox EXCEPT ![ch] = Append(@, m)]
      BY <2>11 DEF ServerDelivers, a
    <3>2. /\ total_length'[ch] = 0 /\ inbox'[ch] = Append(inbox[ch], m)
          /\ \A c \in Channels : c # ch =>
               /\ inbox'[c] = inbox[c] /\ total_length'[c] = total_length[c]
               /\ receiveData'[c] = receiveData[c]
      BY <2>9, <3>1
    <3>3. Partial(ch)' = <<>>
      BY <3>2 DEF Partial
    <3> QED
      BY <2>7, <2>8, <3>1, <3>2, <3>3
  <2>12. CASE ServerDrops(ch)
    BY <1>2, <2>12 DEF ServerDrops
  <2> QED
    BY <2>2, <2>10, <2>11, <2>12
<1> QED
  BY <1>3, <1>7, <1>8

LEMMA ToServerWriting ==
    ASSUME DvcInv, ClientWriting
    PROVE  ToServer'
<1>1. Shape /\ ToServer /\ ClientSide
  BY DEF DvcInv
<1>2. PICK v \in Writers : WriterStart(v) \/ WriterNext(v)
  BY DEF ClientWriting
<1>3. PICK ch \in Channels, w \in Writes, wr \in Seq(Seq(Units)) :
        ClientSends(v, ch, w, wr)
  BY <1>2, ClientWriteEffect
<1> DEFINE x == Fragment(w)
           n == AfterFragment(w)
<1>4. /\ x \in Pdus /\ x.ch = ch /\ x.cmd \in Data /\ IsPiece(x, wr)
      /\ At(x) = w.rest[1] /\ NextOf(n, wr) = After(x, wr) /\ n \in Writes
      /\ n = Idle \/ Midway(n, ch, wr)
  BY <1>3, FragmentPiece DEF ClientSends
<1>5. /\ cwritten' = [cwritten EXCEPT ![ch] = wr]
      /\ writing' = [writing EXCEPT ![v] = n]
      /\ Send(<<x>>)
      /\ Extends(cwritten[ch], wr) /\ Numbered(wr)
      /\ UNCHANGED <<peer, inbox, total_length, receiveData, dvc_open_state>>
  BY <1>3 DEF ClientSends, WriterSend, server
<1>6. /\ cwritten \in [Channels -> Seq(Seq(Units))]
      /\ writing \in [Writers -> Writes] /\ toServer \in Seq(Pdus)
      /\ inbox \in [Channels -> Seq(Seq(Units))]
      /\ total_length \in [Channels -> Nat]
      /\ receiveData \in [Channels -> Seq(Units)]
  BY <1>1 DEF Shape
<1>7. SUFFICES ASSUME peer = "up", NEW c \in Listed
               PROVE  FlowsBack(c)'
  <2>1. Listed' = Listed
    BY <1>5 DEF Listed, Channels
  <2> QED
    BY <1>5, <2>1 DEF ToServer
<1>8. /\ c \in Channels /\ FlowsBack(c) /\ UNCHANGED Partial(c)
  BY <1>1, <1>5, <1>7 DEF ToServer, Listed, Partial
<1>9. toServer' = Append(toServer, x)
  BY <1>4, <1>5, <1>6, <1>7, WriterSendFacts
<1>10. /\ writing'[v] = n /\ n.ch \in {0, ch}
       /\ \A u \in Writers : u # v => writing'[u] = writing[u]
  <2> HIDE DEF x, n
  <2>1. n.ch \in {0, ch}
    <3>1. CASE n = Idle
      BY <3>1 DEF Idle
    <3>2. CASE Midway(n, ch, wr)
      BY <3>2 DEF Midway, InLast
    <3> QED
      BY <1>4, <3>1, <3>2
  <2> QED
    BY <1>5, <1>6, <2>1
<1>11. \/ writing[v].ch = 0 /\ LockFree(ch) /\ At(x) = Fresh(cwritten[ch])
       \/ w = writing[v] /\ writing[v].ch = ch
  <2>1. \/ writing[v] = Idle /\ LockFree(ch) /\ w.rest[1] = Fresh(cwritten[ch])
        \/ w = writing[v]
    BY <1>3 DEF ClientSends
  <2>2. w.ch = ch
    BY <1>3 DEF ClientSends, InLast
  <2> QED
    BY <1>4, <2>1, <2>2 DEF Idle
<1> DEFINE r == Expects(inbox[c], Partial(c))
<1>12. /\ Chain(toServer, c, cwritten[c], r)
       /\ \A u \in Writers :
            writing[u].ch = c =>
              EndsAt(toServer, c, cwritten[c], r, writing[u].rest[1])
       /\ LockFree(c) =>
            EndsAt(toServer, c, cwritten[c], r, Fresh(cwritten[c]))
  BY <1>8 DEF FlowsBack
<1>13. Expects(inbox'[c], Partial(c)') = r
  BY <1>5, <1>8
<1>14. r \in Units
  <2>1. inbox[c] \in Seq(Seq(Units)) /\ Partial(c) \in Seq(Units)
    BY <1>6, <1>8 DEF Partial
  <2> QED
    BY <2>1, ExpectsUnits
<1> HIDE DEF r, x, n
<1>15. c \in Channels /\ c # 0
  BY <1>8 DEF Channels
<1>16. CASE c # ch
  <2>1. cwritten'[c] = cwritten[c]
    BY <1>5, <1>6, <1>8, <1>16
  <2>2. \A u \in Writers : writing'[u].ch = c => u # v /\ writing[u] = writing'[u]
    BY <1>10, <1>15, <1>16
  <2>3. LockFree(c)' => LockFree(c)
    <3>1. writing[v].ch # c
      BY <1>11, <1>15, <1>16
    <3> QED
      BY <1>10, <3>1 DEF LockFree
  <2>4. /\ \A s : Chain(toServer, c, cwritten[c], s) =>
                    Chain(toServer', c, cwritten[c], s)
        /\ \A s, t : EndsAt(toServer, c, cwritten[c], s, t) =>
                       EndsAt(toServer', c, cwritten[c], s, t)
    BY <1>4, <1>6, <1>9, <1>16, StreamAppendOther
  <2>5. /\ Chain(toServer', c, cwritten'[c], r)
        /\ \A u \in Writers :
             writing'[u].ch = c =>
               EndsAt(toServer', c, cwritten'[c], r, writing'[u].rest[1])
        /\ LockFree(c)' =>
             EndsAt(toServer', c, cwritten'[c], r, Fresh(cwritten'[c]))
    BY <1>12, <2>1, <2>2, <2>3, <2>4
  <2> QED
    BY <1>13, <2>5 DEF FlowsBack
<1>17. CASE c = ch
  <2>1. cwritten'[c] = wr /\ Pieces(toServer, c, cwritten[c])
    BY <1>1, <1>5, <1>6, <1>8, <1>17 DEF ClientSide
  <2>2. EndsAt(toServer, c, cwritten[c], r, At(x))
    BY <1>4, <1>11, <1>12, <1>17
  <2>3. cwritten[c] \in Seq(Seq(Units)) /\ Extends(cwritten[c], wr)
    BY <1>5, <1>6, <1>8, <1>17
  <2>4. /\ Pieces(toServer, c, wr) /\ Chain(toServer, c, wr, r)
        /\ EndsAt(toServer, c, wr, r, At(x))
    BY <1>6, <1>12, <2>1, <2>2, <2>3, ExtendsStream
  <2>5. /\ Chain(toServer', c, wr, r)
        /\ EndsAt(toServer', c, wr, r, After(x, wr))
    BY <1>4, <1>6, <1>9, <1>14, <1>17, <2>4, StreamAdd
  <2>6. ASSUME NEW u \in Writers, writing'[u].ch = c
        PROVE  writing'[u].rest[1] = After(x, wr)
    <3>1. u = v
      <4>1. SUFFICES ASSUME u # v PROVE FALSE
        OBVIOUS
      <4>2. writing[u].ch = ch
        BY <1>10, <1>17, <2>6, <4>1
      <4>3. ~LockFree(ch)
        BY <4>2 DEF LockFree
      <4>4. writing[v].ch = ch
        BY <1>11, <4>3
      <4> QED
        BY <1>1, <1>15, <1>17, <4>1, <4>2, <4>4 DEF ClientSide
    <3>2. writing'[u] = n /\ n # Idle
      BY <1>10, <1>15, <2>6, <3>1 DEF Idle
    <3>3. n.rest # <<>>
      BY <1>4, <3>2 DEF Midway, InLast
    <3> QED
      BY <1>4, <3>2, <3>3 DEF NextOf
  <2>7. LockFree(c)' => Fresh(wr) = After(x, wr)
    <3>1. SUFFICES ASSUME LockFree(c)' PROVE Fresh(wr) = After(x, wr)
      OBVIOUS
    <3>2. n.ch # ch
      BY <1>10, <1>17, <3>1 DEF LockFree
    <3>3. n = Idle
      BY <1>4, <3>2 DEF Midway, InLast
    <3> QED
      BY <1>4, <3>3 DEF NextOf, Idle
  <2>8. /\ Chain(toServer', c, cwritten'[c], r)
        /\ \A u \in Writers :
             writing'[u].ch = c =>
               EndsAt(toServer', c, cwritten'[c], r, writing'[u].rest[1])
        /\ LockFree(c)' =>
             EndsAt(toServer', c, cwritten'[c], r, Fresh(cwritten'[c]))
    BY <2>1, <2>5, <2>6, <2>7
  <2> QED
    BY <1>13, <2>8 DEF FlowsBack
<1> QED
  BY <1>16, <1>17

LEMMA ToServerInvStep ==
    ASSUME DvcInv, Next
    PROVE  ToServer'
<1>1. Shape /\ Ending
  BY DEF DvcInv
<1>2. CASE ManagerOpen \/ ServerWriting \/ \E ch \in Channels : ServerClose(ch)
  <2>1. /\ UNCHANGED <<peer, inbox, total_length, receiveData, toServer, client>>
        /\ UNCHANGED dvc_open_state \/ \E ch \in Channels : ServerClose(ch)
    BY <1>2 DEF ManagerOpen, ServerWriting, ServerWrite, ServerWriteNext,
       ServerSend, ServerClose
  <2>2. UNCHANGED <<writing, cwritten>> /\ AddsAnswers(toServer, toServer', Known)
    BY <2>1 DEF client, AddsAnswers
  <2>3. Listed' \subseteq Listed
    <3>1. CASE UNCHANGED dvc_open_state
      BY <3>1 DEF Listed, Channels
    <3>2. ASSUME NEW ch \in Channels, ServerClose(ch)
          PROVE  Listed' \subseteq Listed
      <4>1. /\ dvc_open_state \in [Channels -> OpenStates] /\ ch \in Listed
            /\ dvc_open_state' = [dvc_open_state EXCEPT ![ch] =
                                    IF @ = "NONE" THEN "ABANDONED" ELSE "FREED"]
        BY <1>1, <3>2 DEF Shape, ServerClose
      <4>2. \A c \in Channels : c # ch => dvc_open_state'[c] = dvc_open_state[c]
        BY <4>1
      <4> QED
        BY <4>1, <4>2 DEF Listed, Channels
    <3> QED
      BY <2>1, <3>1, <3>2
  <2> QED
    BY <2>1, <2>2, <2>3, ToServerOther
<1>3. CASE ClientControl
  <2>1. /\ AddsAnswers(toServer, toServer', Known)
        /\ UNCHANGED <<server, writing, cwritten>>
    BY <1>1, <1>3, ControlFrame
  <2>2. /\ UNCHANGED <<peer, inbox, total_length, receiveData, dvc_open_state>>
        /\ UNCHANGED <<writing, cwritten>>
    BY <2>1 DEF server
  <2>3. Listed' \subseteq Listed
    BY <2>2 DEF Listed, Channels
  <2> QED
    BY <2>1, <2>2, <2>3, ToServerOther
<1>4. CASE Disconnect
  BY <1>4 DEF Disconnect, ConnectionLost, ToServer
<1> QED
  BY <1>2, <1>3, <1>4, NextSplit, ToServerOpen, ToServerReceive, ToServerWriting

-----------------------------------------------------------------------------
(***************************************************************************)
(* The control parts of the invariant.                                     *)
(***************************************************************************)

LEMMA EndingStep ==
    ASSUME DvcInv, Next
    PROVE  Ending'
<1>1. Shape /\ Ending /\ Shape'
  BY ShapeStep DEF DvcInv
<1>2. queue \in Seq(Pdus)
  BY <1>1 DEF Shape
<1>3. ASSUME UNCHANGED <<thread, main, open>>, peer' = "up" => peer = "up",
             NEW x \in Pdus, x.cmd # "WMQ_QUIT", queue' = Append(queue, x)
      PROVE  Ending'
  <2>1. /\ DOMAIN queue = 1..Len(queue) /\ DOMAIN queue' = 1..(Len(queue) + 1)
        /\ \A i \in 1..Len(queue) : queue'[i] = queue[i]
        /\ queue'[Len(queue) + 1] = x /\ Len(queue) \in Nat
    BY <1>2, <1>3, AppendFacts
  <2>2. \A i \in DOMAIN queue' : queue'[i] = x \/ \E j \in DOMAIN queue : queue'[i] = queue[j]
    BY <2>1
  <2>3. queue # <<>> => queue' # <<>> /\ queue'[1] = queue[1]
    BY <1>2, <1>3, <2>1
  <2> QED
    BY <1>1, <1>3, <2>2, <2>3 DEF Ending
<1>4. ASSUME UNCHANGED <<thread, main, open, queue>>, peer' = "up" => peer = "up"
      PROVE  Ending'
  BY <1>1, <1>4 DEF Ending
<1>5. CASE ManagerOpen \/ ServerOpen \/ \E ch \in Channels : ServerClose(ch)
  <2>1. UNCHANGED <<thread, main, open, peer>>
    BY <1>5 DEF ManagerOpen, ServerOpen, ServerClose, client
  <2>2. \/ queue' = queue
        \/ \E x \in Pdus : x.cmd # "WMQ_QUIT" /\ queue' = Append(queue, x)
    <3>1. /\ {"CAPABILITY", "CREATE", "CLOSE"} \subseteq Cmds
          /\ 0 \in 0..MaxChannels /\ Channels \subseteq 0..MaxChannels
      BY DynamicChannelsAssumption DEF Cmds, Channels
    <3>2. CASE ManagerOpen
      BY <3>1, <3>2, PduFacts DEF ManagerOpen
    <3>3. CASE ServerOpen
      <4>1. dvc_channel_id_seq' \in 0..MaxChannels
        BY <1>1 DEF Shape
      <4> QED
        BY <3>1, <3>3, <4>1, PduFacts DEF ServerOpen
    <3>4. CASE \E ch \in Channels : ServerClose(ch)
      BY <3>1, <3>4, PduFacts DEF ServerClose
    <3> QED
      BY <1>5, <3>2, <3>3, <3>4
  <2> QED
    BY <1>3, <1>4, <2>1, <2>2
<1>6. CASE ServerWriting
  <2>1. PICK ch \in Channels : ServerWrite(ch) \/ ServerWriteNext(ch)
    BY <1>6 DEF ServerWriting
  <2>2. PICK w \in Writes, wr \in Seq(Seq(Units)) : ServerSends(ch, w, wr)
    BY <2>1, ServerWriteEffect
  <2>3. Fragment(w) \in Pdus /\ Fragment(w).cmd # "WMQ_QUIT"
    BY <2>2, FragmentPiece DEF ServerSends, Data
  <2>4. queue' = Append(queue, Fragment(w)) /\ UNCHANGED <<thread, main, open, peer>>
    BY <2>2 DEF ServerSends, ServerSend, client
  <2> QED
    BY <1>3, <2>3, <2>4
<1>7. CASE ServerReceive \/ ClientWriting
  <2>1. /\ UNCHANGED <<thread, main, open, queue>>
        /\ peer' = "up" => peer = "up"
    BY <1>7 DEF ServerReceive, ClientWriting, WriterStart, WriterNext,
       WriterSend, client, server
  <2> QED
    BY <1>4, <2>1
<1>8. CASE Disconnect
  <2>1. /\ main' = "join" /\ peer' # "up" /\ UNCHANGED <<thread, open>>
    BY <1>8 DEF Disconnect, ConnectionLost
  <2>2. PICK n \in 0..Len(queue) :
          /\ queue' = Append(SubSeq(queue, 1, n), Quit)
          /\ thread = "respond" => n >= 1
    BY <1>1, <1>8, DisconnectFacts
  <2>3. thread = "respond" => queue' # <<>> /\ queue'[1] = queue[1]
    <3>1. SUFFICES ASSUME n >= 1 PROVE queue' # <<>> /\ queue'[1] = queue[1]
      BY <2>2
    <3>2. /\ SubSeq(queue, 1, n) \in Seq(Pdus) /\ Len(SubSeq(queue, 1, n)) = n
          /\ SubSeq(queue, 1, n)[1] = queue[1] /\ n \in Nat
      BY <1>2, <3>1, PrefixFacts
    <3> DEFINE t == SubSeq(queue, 1, n)
    <3> HIDE DEF t
    <3>3. t \in Seq(Pdus) /\ 1 \in 1..Len(t) /\ t[1] = queue[1]
      BY <3>1, <3>2 DEF t
    <3>4. queue'[1] = t[1] /\ queue' \in Seq(Pdus) /\ Len(queue') = Len(t) + 1
      BY <2>2, <3>3, QuitFacts, AppendFacts DEF t
    <3> QED
      BY <3>3, <3>4
  <2> QED
    BY <1>1, <2>1, <2>3 DEF Ending
<1>9. CASE ClientControl
  <2>1. UNCHANGED peer
    BY <1>9, ControlSplit DEF server
  <2>2. ASSUME queue # <<>>, queue' = Tail(queue)
        PROVE  \A i \in DOMAIN queue' : \E j \in DOMAIN queue : queue'[i] = queue[j]
    <3>1. /\ DOMAIN queue' = 1..(Len(queue) - 1) /\ DOMAIN queue = 1..Len(queue)
          /\ \A i \in 1..(Len(queue) - 1) : queue'[i] = queue[i + 1]
          /\ Len(queue) \in Nat
      BY <1>2, <2>2, TailFacts
    <3>2. \A i \in 1..(Len(queue) - 1) : i + 1 \in 1..Len(queue)
      BY <3>1
    <3> QED
      BY <3>1, <3>2
  <2>3. CASE MainJoin
    BY <1>1, <2>1, <2>3 DEF MainJoin, Ending
  <2>4. CASE ThreadAccept
    <3>1. queue # <<>> /\ Head(queue).cmd = "CREATE" /\ queue[1] = Head(queue)
      BY <1>1, <2>4, HeadFacts DEF ThreadAccept
    <3> QED
      BY <1>1, <2>1, <2>4, <3>1 DEF ThreadAccept, Ending
  <2>5. CASE ThreadRespond
    <3>1. /\ queue # <<>> /\ queue' = Tail(queue) /\ thread' = "loop"
          /\ UNCHANGED <<main, open>>
      BY <1>1, <2>5 DEF ThreadRespond, Ending
    <3> QED
      BY <1>1, <2>1, <2>2, <3>1 DEF Ending
  <2>6. CASE ThreadQuit
    <3>1. /\ queue # <<>> /\ Head(queue).cmd = "WMQ_QUIT" /\ thread' = "closing"
          /\ UNCHANGED <<main, open>>
      BY <2>6 DEF ThreadQuit, Take
    <3>2. main # "run"
      BY <1>1, <3>1, HeadFacts DEF Ending
    <3> QED
      BY <1>1, <2>1, <3>1, <3>2 DEF Ending
  <2>7. CASE ThreadEnd
    BY <1>1, <2>1, <2>7 DEF ThreadEnd, Ending
  <2>8. CASE KeepsOpen \/ \E ch \in Channels : Refuses(ch)
    <3>1. /\ queue # <<>> /\ queue' = Tail(queue) /\ thread' = "loop"
          /\ UNCHANGED <<main, open>> /\ thread = "loop"
      BY <2>8 DEF KeepsOpen, Takes, Refuses
    <3> QED
      BY <1>1, <2>1, <2>2, <3>1 DEF Ending
  <2>9. ASSUME NEW ch \in Channels, Removes(ch) PROVE Ending'
    <3>1. /\ ch \in open /\ open' = open \ {ch} /\ UNCHANGED <<thread, main>>
          /\ ~(thread = "respond" /\ Head(queue).ch = ch)
          /\ \/ queue' = queue
             \/ queue # <<>> /\ queue' = Tail(queue) /\ thread = "loop"
      BY <2>9 DEF Removes, RemoveChannel, Takes
    <3>2. thread = "respond" => queue[1].ch \in open'
      BY <1>1, <3>1, HeadFacts DEF Ending
    <3>3. thread = "ended" => open' = {}
      BY <1>1, <3>1 DEF Ending
    <3>4. \A i \in DOMAIN queue' : \E j \in DOMAIN queue : queue'[i] = queue[j]
      BY <2>2, <3>1
    <3>5. thread = "respond" => queue' = queue
      BY <3>1
    <3>6. main = "run" => \A i \in DOMAIN queue' : queue'[i].cmd # "WMQ_QUIT"
      BY <1>1, <3>4 DEF Ending
    <3> QED
      BY <1>1, <2>1, <3>1, <3>2, <3>3, <3>5, <3>6 DEF Ending
  <2> QED
    BY <1>9, <2>3, <2>4, <2>5, <2>6, <2>7, <2>8, <2>9, ControlSplit
<1> QED
  BY <1>5, <1>6, <1>7, <1>8, <1>9, NextSplit

\* Nothing but the server's request brings one into the queue, and nothing but
\* the thread opens a channel: if a step does neither, requests stay as they are.
LEMMA RequestsKept ==
    ASSUME DvcInv, open' \subseteq open,
           \A ch \in Channels : ch \notin open => closes'[ch] = closes[ch],
           NEW n \in Nat,
           \A i \in DOMAIN queue' :
              /\ i \in Nat /\ i >= 1
              /\ queue'[i].cmd \in Data \cup {"CREATE"} =>
                   i + n \in DOMAIN queue /\ queue'[i] = queue[i + n],
           thread = "respond" => n >= 1 \/ thread' = "respond"
    PROVE  Requests'
<1>1. Shape /\ Requests /\ Ending
  BY DEF DvcInv
<1>2. SUFFICES ASSUME NEW i \in DOMAIN queue', queue'[i].cmd = "CREATE"
               PROVE  /\ queue'[i].ch \in Channels
                      /\ ~(thread' = "respond" /\ i = 1) =>
                           queue'[i].ch \notin open' /\ closes'[queue'[i].ch] = 0
                      /\ \A j \in DOMAIN queue' :
                           queue'[j].ch = queue'[i].ch /\ queue'[j].cmd = "CREATE"
                             => j = i
                      /\ \A j \in DataOf(queue', queue'[i].ch) : i < j
  BY DEF Requests, Channels
<1>3. /\ i \in Nat /\ i >= 1 /\ i + n \in DOMAIN queue /\ queue'[i] = queue[i + n]
  BY <1>2
<1> DEFINE k == i + n
<1>4. /\ ~(thread' = "respond" /\ i = 1) => ~(thread = "respond" /\ k = 1)
      /\ k \in Nat
  BY <1>3
<1>5. queue[k].cmd = "CREATE" /\ k \in DOMAIN queue
  BY <1>2, <1>3
<1> HIDE DEF k
<1>6. /\ queue[k].ch \in Channels
      /\ ~(thread = "respond" /\ k = 1) =>
           queue[k].ch \notin open /\ closes[queue[k].ch] = 0
      /\ \A j \in DOMAIN queue :
           queue[j].ch = queue[k].ch /\ queue[j].cmd = "CREATE" => j = k
      /\ \A j \in DataOf(queue, queue[k].ch) : k < j
  BY <1>1, <1>5 DEF Requests
<1>7. queue'[i] = queue[k]
  BY <1>3 DEF k
<1>8. ASSUME NEW j \in DOMAIN queue', queue'[j].ch = queue'[i].ch,
             queue'[j].cmd = "CREATE"
      PROVE  j = i
  <2>1. j \in Nat /\ j + n \in DOMAIN queue /\ queue'[j] = queue[j + n]
    BY <1>8
  <2>2. j + n = k
    BY <1>6, <1>7, <1>8, <2>1
  <2> QED
    BY <1>3, <2>1, <2>2 DEF k
<1>9. ASSUME NEW j \in DataOf(queue', queue'[i].ch)
      PROVE  i < j
  <2>1. /\ j \in DOMAIN queue' /\ queue'[j].ch = queue'[i].ch
        /\ queue'[j].cmd \in Data
    BY <1>9 DEF DataOf
  <2>2. j \in Nat /\ j + n \in DOMAIN queue /\ queue'[j] = queue[j + n]
    BY <2>1
  <2>3. j + n \in DataOf(queue, queue[k].ch)
    BY <1>7, <2>1, <2>2 DEF DataOf
  <2>4. k < j + n
    BY <1>6, <2>3
  <2> QED
    BY <1>3, <2>2, <2>4 DEF k
<1>10. ~(thread' = "respond" /\ i = 1) =>
         queue'[i].ch \notin open' /\ closes'[queue'[i].ch] = 0
  BY <1>4, <1>6, <1>7
<1> QED
  BY <1>6, <1>7, <1>8, <1>9, <1>10

\* Adding a PDU to the queue, if it is a request of a channel not known yet.
LEMMA RequestsAppend ==
    ASSUME DvcInv, UNCHANGED <<thread, open, closes>>, NEW x \in Pdus,
           queue' = Append(queue, x),
           x.cmd = "CREATE" =>
             /\ x.ch \in Channels /\ x.ch \notin open /\ closes[x.ch] = 0
             /\ ~Carries(queue, x.ch, Cmds)
    PROVE  Requests'
<1>1. Shape /\ Requests /\ Ending /\ queue \in Seq(Pdus)
  BY DEF DvcInv, Shape
<1> DEFINE l == Len(queue)
<1>2. /\ DOMAIN queue' = 1..(l + 1) /\ \A i \in 1..l : queue'[i] = queue[i]
      /\ queue'[l + 1] = x /\ l \in Nat /\ DOMAIN queue = 1..l
  BY <1>1, AppendFacts
<1> HIDE DEF l
<1>3. \A i \in DOMAIN queue' :
        \/ i \in DOMAIN queue /\ queue'[i] = queue[i]
        \/ i = l + 1 /\ queue'[i] = x
  BY <1>2
<1>4. SUFFICES ASSUME NEW i \in DOMAIN queue', queue'[i].cmd = "CREATE"
               PROVE  /\ queue'[i].ch \in Channels
                      /\ ~(thread' = "respond" /\ i = 1) =>
                           queue'[i].ch \notin open' /\ closes'[queue'[i].ch] = 0
                      /\ \A j \in DOMAIN queue' :
                           queue'[j].ch = queue'[i].ch /\ queue'[j].cmd = "CREATE"
                             => j = i
                      /\ \A j \in DataOf(queue', queue'[i].ch) : i < j
  BY DEF Requests, Channels
<1>5. CASE i \in DOMAIN queue /\ queue'[i] = queue[i]
  <2>1. /\ queue[i].ch \in Channels
        /\ ~(thread = "respond" /\ i = 1) =>
             queue[i].ch \notin open /\ closes[queue[i].ch] = 0
        /\ \A j \in DOMAIN queue :
             queue[j].ch = queue[i].ch /\ queue[j].cmd = "CREATE" => j = i
        /\ \A j \in DataOf(queue, queue[i].ch) : i < j
    BY <1>1, <1>4, <1>5 DEF Requests
  <2>2. ASSUME NEW j \in DOMAIN queue', queue'[j].ch = queue'[i].ch,
               queue'[j].cmd = "CREATE"
        PROVE  j = i
    <3>1. CASE j \in DOMAIN queue /\ queue'[j] = queue[j]
      BY <1>5, <2>1, <2>2, <3>1
    <3>2. CASE queue'[j] = x
      <4>1. ~Carries(queue, queue[i].ch, Cmds)
        BY <1>5, <2>2, <3>2
      <4> QED
        BY <1>4, <1>5, <4>1 DEF Carries, Cmds
    <3> QED
      BY <1>3, <3>1, <3>2
  <2>3. ASSUME NEW j \in DataOf(queue', queue'[i].ch)
        PROVE  i < j
    <3>1. /\ j \in DOMAIN queue' /\ queue'[j].ch = queue[i].ch
          /\ queue'[j].cmd \in Data
      BY <1>5, <2>3 DEF DataOf
    <3>2. CASE j \in DOMAIN queue /\ queue'[j] = queue[j]
      BY <2>1, <3>1, <3>2 DEF DataOf
    <3>3. CASE j = l + 1
      BY <1>2, <1>5, <3>3
    <3> QED
      BY <1>3, <3>1, <3>2, <3>3
  <2> QED
    BY <1>5, <2>1, <2>2, <2>3
<1>6. CASE i = l + 1 /\ queue'[i] = x
  <2>1. /\ x.ch \in Channels /\ x.ch \notin open /\ closes[x.ch] = 0
        /\ ~Carries(queue, x.ch, Cmds)
    BY <1>4, <1>6
  <2>2. ASSUME NEW j \in DOMAIN queue', queue'[j].ch = x.ch
        PROVE  j = i
    <3>1. CASE j \in DOMAIN queue /\ queue'[j] = queue[j]
      <4>1. queue[j].cmd \in Cmds
        <5>1. queue[j] \in Pdus
          BY <1>1, <3>1
        <5> QED
          BY <5>1 DEF Pdus
      <4> QED
        BY <2>1, <2>2, <3>1, <4>1 DEF Carries
    <3> QED
      BY <1>3, <1>6, <3>1
  <2>3. DataOf(queue', x.ch) = {}
    <3>1. x.cmd \notin Data
      BY <1>4, <1>6 DEF Data
    <3> QED
      BY <1>6, <2>2, <3>1 DEF DataOf
  <2> QED
    BY <1>6, <2>1, <2>2, <2>3
<1> QED
  BY <1>3, <1>5, <1>6

LEMMA RequestsStep ==
    ASSUME DvcInv, Next
    PROVE  Requests'
<1>1. Shape /\ Ending /\ Requests /\ Unused /\ queue \in Seq(Pdus)
  BY DEF DvcInv, Shape
<1>2. ASSUME queue' = queue, open' \subseteq open, thread = "respond" => thread' = "respond",
             \A ch \in Channels : ch \notin open => closes'[ch] = closes[ch]
      PROVE  Requests'
  <2>1. \A i \in DOMAIN queue' :
          /\ i \in Nat /\ i >= 1
          /\ i + 0 \in DOMAIN queue /\ queue'[i] = queue[i + 0]
    BY <1>1, <1>2
  <2>2. 0 \in Nat
    OBVIOUS
  <2> QED
    BY <1>2, <2>1, <2>2, RequestsKept
<1>3. ASSUME queue # <<>>, queue' = Tail(queue), open' \subseteq open,
             \A ch \in Channels : ch \notin open => closes'[ch] = closes[ch]
      PROVE  Requests'
  <2>1. /\ DOMAIN queue' = 1..(Len(queue) - 1) /\ DOMAIN queue = 1..Len(queue)
        /\ \A i \in 1..(Len(queue) - 1) : queue'[i] = queue[i + 1]
        /\ Len(queue) \in Nat
    BY <1>1, <1>3, TailFacts
  <2>2. \A i \in DOMAIN queue' :
          /\ i \in Nat /\ i >= 1
          /\ i + 1 \in DOMAIN queue /\ queue'[i] = queue[i + 1]
    BY <2>1
  <2>3. 1 \in Nat /\ 1 >= 1
    OBVIOUS
  <2> QED
    BY <1>3, <2>2, <2>3, RequestsKept
<1>4. ASSUME UNCHANGED <<thread, open, closes>>, NEW x \in Pdus,
             queue' = Append(queue, x), x.cmd # "CREATE"
      PROVE  Requests'
  BY <1>4, RequestsAppend
<1>5. CASE ManagerOpen \/ ServerOpen \/ \E ch \in Channels : ServerClose(ch)
  <2>1. UNCHANGED <<thread, open, closes>>
    BY <1>5 DEF ManagerOpen, ServerOpen, ServerClose, client
  <2>2. /\ {"CAPABILITY", "CREATE", "CLOSE"} \subseteq Cmds
        /\ 0 \in 0..MaxChannels /\ Channels \subseteq 0..MaxChannels
    BY DynamicChannelsAssumption DEF Cmds, Channels
  <2>3. CASE ManagerOpen
    <3>1. Pdu("CAPABILITY", 0) \in Pdus /\ Pdu("CAPABILITY", 0).cmd # "CREATE"
      BY <2>2, PduFacts
    <3> QED
      BY <1>4, <2>1, <2>3, <3>1 DEF ManagerOpen
  <2>4. CASE ServerOpen
    <3>1. PICK n \in Channels : n = dvc_channel_id_seq + 1
      BY <1>1, <2>4, DynamicChannelsAssumption DEF ServerOpen, Shape, Channels
    <3>2. n > dvc_channel_id_seq
      BY <1>1, <3>1 DEF Shape
    <3>3. n \notin open /\ closes[n] = 0 /\ ~Carries(queue, n, Cmds)
      BY <1>1, <3>2 DEF Unused, Untouched
    <3>4. Pdu("CREATE", n) \in Pdus /\ Pdu("CREATE", n).ch = n
      BY <2>2, PduFacts
    <3>5. queue' = Append(queue, Pdu("CREATE", n))
      BY <2>4, <3>1 DEF ServerOpen
    <3> QED
      BY <2>1, <3>3, <3>4, <3>5, RequestsAppend
  <2>5. CASE \E ch \in Channels : ServerClose(ch)
    <3>1. PICK ch \in Channels : ServerClose(ch)
      BY <2>5
    <3>2. Pdu("CLOSE", ch) \in Pdus /\ Pdu("CLOSE", ch).cmd # "CREATE"
      BY <2>2, PduFacts
    <3>3. queue' = queue \/ queue' = Append(queue, Pdu("CLOSE", ch))
      BY <3>1 DEF ServerClose
    <3> QED
      BY <1>2, <1>4, <2>1, <3>2, <3>3
  <2> QED
    BY <1>5, <2>3, <2>4, <2>5
<1>6. CASE ServerWriting
  <2>1. PICK ch \in Channels : ServerWrite(ch) \/ ServerWriteNext(ch)
    BY <1>6 DEF ServerWriting
  <2>2. PICK w \in Writes, wr \in Seq(Seq(Units)) : ServerSends(ch, w, wr)
    BY <2>1, ServerWriteEffect
  <2>3. Fragment(w) \in Pdus /\ Fragment(w).cmd # "CREATE"
    BY <2>2, FragmentPiece DEF ServerSends, Data
  <2>4. queue' = Append(queue, Fragment(w)) /\ UNCHANGED <<thread, open, closes>>
    BY <2>2 DEF ServerSends, ServerSend, client
  <2> QED
    BY <1>4, <2>3, <2>4
<1>7. CASE ServerReceive \/ ClientWriting
  <2>1. UNCHANGED <<thread, open, closes, queue>>
    BY <1>7 DEF ServerReceive, ClientWriting, WriterStart, WriterNext,
       WriterSend, client
  <2> QED
    BY <1>2, <2>1
<1>8. CASE Disconnect
  <2>1. UNCHANGED <<thread, open, closes>>
    BY <1>8 DEF Disconnect
  <2>2. PICK n \in 0..Len(queue) : queue' = Append(SubSeq(queue, 1, n), Quit)
    BY <1>1, <1>8, DisconnectFacts
  <2> DEFINE t == SubSeq(queue, 1, n)
  <2>3. /\ t \in Seq(Pdus) /\ Len(t) = n /\ n \in Nat /\ n <= Len(queue)
        /\ \A i \in 1..n : t[i] = queue[i]
        /\ Len(queue) \in Nat /\ DOMAIN queue = 1..Len(queue)
    BY <1>1, PrefixFacts
  <2> HIDE DEF t
  <2>4. /\ DOMAIN queue' = 1..(n + 1) /\ queue'[n + 1] = Quit
        /\ \A i \in 1..n : queue'[i] = t[i]
    BY <2>2, <2>3, QuitFacts, AppendFacts DEF t
  <2>5. ASSUME NEW i \in DOMAIN queue', queue'[i].cmd \in Data \cup {"CREATE"}
        PROVE  i + 0 \in DOMAIN queue /\ queue'[i] = queue[i + 0]
    <3>1. i # n + 1
      BY <2>4, <2>5, QuitFacts DEF Data
    <3>2. i \in 1..n
      BY <2>3, <2>4, <3>1
    <3> QED
      BY <2>3, <2>4, <3>2
  <2>6. \A i \in DOMAIN queue' : i \in Nat /\ i >= 1
    BY <2>3, <2>4
  <2>7. 0 \in Nat
    OBVIOUS
  <2> QED
    BY <2>1, <2>5, <2>6, <2>7, RequestsKept
<1>9. CASE ClientControl
  <2>1. CASE MainJoin
    BY <2>1 DEF MainJoin, Requests
  <2>2. CASE ThreadAccept
    <3>1. /\ thread = "loop" /\ queue # <<>> /\ Head(queue).cmd = "CREATE"
          /\ thread' = "respond" /\ open' = open \cup {Head(queue).ch}
          /\ UNCHANGED <<queue, closes>>
      BY <2>2 DEF ThreadAccept
    <3>2. 1 \in DOMAIN queue /\ queue[1] = Head(queue)
      BY <1>1, <3>1, HeadFacts
    <3>3. \A i \in DOMAIN queue :
            queue[i].cmd = "CREATE" /\ queue[i].ch = queue[1].ch => i = 1
      BY <1>1, <3>1, <3>2 DEF Requests
    <3>4. \A i \in DOMAIN queue :
            queue[i].cmd = "CREATE" /\ i # 1 => queue[i].ch \notin open'
      BY <1>1, <3>1, <3>2, <3>3 DEF Requests
    <3> QED
      BY <1>1, <3>1, <3>4 DEF Requests, Channels
  <2>3. CASE ThreadRespond \/ ThreadQuit
    <3>1. queue # <<>> /\ queue' = Tail(queue) /\ UNCHANGED <<open, closes>>
      BY <1>1, <2>3 DEF ThreadRespond, ThreadQuit, Take, Ending
    <3> QED
      BY <1>3, <3>1
  <2>4. CASE ThreadEnd
    BY <1>2, <2>4 DEF ThreadEnd
  <2>5. CASE KeepsOpen \/ \E ch \in Channels : Refuses(ch)
    <3>1. queue # <<>> /\ queue' = Tail(queue) /\ UNCHANGED <<open, closes>>
      BY <2>5 DEF KeepsOpen, Takes, Refuses
    <3> QED
      BY <1>3, <3>1
  <2>6. ASSUME NEW ch \in Channels, Removes(ch) PROVE Requests'
    <3>1. /\ ch \in open /\ open' = open \ {ch} /\ UNCHANGED thread
          /\ \A c \in Channels : c # ch => closes'[c] = closes[c]
          /\ queue' = queue \/ (queue # <<>> /\ queue' = Tail(queue))
      BY <1>1, <2>6, RemoveFacts DEF Removes, Takes
    <3>2. \A c \in Channels : c \notin open => closes'[c] = closes[c]
      BY <3>1
    <3> QED
      BY <1>2, <1>3, <3>1, <3>2
  <2> QED
    BY <1>9, <2>1, <2>2, <2>3, <2>4, <2>5, <2>6, ControlSplit
<1> QED
  BY <1>5, <1>6, <1>7, <1>8, <1>9, NextSplit

-----------------------------------------------------------------------------
(***************************************************************************)
(* Channels that have not been opened.                                     *)
(***************************************************************************)

\* A channel whose number has not been given is not known to the client.
LEMMA UnusedUnknown ==
    ASSUME DvcInv, NEW ch \in Channels, ch > dvc_channel_id_seq
    PROVE  Untouched(ch) /\ ch \notin Known /\ ch \notin Listed
<1>1. Shape /\ Untouched(ch)
  BY DEF DvcInv, Unused
<1>2. queue \in Seq(Pdus) /\ ~Carries(queue, ch, Cmds)
  BY <1>1 DEF Shape, Untouched
<1>3. ASSUME NEW i \in DOMAIN queue PROVE queue[i].ch # ch
  <2>1. queue[i] \in Pdus
    BY <1>2
  <2>2. queue[i].cmd \in Cmds
    BY <2>1 DEF Pdus
  <2> QED
    BY <1>2, <2>2 DEF Carries
<1>4. ch # 0 /\ ch \notin open
  BY <1>1 DEF Channels, Untouched
<1>5. ch \notin Listed
  BY <1>1 DEF Untouched, Listed
<1> QED
  BY <1>1, <1>3, <1>4, <1>5 DEF Known

\* The state of the server's part of a channel.
Quiet(ch) ==
    /\ dvc_open_state'[ch] = dvc_open_state[ch] /\ swritten'[ch] = swritten[ch]
    /\ sending'[ch] = sending[ch] /\ total_length'[ch] = total_length[ch]

LEMMA UntouchedServer ==
    ASSUME DvcInv, NEW c \in Channels, c > dvc_channel_id_seq', ServerNext
    PROVE  Untouched(c)'
<1>1. Shape /\ Unused
  BY DEF DvcInv
<1>2. /\ queue \in Seq(Pdus) /\ toServer \in Seq(Pdus)
      /\ dvc_open_state \in [Channels -> OpenStates]
      /\ total_length \in [Channels -> Nat] /\ sending \in [Channels -> Writes]
      /\ swritten \in [Channels -> Seq(Seq(Units))]
      /\ dvc_channel_id_seq \in 0..MaxChannels /\ c # 0
  BY <1>1 DEF Shape, Channels
<1>3. c > dvc_channel_id_seq
  <2>1. dvc_channel_id_seq' \in {dvc_channel_id_seq, dvc_channel_id_seq + 1}
    BY DEF ServerNext, ManagerOpen, ServerOpen, ServerWrite, ServerWriteNext,
       ServerSend, ServerClose, ServerReceive
  <2> QED
    BY <1>2, <2>1 DEF Channels
<1>4. Untouched(c) /\ c \notin Known /\ c \notin Listed
  BY <1>3, UnusedUnknown
<1>5. ASSUME Quiet(c), UNCHANGED client, NEW x \in Pdus, x.ch # c,
             queue' = queue \/ queue' = Append(queue, x), UNCHANGED toServer
      PROVE  Untouched(c)'
  <2>1. ~Carries(queue', c, Cmds)
    <3>1. ~Carries(queue, c, Cmds)
      BY <1>4 DEF Untouched
    <3>2. ~Carries(Append(queue, x), c, Cmds)
      BY <1>2, <1>5, <3>1, CarriesAppend
    <3> QED
      BY <1>5, <3>1, <3>2
  <2> QED
    BY <1>4, <1>5, <2>1 DEF Untouched, Quiet, client, LockFree
<1>6. /\ {"CAPABILITY", "CREATE", "CLOSE"} \subseteq Cmds
      /\ 0 \in 0..MaxChannels /\ Channels \subseteq 0..MaxChannels
  BY DynamicChannelsAssumption DEF Cmds, Channels
<1>7. CASE ManagerOpen
  <2>1. Pdu("CAPABILITY", 0) \in Pdus /\ Pdu("CAPABILITY", 0).ch # c
    BY <1>2, <1>6, PduFacts
  <2>2. Quiet(c) /\ UNCHANGED <<toServer, client>>
        /\ queue' = Append(queue, Pdu("CAPABILITY", 0))
    BY <1>7 DEF ManagerOpen, Quiet
  <2> QED
    BY <1>5, <2>1, <2>2
<1>8. CASE ServerOpen
  <2>1. PICK n \in Channels : n = dvc_channel_id_seq'
    BY <1>2, <1>8, DynamicChannelsAssumption DEF ServerOpen, Channels
  <2>2. n # c /\ Pdu("CREATE", n) \in Pdus /\ Pdu("CREATE", n).ch = n
    BY <1>6, <2>1, PduFacts DEF Channels
  <2>3. /\ dvc_open_state' = [dvc_open_state EXCEPT ![n] = "NONE"]
        /\ queue' = Append(queue, Pdu("CREATE", n))
        /\ UNCHANGED <<sending, total_length, swritten, toServer, client>>
    BY <1>8, <2>1 DEF ServerOpen
  <2>4. Quiet(c)
    BY <1>2, <2>2, <2>3 DEF Quiet
  <2> QED
    BY <1>5, <2>2, <2>3, <2>4
<1>9. ASSUME NEW ch \in Channels, ServerWrite(ch) \/ ServerWriteNext(ch)
      PROVE  Untouched(c)'
  <2>1. PICK w \in Writes, wr \in Seq(Seq(Units)) : ServerSends(ch, w, wr)
    BY <1>9, ServerWriteEffect
  <2>2. ch # c
    BY <1>4, <1>9 DEF ServerWrite, ServerWriteNext, Untouched
  <2>3. Fragment(w) \in Pdus /\ Fragment(w).ch = ch
    BY <2>1, FragmentPiece DEF ServerSends
  <2>4. /\ queue' = Append(queue, Fragment(w))
        /\ sending' = [sending EXCEPT ![ch] = AfterFragment(w)]
        /\ swritten' = [swritten EXCEPT ![ch] = wr]
        /\ UNCHANGED <<dvc_open_state, total_length, toServer, client>>
    BY <2>1 DEF ServerSends, ServerSend
  <2>5. Quiet(c)
    BY <1>2, <2>2, <2>4 DEF Quiet
  <2> QED
    BY <1>5, <2>2, <2>3, <2>4, <2>5
<1>10. ASSUME NEW ch \in Channels, ServerClose(ch)
       PROVE  Untouched(c)'
  <2>1. ch # c /\ Pdu("CLOSE", ch) \in Pdus /\ Pdu("CLOSE", ch).ch = ch
    BY <1>4, <1>6, <1>10, PduFacts DEF ServerClose
  <2>2. PICK s : dvc_open_state' = [dvc_open_state EXCEPT ![ch] = s]
    BY <1>10 DEF ServerClose
  <2>3. /\ queue' = queue \/ queue' = Append(queue, Pdu("CLOSE", ch))
        /\ UNCHANGED <<sending, swritten, total_length, toServer, client>>
    BY <1>10 DEF ServerClose
  <2>4. Quiet(c)
    BY <1>2, <2>1, <2>2, <2>3 DEF Quiet
  <2> QED
    BY <1>5, <2>1, <2>3, <2>4
<1>11. CASE ServerReceive
  <2> DEFINE p == Head(toServer)
  <2>1. /\ toServer # <<>> /\ UNCHANGED <<sending, swritten, queue, client>>
        /\ toServer' = IF peer' = "up" THEN Tail(toServer) ELSE <<>>
        /\ Ignores(p) \/ TakesAnswer(p) \/ TakesPiece(p)
    BY <1>11, ServerReceiveEffect
  <2>2. ~Carries(toServer', c, Cmds)
    <3>1. ~Carries(toServer, c, Cmds)
      BY <1>4 DEF Untouched
    <3> QED
      BY <1>2, <2>1, <3>1, CarriesTail, CarriesEmpty
  <2> HIDE DEF p
  <2>3. dvc_open_state'[c] = dvc_open_state[c] /\ total_length'[c] = total_length[c]
    <3>1. CASE Ignores(p)
      BY <3>1 DEF Ignores
    <3>2. CASE TakesAnswer(p)
      <4>1. PICK s : dvc_open_state' = [dvc_open_state EXCEPT ![p.ch] = s]
        BY <3>2 DEF TakesAnswer, ReadOpenState
      <4>2. p.ch # c /\ UNCHANGED total_length
        BY <1>4, <3>2 DEF TakesAnswer, ReadOpenState
      <4> QED
        BY <1>2, <4>1, <4>2
    <3>3. CASE TakesPiece(p)
      <4>1. UNCHANGED dvc_open_state /\ p.ch # c
        BY <1>4, <3>3 DEF TakesPiece
      <4>2. PICK l : total_length' = [total_length EXCEPT ![p.ch] = l]
        BY <3>3 DEF TakesPiece, ServerStores, ServerDelivers, ServerDrops
      <4> QED
        BY <1>2, <4>1, <4>2
    <3> QED
      BY <2>1, <3>1, <3>2, <3>3
  <2> QED
    BY <1>4, <2>1, <2>2, <2>3 DEF Untouched, client, LockFree
<1> QED
  BY <1>7, <1>8, <1>9, <1>10, <1>11 DEF ServerNext

LEMMA UntouchedClient ==
    ASSUME DvcInv, NEW c \in Channels, c > dvc_channel_id_seq,
           Disconnect \/ ClientControl \/ ClientWriting
    PROVE  Untouched(c)'
<1>1. Shape /\ Ending /\ ClientSide
  BY DEF DvcInv
<1>2. /\ queue \in Seq(Pdus) /\ toServer \in Seq(Pdus) /\ c # 0
      /\ cwritten \in [Channels -> Seq(Seq(Units))]
      /\ writing \in [Writers -> Writes]
  BY <1>1 DEF Shape, Channels
<1>3. Untouched(c) /\ c \notin Known
  BY UnusedUnknown
<1>4. CASE Disconnect
  <2>1. /\ toServer' = <<>>
        /\ UNCHANGED <<dvc_open_state, open, closes, swritten, cwritten, sending,
                       writing, total_length>>
    BY <1>4 DEF Disconnect, ConnectionLost
  <2>2. PICK n \in 0..Len(queue) : queue' = Append(SubSeq(queue, 1, n), Quit)
    BY <1>1, <1>4, DisconnectFacts
  <2>3. ~Carries(queue', c, Cmds)
    <3>1. SubSeq(queue, 1, n) \in Seq(Pdus)
      BY <1>2, PrefixFacts
    <3>2. ~Carries(SubSeq(queue, 1, n), c, Cmds)
      BY <1>2, <1>3, CarriesPrefix DEF Untouched
    <3> QED
      BY <1>2, <2>2, <3>1, <3>2, QuitFacts, CarriesAppend
  <2>4. ~Carries(toServer', c, Cmds)
    BY <2>1, CarriesEmpty
  <2> QED
    BY <1>3, <2>1, <2>3, <2>4 DEF Untouched, LockFree
<1>5. CASE ClientControl
  <2>1. /\ UNCHANGED <<server, writing, cwritten>>
        /\ AddsAnswers(toServer, toServer', Known)
        /\ c \notin open' /\ closes'[c] = closes[c]
        /\ \/ queue' = queue
           \/ queue # <<>> /\ queue' = Tail(queue)
           \/ queue' = <<>>
    BY <1>1, <1>3, <1>5, ControlFrame
  <2>2. ~Carries(queue', c, Cmds)
    <3>1. ~Carries(queue, c, Cmds)
      BY <1>3 DEF Untouched
    <3>2. queue # <<>> => ~Carries(Tail(queue), c, Cmds)
      BY <1>2, <3>1, CarriesTail
    <3> QED
      BY <2>1, <3>1, <3>2, CarriesEmpty
  <2>3. ~Carries(toServer', c, Cmds)
    BY <1>2, <1>3, <2>1, AnswersKeepData DEF Untouched
  <2>4. UNCHANGED <<dvc_open_state, swritten, sending, total_length>>
    BY <2>1 DEF server
  <2> QED
    BY <1>3, <2>1, <2>2, <2>3, <2>4 DEF Untouched, LockFree
<1>6. CASE ClientWriting
  <2>1. PICK v \in Writers : WriterStart(v) \/ WriterNext(v)
    BY <1>6 DEF ClientWriting
  <2>2. PICK ch \in Channels, w \in Writes, wr \in Seq(Seq(Units)) :
          ClientSends(v, ch, w, wr)
    BY <2>1, ClientWriteEffect
  <2> DEFINE x == Fragment(w)
             n == AfterFragment(w)
  <2>3. /\ x \in Pdus /\ x.ch = ch
        /\ n = Idle \/ Midway(n, ch, wr)
    BY <2>2, FragmentPiece DEF ClientSends
  <2>4. /\ cwritten' = [cwritten EXCEPT ![ch] = wr]
        /\ writing' = [writing EXCEPT ![v] = n]
        /\ Send(<<x>>)
        /\ UNCHANGED <<server, queue, open, closes>>
    BY <2>2 DEF ClientSends, WriterSend
  <2>5. w.ch = ch /\ (ch \in open \/ w = writing[v])
    BY <2>2 DEF ClientSends, InLast
  <2>6. ch # c
    BY <1>3, <2>5 DEF Untouched, LockFree
  <2>7. toServer' = Append(toServer, x) \/ toServer' = toServer
    BY <1>2, <2>3, <2>4, WriterSendFacts
  <2> HIDE DEF x, n
  <2>8. n.ch # c
    <3>1. CASE n = Idle
      BY <1>2, <3>1 DEF Idle
    <3>2. CASE Midway(n, ch, wr)
      BY <2>6, <3>2 DEF Midway, InLast
    <3> QED
      BY <2>3, <3>1, <3>2
  <2>9. ~Carries(toServer', c, Cmds)
    <3>1. ~Carries(toServer, c, Cmds)
      BY <1>3 DEF Untouched
    <3>2. ~Carries(Append(toServer, x), c, Cmds)
      BY <1>2, <2>3, <2>6, <3>1, CarriesAppend
    <3> QED
      BY <2>7, <3>1, <3>2
  <2>10. LockFree(c)'
    <3>1. \A u \in Writers : writing'[u] = IF u = v THEN n ELSE writing[u]
      BY <1>2, <2>4
    <3> QED
      BY <1>3, <2>8, <3>1 DEF Untouched, LockFree
  <2>11. cwritten'[c] = cwritten[c]
    BY <1>2, <2>4, <2>6
  <2>12. UNCHANGED <<dvc_open_state, swritten, sending, total_length>>
    BY <2>4 DEF server
  <2> QED
    BY <1>3, <2>4, <2>9, <2>10, <2>11, <2>12 DEF Untouched
<1> QED
  BY <1>4, <1>5, <1>6

\* The number of channels, and what is unused, change with ServerOpen only.
LEMMA UnusedStep ==
    ASSUME DvcInv, Next
    PROVE  Unused'
<1>1. Shape /\ Ending /\ Unused
  BY DEF DvcInv
<1>2. /\ dvc_open_state \in [Channels -> OpenStates]
      /\ dvc_channel_id_seq \in 0..MaxChannels
  BY <1>1 DEF Shape
<1>3. Next => ServerNext \/ Disconnect \/ ClientControl \/ ClientWriting
  BY DEF Next, ClientNext, ClientControl, ClientWriting
<1>4. CASE ServerOpen
  <2>1. PICK n \in Channels : n = dvc_channel_id_seq + 1
    BY <1>2, <1>4, DynamicChannelsAssumption DEF ServerOpen, Channels
  <2>2. /\ drdynvc_state' = "READY" /\ dvc_channel_id_seq' = n
        /\ dvc_open_state' = [dvc_open_state EXCEPT ![n] = "NONE"]
    BY <1>4, <2>1 DEF ServerOpen
  <2>3. ASSUME NEW c \in Channels, c > dvc_channel_id_seq' PROVE Untouched(c)'
    BY <1>4, <2>3, UntouchedServer DEF ServerNext
  <2>4. ASSUME NEW c \in Channels, dvc_open_state'[c] = "UNUSED"
        PROVE  c > dvc_channel_id_seq'
    <3>1. c # n /\ dvc_open_state[c] = "UNUSED"
      BY <1>2, <2>2, <2>4
    <3>2. c > dvc_channel_id_seq
      BY <1>1, <3>1 DEF Unused
    <3> QED
      BY <1>2, <2>1, <2>2, <3>1, <3>2 DEF Channels
  <2> QED
    BY <2>2, <2>3, <2>4 DEF Unused, Channels
<1>5. CASE ~ServerOpen
  <2>1. /\ UNCHANGED dvc_channel_id_seq
        /\ drdynvc_state = "READY" => drdynvc_state' = "READY"
        /\ \A c \in Channels :
             dvc_open_state'[c] = "UNUSED" => dvc_open_state[c] = "UNUSED"
    <3>1. CASE ClientControl \/ ClientWriting \/ Disconnect
      <4>1. UNCHANGED <<dvc_channel_id_seq, drdynvc_state, dvc_open_state>>
        <5>1. CASE ClientControl
          BY <1>1, <5>1, ControlFrame DEF server
        <5>2. CASE ClientWriting
          BY <5>2 DEF ClientWriting, WriterStart, WriterNext, WriterSend, server
        <5>3. CASE Disconnect
          BY <5>3 DEF Disconnect, ConnectionLost
        <5> QED
          BY <3>1, <5>1, <5>2, <5>3
      <4> QED
        BY <4>1
    <3>2. CASE ManagerOpen \/ ServerWriting
      BY <3>2 DEF ManagerOpen, ServerWriting, ServerWrite, ServerWriteNext, ServerSend
    <3>3. ASSUME NEW ch \in Channels, ServerClose(ch)
          PROVE  /\ UNCHANGED dvc_channel_id_seq
                 /\ drdynvc_state = "READY" => drdynvc_state' = "READY"
                 /\ \A c \in Channels :
                      dvc_open_state'[c] = "UNUSED" => dvc_open_state[c] = "UNUSED"
      BY <1>2, <3>3 DEF ServerClose
    <3>4. CASE ServerReceive
      <4> DEFINE p == Head(toServer)
      <4>1. /\ UNCHANGED dvc_channel_id_seq
            /\ Ignores(p) \/ TakesAnswer(p) \/ TakesPiece(p)
        BY <3>4, ServerReceiveEffect
      <4> HIDE DEF p
      <4>2. CASE Ignores(p) \/ TakesPiece(p)
        BY <4>1, <4>2 DEF Ignores, TakesPiece
      <4>3. CASE TakesAnswer(p)
        <5>1. p.ch \in Channels
          BY <4>3 DEF TakesAnswer, Listed
        <5>2. PICK s \in {"SUCCEEDED", "FAILED", "CLOSED"} :
                dvc_open_state' = [dvc_open_state EXCEPT ![p.ch] = s]
          BY <4>3 DEF TakesAnswer, ReadOpenState
        <5>3. UNCHANGED drdynvc_state
          BY <4>3 DEF TakesAnswer
        <5> QED
          BY <1>2, <4>1, <5>1, <5>2, <5>3
      <4> QED
        BY <4>1, <4>2, <4>3
    <3> QED
      BY <1>5, <3>1, <3>2, <3>3, <3>4, NextSplit
  <2>2. ASSUME NEW c \in Channels, c > dvc_channel_id_seq' PROVE Untouched(c)'
    BY <1>3, <2>1, <2>2, UntouchedServer, UntouchedClient
  <2>3. dvc_channel_id_seq > 0 => drdynvc_state' = "READY"
    BY <1>1, <2>1 DEF Unused
  <2>4. \A c \in Channels :
          dvc_open_state'[c] = "UNUSED" => c > dvc_channel_id_seq
    BY <1>1, <2>1 DEF Unused
  <2> QED
    BY <2>1, <2>2, <2>3, <2>4 DEF Unused, Channels
<1> QED
  BY <1>4, <1>5

-----------------------------------------------------------------------------
(***************************************************************************)
(* The client's answers.                                                   *)
(***************************************************************************)

LEMMA OpenChange ==
    ASSUME DvcInv, Next
    PROVE  \/ UNCHANGED <<open, closes>>
           \/ ThreadAccept
           \/ \E ch \in Channels : Removes(ch)
<1>1. Shape /\ Ending
  BY DEF DvcInv
<1>2. CASE ~ClientControl
  <2>1. \/ ManagerOpen \/ ServerOpen \/ ServerWriting \/ ServerReceive
        \/ \E ch \in Channels : ServerClose(ch)
        \/ Disconnect \/ ClientWriting
    BY <1>2, NextSplit
  <2>2. CASE Disconnect \/ ClientWriting
    BY <2>2 DEF Disconnect, ClientWriting, WriterStart, WriterNext, WriterSend
  <2>3. CASE ManagerOpen \/ ServerOpen \/ ServerReceive
    BY <2>3 DEF ManagerOpen, ServerOpen, ServerReceive, client
  <2>4. CASE ServerWriting \/ \E ch \in Channels : ServerClose(ch)
    BY <2>4 DEF ServerWriting, ServerWrite, ServerWriteNext, ServerSend,
       ServerClose, client
  <2> QED
    BY <2>1, <2>2, <2>3, <2>4
<1>3. CASE MainJoin
  <2>1. open = {} /\ closes \in [Channels -> Nat]
    BY <1>1, <1>3 DEF MainJoin, Ending, Shape
  <2>2. open' = {} /\ closes' = [ch \in Channels |-> closes[ch]]
    BY <1>3, <2>1 DEF MainJoin
  <2>3. closes' = closes
    BY <2>1, <2>2
  <2> QED
    BY <2>1, <2>2, <2>3
<1>4. CASE ThreadRespond \/ ThreadQuit \/ ThreadEnd
  BY <1>4 DEF ThreadRespond, ThreadQuit, ThreadEnd
<1>5. CASE KeepsOpen \/ \E ch \in Channels : Refuses(ch)
  BY <1>5 DEF KeepsOpen, Refuses
<1> QED
  BY <1>2, <1>3, <1>4, <1>5, ControlSplit

\* OnClose has been called at most once, and not for an open channel.
LEMMA ClosedOnceStep ==
    ASSUME DvcInv, Next
    PROVE  ClosedOnce'
<1>1. Shape /\ ClosedOnce /\ closes \in [Channels -> Nat]
  BY DEF DvcInv, Shape
<1>2. CASE UNCHANGED <<open, closes>>
  BY <1>1, <1>2 DEF ClosedOnce, Channels
<1>3. CASE ThreadAccept
  <2>1. /\ queue # <<>> /\ Head(queue).cmd = "CREATE" /\ thread # "respond"
        /\ open' = open \cup {Head(queue).ch} /\ UNCHANGED closes
    BY <1>3 DEF ThreadAccept
  <2>2. closes[Head(queue).ch] = 0
    BY <2>1, HeadRequest
  <2>3. \A c \in Channels : closes[c] <= IF c \in open' THEN 0 ELSE 1
    BY <1>1, <2>1, <2>2 DEF ClosedOnce
  <2> QED
    BY <2>1, <2>3 DEF ClosedOnce, Channels
<1>4. ASSUME NEW ch \in Channels, Removes(ch) PROVE ClosedOnce'
  <2>1. /\ ch \in open /\ open' = open \ {ch} /\ closes'[ch] = closes[ch] + 1
        /\ \A c \in Channels : c # ch => closes'[c] = closes[c]
    BY <1>1, <1>4, RemoveFacts DEF Removes
  <2>2. closes[ch] <= 0
    BY <1>1, <2>1 DEF ClosedOnce
  <2>3. \A c \in Channels : closes'[c] <= IF c \in open' THEN 0 ELSE 1
    BY <1>1, <2>1, <2>2 DEF ClosedOnce
  <2> QED
    BY <2>3 DEF ClosedOnce, Channels
<1> QED
  BY <1>2, <1>3, <1>4, OpenChange

\* Adding a PDU to the answers, and taking one.
LEMMA AcceptedAppend ==
    ASSUME NEW q \in Seq(Pdus), NEW x \in Pdus, NEW ch, NEW O, NEW P,
           Accepted(q, ch, O),
           ch \in O => ch \in P \/ (x.ch = ch /\ x.cmd = "CLOSE"),
           x.ch = ch /\ x.cmd = "CREATE_OK" => ch \in P
    PROVE  Accepted(Append(q, x), ch, P)
<1> DEFINE t == Append(q, x)
           l == Len(q)
<1>1. /\ DOMAIN t = 1..(l + 1) /\ DOMAIN q = 1..l /\ l \in Nat
      /\ \A i \in 1..l : t[i] = q[i]
      /\ t[l + 1] = x
  BY AppendFacts
<1> HIDE DEF t, l
<1> SUFFICES ASSUME NEW i \in DOMAIN t, t[i].ch = ch, t[i].cmd = "CREATE_OK",
                    ch \notin P
             PROVE  \E j \in DOMAIN t : i < j /\ t[j].ch = ch /\ t[j].cmd = "CLOSE"
  BY DEF Accepted, t
<1>2. i # l + 1
  BY <1>1
<1>3. i \in 1..l
  BY <1>1, <1>2
<1>4. CASE ch \in O
  BY <1>1, <1>3, <1>4
<1>5. CASE ch \notin O
  <2>1. PICK j \in DOMAIN q : i < j /\ q[j].ch = ch /\ q[j].cmd = "CLOSE"
    BY <1>1, <1>3, <1>5 DEF Accepted
  <2>2. j \in DOMAIN t /\ t[j] = q[j]
    BY <1>1, <2>1
  <2> QED
    BY <2>1, <2>2
<1> QED
  BY <1>4, <1>5

LEMMA AcceptedTail ==
    ASSUME NEW q \in Seq(Pdus), q # <<>>, NEW ch, NEW O, Accepted(q, ch, O)
    PROVE  Accepted(Tail(q), ch, O)
<1> DEFINE t == Tail(q)
           l == Len(q)
<1>1. /\ DOMAIN t = 1..(l - 1) /\ DOMAIN q = 1..l /\ l \in Nat
      /\ \A i \in 1..(l - 1) : t[i] = q[i + 1]
  BY TailFacts
<1> HIDE DEF t, l
<1> SUFFICES ASSUME NEW i \in DOMAIN t, t[i].ch = ch, t[i].cmd = "CREATE_OK",
                    ch \notin O
             PROVE  \E j \in DOMAIN t : i < j /\ t[j].ch = ch /\ t[j].cmd = "CLOSE"
  BY DEF Accepted, t
<1>2. i \in Nat /\ i >= 1 /\ i + 1 \in DOMAIN q /\ q[i + 1] = t[i]
  BY <1>1
<1>3. PICK j \in DOMAIN q : i + 1 < j /\ q[j].ch = ch /\ q[j].cmd = "CLOSE"
  BY <1>2 DEF Accepted
<1>4. j - 1 \in DOMAIN t /\ i < j - 1
  BY <1>1, <1>2, <1>3
<1>5. t[j - 1] = q[j]
  <2> DEFINE k == j - 1
  <2>1. k + 1 = j /\ k \in 1..(l - 1)
    BY <1>1, <1>3, <1>4
  <2> HIDE DEF k
  <2>2. t[k] = q[j]
    BY <1>1, <2>1
  <2> QED
    BY <2>2 DEF k
<1> QED
  BY <1>3, <1>4, <1>5

\* What another PDU, or two, add to the client's answers.
LEMMA AnswerAdds ==
    ASSUME DvcInv, NEW x \in Pdus, NEW c,
           toServer' = toServer \/ toServer' = Append(toServer, x),
           UNCHANGED dvc_open_state
    PROVE  /\ Replied(c)' =>
                \/ Replied(c)
                \/ x.ch = c /\ x.cmd \in {"CREATE_OK", "CREATE_FAILED", "CLOSE"}
           /\ Gone(c)' =>
                Gone(c) \/ (x.ch = c /\ x.cmd \in {"CREATE_FAILED", "CLOSE"})
<1>1. toServer \in Seq(Pdus)
  BY DEF DvcInv, Shape
<1>2. \A cmds : Carries(Append(toServer, x), c, cmds) =>
                  Carries(toServer, c, cmds) \/ (x.ch = c /\ x.cmd \in cmds)
  BY <1>1, CarriesAppend
<1>3. \A cmds : Carries(toServer', c, cmds) =>
                  Carries(toServer, c, cmds) \/ (x.ch = c /\ x.cmd \in cmds)
  BY <1>2
<1> QED
  BY <1>3 DEF Replied, Gone

LEMMA AnswersAdd ==
    ASSUME DvcInv, NEW x \in Pdus, NEW y \in Pdus, NEW c, x.cmd = "CAPABILITY",
           toServer' = Append(Append(toServer, x), y), UNCHANGED dvc_open_state
    PROVE  /\ Replied(c)' =>
                \/ Replied(c)
                \/ y.ch = c /\ y.cmd \in {"CREATE_OK", "CREATE_FAILED", "CLOSE"}
           /\ Gone(c)' =>
                Gone(c) \/ (y.ch = c /\ y.cmd \in {"CREATE_FAILED", "CLOSE"})
<1> DEFINE t == Append(toServer, x)
<1>1. toServer \in Seq(Pdus) /\ t \in Seq(Pdus)
  BY AppendFacts DEF DvcInv, Shape
<1>2. \A cmds : Carries(t, c, cmds) =>
                  Carries(toServer, c, cmds) \/ (x.ch = c /\ x.cmd \in cmds)
  BY <1>1, CarriesAppend
<1> HIDE DEF t
<1>3. \A cmds : Carries(Append(t, y), c, cmds) =>
                  Carries(t, c, cmds) \/ (y.ch = c /\ y.cmd \in cmds)
  BY <1>1, CarriesAppend
<1>4. toServer' = Append(t, y)
  BY DEF t
<1>5. \A cmds : "CAPABILITY" \notin cmds /\ Carries(toServer', c, cmds) =>
                  Carries(toServer, c, cmds) \/ (y.ch = c /\ y.cmd \in cmds)
  BY <1>2, <1>3, <1>4
<1> QED
  BY <1>5 DEF Replied, Gone

LEMMA AnsweredServer ==
    ASSUME DvcInv,
           \/ ManagerOpen \/ ServerOpen \/ ServerWriting
           \/ \E ch \in Channels : ServerClose(ch)
    PROVE  Answered'
<1>1. Shape /\ Answered /\ Unused
  BY DEF DvcInv
<1>2. /\ queue \in Seq(Pdus) /\ dvc_open_state \in [Channels -> OpenStates]
  BY <1>1 DEF Shape
<1>3. UNCHANGED <<peer, open, toServer>>
  BY DEF ManagerOpen, ServerOpen, ServerWriting, ServerWrite, ServerWriteNext,
     ServerSend, ServerClose, client
<1>4. /\ {"CAPABILITY", "CREATE", "CLOSE"} \subseteq Cmds
      /\ 0 \in 0..MaxChannels /\ Channels \subseteq 0..MaxChannels
  BY DynamicChannelsAssumption DEF Cmds, Channels
<1>5. ASSUME NEW c \in Channels,
             dvc_open_state'[c] \in {"FAILED", "CLOSED"} =>
               dvc_open_state'[c] = dvc_open_state[c],
             dvc_open_state'[c] \in {"SUCCEEDED", "FAILED", "CLOSED", "FREED"} =>
               dvc_open_state[c] \in {"SUCCEEDED", "FAILED", "CLOSED", "FREED"},
             NEW x \in Pdus, queue' = queue \/ queue' = Append(queue, x),
             x.cmd = "CREATE" /\ x.ch = c => ~Replied(c)
      PROVE  /\ Replied(c)' => ~Carries(queue', c, {"CREATE"})
             /\ Gone(c)' => c \notin open'
             /\ peer' = "up" => Accepted(toServer', c, open')
  <2>1. /\ Replied(c) => ~Carries(queue, c, {"CREATE"})
        /\ Gone(c) => c \notin open
        /\ peer = "up" => Accepted(toServer, c, open)
    BY <1>1 DEF Answered
  <2>2. Replied(c)' => Replied(c)
    BY <1>3, <1>5 DEF Replied
  <2>3. Gone(c)' => Gone(c)
    BY <1>3, <1>5 DEF Gone
  <2>4. Carries(queue', c, {"CREATE"}) =>
          Carries(queue, c, {"CREATE"}) \/ (x.cmd = "CREATE" /\ x.ch = c)
    <3>1. Carries(Append(queue, x), c, {"CREATE"}) =>
            Carries(queue, c, {"CREATE"}) \/ (x.cmd = "CREATE" /\ x.ch = c)
      BY <1>2, <1>5, CarriesAppend
    <3> QED
      BY <1>5, <3>1
  <2> QED
    BY <1>3, <1>5, <2>1, <2>2, <2>3, <2>4
<1>6. CASE ManagerOpen
  <2>1. /\ queue' = Append(queue, Pdu("CAPABILITY", 0)) /\ UNCHANGED dvc_open_state
        /\ Pdu("CAPABILITY", 0) \in Pdus /\ Pdu("CAPABILITY", 0).cmd # "CREATE"
    BY <1>4, <1>6, PduFacts DEF ManagerOpen
  <2> QED
    BY <1>5, <2>1 DEF Answered, Channels
<1>7. CASE ServerOpen
  <2>1. PICK n \in Channels : n = dvc_channel_id_seq + 1
    BY <1>1, <1>7, DynamicChannelsAssumption DEF ServerOpen, Shape, Channels
  <2>2. /\ queue' = Append(queue, Pdu("CREATE", n))
        /\ dvc_open_state' = [dvc_open_state EXCEPT ![n] = "NONE"]
        /\ Pdu("CREATE", n) \in Pdus /\ Pdu("CREATE", n).ch = n
    BY <1>4, <1>7, <2>1, PduFacts DEF ServerOpen
  <2>3. n > dvc_channel_id_seq
    BY <1>1, <2>1 DEF Shape
  <2>4. dvc_open_state[n] = "UNUSED" /\ ~Carries(toServer, n, Cmds)
    BY <1>1, <2>3 DEF Unused, Untouched
  <2>5. ~Replied(n)
    BY <2>4 DEF Replied, Carries, Cmds
  <2>6. \A c \in Channels : dvc_open_state'[c] = dvc_open_state[c] \/ dvc_open_state'[c] = "NONE"
    BY <1>2, <2>2
  <2>7. \A c \in Channels :
          /\ dvc_open_state'[c] \in {"FAILED", "CLOSED"} =>
               dvc_open_state'[c] = dvc_open_state[c]
          /\ dvc_open_state'[c] \in {"SUCCEEDED", "FAILED", "CLOSED", "FREED"} =>
               dvc_open_state[c] \in {"SUCCEEDED", "FAILED", "CLOSED", "FREED"}
    BY <2>6
  <2> QED
    BY <1>5, <2>2, <2>5, <2>7 DEF Answered, Channels
<1>8. CASE ServerWriting
  <2>1. PICK ch \in Channels : ServerWrite(ch) \/ ServerWriteNext(ch)
    BY <1>8 DEF ServerWriting
  <2>2. PICK w \in Writes, wr \in Seq(Seq(Units)) : ServerSends(ch, w, wr)
    BY <2>1, ServerWriteEffect
  <2>3. Fragment(w) \in Pdus /\ Fragment(w).cmd # "CREATE"
    BY <2>2, FragmentPiece DEF ServerSends, Data
  <2>4. queue' = Append(queue, Fragment(w)) /\ UNCHANGED dvc_open_state
    BY <2>2 DEF ServerSends, ServerSend
  <2> QED
    BY <1>5, <2>3, <2>4 DEF Answered, Channels
<1>9. ASSUME NEW ch \in Channels, ServerClose(ch) PROVE Answered'
  <2>1. /\ queue' = queue \/ queue' = Append(queue, Pdu("CLOSE", ch))
        /\ ch \in Listed
        /\ dvc_open_state' = [dvc_open_state EXCEPT ![ch] =
                                IF @ = "NONE" THEN "ABANDONED" ELSE "FREED"]
        /\ Pdu("CLOSE", ch) \in Pdus /\ Pdu("CLOSE", ch).cmd # "CREATE"
    BY <1>4, <1>9, PduFacts DEF ServerClose
  <2>2. /\ \A c \in Channels : c # ch => dvc_open_state'[c] = dvc_open_state[c]
        /\ dvc_open_state'[ch] =
             IF dvc_open_state[ch] = "NONE" THEN "ABANDONED" ELSE "FREED"
        /\ dvc_open_state[ch] \in {"NONE", "SUCCEEDED", "FAILED", "CLOSED"}
    BY <1>2, <2>1 DEF Listed
  <2>3. \A c \in Channels :
          /\ dvc_open_state'[c] \in {"FAILED", "CLOSED"} =>
               dvc_open_state'[c] = dvc_open_state[c]
          /\ dvc_open_state'[c] \in {"SUCCEEDED", "FAILED", "CLOSED", "FREED"} =>
               dvc_open_state[c] \in {"SUCCEEDED", "FAILED", "CLOSED", "FREED"}
    BY <2>2
  <2> QED
    BY <1>5, <2>1, <2>3 DEF Answered, Channels
<1> QED
  BY <1>6, <1>7, <1>8, <1>9

\* What the server does not take stays; what it takes was on its way.
LEMMA AnsweredReceive ==
    ASSUME DvcInv, ServerReceive
    PROVE  Answered'
<1>1. Shape /\ Answered
  BY DEF DvcInv
<1>2. toServer \in Seq(Pdus) /\ dvc_open_state \in [Channels -> OpenStates]
  BY <1>1 DEF Shape
<1> DEFINE p == Head(toServer)
<1>3. /\ peer = "up" /\ toServer # <<>> /\ UNCHANGED <<queue, open>>
      /\ toServer' = IF peer' = "up" THEN Tail(toServer) ELSE <<>>
      /\ Ignores(p) \/ TakesAnswer(p) \/ TakesPiece(p)
  BY ServerReceiveEffect DEF client
<1>4. ASSUME NEW c \in Channels
      PROVE  /\ Replied(c)' => Replied(c)
             /\ Gone(c)' => Gone(c)
             /\ peer' = "up" => Accepted(toServer', c, open)
  <2>1. \A cmds : Carries(toServer', c, cmds) => Carries(toServer, c, cmds)
    BY <1>2, <1>3, CarriesTail, CarriesEmpty
  <2>2. peer' = "up" => Accepted(toServer', c, open)
    BY <1>1, <1>2, <1>3, AcceptedTail DEF Answered
  <2>3. CASE dvc_open_state'[c] = dvc_open_state[c]
    BY <2>1, <2>2, <2>3 DEF Replied, Gone
  <2>4. CASE dvc_open_state'[c] # dvc_open_state[c]
    <3>1. TakesAnswer(p)
      BY <1>3, <2>4 DEF Ignores, TakesPiece
    <3>2. Carries(toServer, p.ch, {p.cmd})
      BY <1>2, <1>3, CarriesTail
    <3> HIDE DEF p
    <3>3. CASE p.cmd = "CREATE_OK" /\ ReadOpenState(p.ch, "SUCCEEDED")
      <4>1. c = p.ch /\ dvc_open_state'[c] = "SUCCEEDED"
        BY <1>2, <2>4, <3>3 DEF ReadOpenState
      <4>2. Replied(c)
        BY <3>2, <3>3, <4>1 DEF Replied, Carries
      <4> QED
        BY <2>1, <2>2, <4>1, <4>2 DEF Gone
    <3>4. CASE \/ p.cmd = "CREATE_FAILED" /\ ReadOpenState(p.ch, "FAILED")
               \/ p.cmd = "CLOSE" /\ ReadOpenState(p.ch, "CLOSED")
      <4>1. c = p.ch
        BY <1>2, <2>4, <3>4 DEF ReadOpenState
      <4>2. Replied(c) /\ Gone(c)
        BY <3>2, <3>4, <4>1 DEF Replied, Gone, Carries
      <4> QED
        BY <2>2, <4>2
    <3> QED
      BY <3>1, <3>3, <3>4 DEF TakesAnswer
  <2> QED
    BY <2>3, <2>4
<1> QED
  BY <1>1, <1>3, <1>4 DEF Answered, Channels

LEMMA AnsweredClient ==
    ASSUME DvcInv, Disconnect \/ ClientWriting
    PROVE  Answered'
<1>1. Shape /\ Answered
  BY DEF DvcInv
<1>2. toServer \in Seq(Pdus) /\ queue \in Seq(Pdus)
  BY <1>1 DEF Shape
<1>3. CASE Disconnect
  <2>1. /\ toServer' = <<>> /\ peer' # "up" /\ UNCHANGED <<dvc_open_state, open>>
    BY <1>3 DEF Disconnect, ConnectionLost
  <2>2. PICK n \in 0..Len(queue) : queue' = Append(SubSeq(queue, 1, n), Quit)
    BY <1>1, <1>3, DisconnectFacts
  <2>3. ASSUME NEW c \in Channels
        PROVE  /\ Replied(c)' => ~Carries(queue', c, {"CREATE"})
               /\ Gone(c)' => c \notin open'
    <3>1. Carries(queue', c, {"CREATE"}) => Carries(queue, c, {"CREATE"})
      <4>1. SubSeq(queue, 1, n) \in Seq(Pdus)
        BY <1>2, PrefixFacts
      <4>2. Carries(queue', c, {"CREATE"}) =>
              Carries(SubSeq(queue, 1, n), c, {"CREATE"})
        BY <2>2, <4>1, QuitFacts, CarriesAppend
      <4> QED
        BY <1>2, <4>2, CarriesPrefix
    <3>2. (Replied(c)' => Replied(c)) /\ (Gone(c)' => Gone(c))
      BY <2>1, CarriesEmpty DEF Replied, Gone
    <3> QED
      BY <1>1, <2>1, <3>1, <3>2 DEF Answered
  <2> QED
    BY <2>1, <2>3 DEF Answered, Channels
<1>4. CASE ClientWriting
  <2>1. PICK v \in Writers : WriterStart(v) \/ WriterNext(v)
    BY <1>4 DEF ClientWriting
  <2>2. PICK ch \in Channels, w \in Writes, wr \in Seq(Seq(Units)) :
          ClientSends(v, ch, w, wr)
    BY <2>1, ClientWriteEffect
  <2> DEFINE x == Fragment(w)
  <2>3. /\ x \in Pdus /\ x.cmd \in Data
    BY <2>2, FragmentPiece DEF ClientSends
  <2>4. Send(<<x>>) /\ UNCHANGED <<server, queue, open>>
    BY <2>2 DEF ClientSends, WriterSend
  <2>5. toServer' = Append(toServer, x) \/ toServer' = toServer
    BY <1>2, <2>3, <2>4, WriterSendFacts
  <2>6. UNCHANGED <<peer, dvc_open_state>>
    BY <2>4 DEF server
  <2> HIDE DEF x
  <2>7. x.cmd \notin {"CREATE_OK", "CREATE_FAILED", "CLOSE"}
    BY <2>3 DEF Data
  <2>8. ASSUME NEW c \in Channels
        PROVE  /\ Replied(c)' => Replied(c)
               /\ Gone(c)' => Gone(c)
               /\ peer = "up" => Accepted(toServer', c, open)
    <3>2. peer = "up" => Accepted(toServer, c, open)
      BY <1>1 DEF Answered
    <3>3. peer = "up" => Accepted(Append(toServer, x), c, open)
      BY <1>2, <2>3, <2>7, <3>2, AcceptedAppend
    <3> QED
      BY <2>3, <2>5, <2>6, <2>7, <3>2, <3>3, AnswerAdds
  <2> QED
    BY <1>1, <2>4, <2>6, <2>8 DEF Answered, Channels
<1> QED
  BY <1>3, <1>4

LEMMA AnsweredControl ==
    ASSUME DvcInv, ClientControl
    PROVE  Answered'
<1>1. Shape /\ Answered /\ Ending
  BY DEF DvcInv
<1>2. toServer \in Seq(Pdus) /\ queue \in Seq(Pdus)
  BY <1>1 DEF Shape
<1>3. UNCHANGED <<peer, dvc_open_state>>
  BY ControlSplit DEF server
<1>4. SUFFICES ASSUME NEW c \in Channels
               PROVE  /\ Replied(c)' => ~Carries(queue', c, {"CREATE"})
                      /\ Gone(c)' => c \notin open'
                      /\ peer = "up" => Accepted(toServer', c, open')
  BY <1>3 DEF Answered, Channels
<1>5. /\ Replied(c) => ~Carries(queue, c, {"CREATE"})
      /\ Gone(c) => c \notin open
      /\ peer = "up" => Accepted(toServer, c, open)
  BY <1>1 DEF Answered
<1>6. queue # <<>> =>
        (Carries(Tail(queue), c, {"CREATE"}) => Carries(queue, c, {"CREATE"}))
  BY <1>2, CarriesTail
<1> DEFINE cap == Pdu("CAPABILITY", 0)
<1>7. cap \in Pdus /\ cap.cmd = "CAPABILITY"
  <2>1. "CAPABILITY" \in Cmds /\ 0 \in 0..MaxChannels
    BY DynamicChannelsAssumption DEF Cmds
  <2> QED
    BY <2>1, PduFacts
<1>8. \A ch \in Channels, cmd \in {"CREATE_OK", "CREATE_FAILED", "CLOSE"} :
        Pdu(cmd, ch) \in Pdus /\ Pdu(cmd, ch).cmd = cmd /\ Pdu(cmd, ch).ch = ch
  <2>1. /\ Channels \subseteq 0..MaxChannels
        /\ {"CREATE_OK", "CREATE_FAILED", "CLOSE"} \subseteq Cmds
    BY DynamicChannelsAssumption DEF Cmds, Channels
  <2> QED
    BY <2>1, PduFacts
<1> HIDE DEF cap
<1>9. ASSUME toServer' = toServer \/ toServer' = Append(toServer, cap)
      PROVE  /\ Replied(c)' => Replied(c)
             /\ Gone(c)' => Gone(c)
             /\ (c \in open => c \in open') /\ peer = "up" =>
                  Accepted(toServer', c, open')
  <2>1. (Replied(c)' => Replied(c)) /\ (Gone(c)' => Gone(c))
    BY <1>3, <1>7, <1>9, AnswerAdds
  <2>2. ASSUME c \in open => c \in open', peer = "up"
        PROVE  Accepted(toServer', c, open')
    <3>1. Accepted(toServer, c, open')
      BY <1>5, <2>2 DEF Accepted
    <3>2. Accepted(Append(toServer, cap), c, open')
      BY <1>2, <1>7, <3>1, AcceptedAppend
    <3> QED
      BY <1>9, <3>1, <3>2
  <2> QED
    BY <2>1, <2>2
<1>10. CASE MainJoin
  <2>1. /\ queue' = <<>> /\ open' = {} /\ toServer' = toServer /\ peer # "up"
    BY <1>1, <1>10 DEF MainJoin, Ending
  <2> QED
    BY <2>1, CarriesEmpty
<1>11. CASE ThreadAccept
  <2>1. PICK h : h = Head(queue).ch
    OBVIOUS
  <2>2. /\ queue # <<>> /\ Head(queue).cmd = "CREATE"
        /\ open' = open \cup {h} /\ UNCHANGED queue
        /\ Send(IF state = "CAPABILITIES" THEN <<cap>> ELSE <<>>)
    BY <1>11, <2>1 DEF ThreadAccept, cap
  <2>3. toServer' = toServer \/ toServer' = Append(toServer, cap)
    BY <1>2, <1>7, <2>2, SendFacts DEF Send
  <2>4. Carries(queue, h, {"CREATE"})
    BY <1>1, <2>1, <2>2, HeadFacts DEF Carries
  <2>5. c = h => ~Replied(c)
    BY <1>5, <2>4
  <2>6. c = h => ~Gone(c)
    <3>1. Gone(c) => Replied(c)
      BY DEF Gone, Replied, Carries
    <3> QED
      BY <2>5, <3>1
  <2> QED
    BY <1>5, <1>9, <2>2, <2>3, <2>6
<1>12. CASE ThreadRespond
  <2>1. /\ queue # <<>> /\ Head(queue).cmd = "CREATE" /\ Head(queue).ch \in open
    BY <1>1, <1>12, HeadFacts DEF ThreadRespond, Ending
  <2>2. PICK h \in Channels : h = Head(queue).ch /\ h \in open
    BY <2>1, AnswerGone
  <2>3. ~Carries(Tail(queue), h, {"CREATE"})
    BY <2>1, <2>2, AnswerGone
  <2> DEFINE x == Pdu("CREATE_OK", h)
  <2>4. /\ Send(<<x>>) /\ queue' = Tail(queue) /\ UNCHANGED open
    BY <1>12, <2>2 DEF ThreadRespond
  <2>5. x \in Pdus /\ x.cmd = "CREATE_OK" /\ x.ch = h
    BY <1>8
  <2> HIDE DEF x
  <2>6. toServer' = toServer \/ toServer' = Append(toServer, x)
    BY <1>2, <2>4, <2>5, SendFacts DEF Send
  <2>7. (Replied(c)' => Replied(c) \/ c = h) /\ (Gone(c)' => Gone(c))
    BY <1>3, <2>5, <2>6, AnswerAdds
  <2>8. peer = "up" => Accepted(Append(toServer, x), c, open)
    BY <1>2, <1>5, <2>2, <2>5, AcceptedAppend
  <2>9. peer = "up" => Accepted(toServer', c, open')
    BY <1>5, <2>4, <2>6, <2>8
  <2> QED
    BY <1>5, <1>6, <2>1, <2>3, <2>4, <2>7, <2>9
<1>13. CASE ThreadQuit \/ ThreadEnd
  <2>1. /\ toServer' = toServer /\ UNCHANGED open
        /\ queue' = queue \/ (queue # <<>> /\ queue' = Tail(queue))
    BY <1>13 DEF ThreadQuit, ThreadEnd, Take
  <2> QED
    BY <1>5, <1>6, <1>9, <2>1
<1>14. CASE KeepsOpen
  <2>1. /\ toServer' = toServer \/ toServer' = Append(toServer, cap)
        /\ UNCHANGED open /\ queue # <<>> /\ queue' = Tail(queue)
    BY <1>14 DEF KeepsOpen, Takes, cap
  <2> QED
    BY <1>5, <1>6, <1>9, <2>1
<1>15. ASSUME NEW h \in Channels, Refuses(h)
       PROVE  /\ Replied(c)' => ~Carries(queue', c, {"CREATE"})
              /\ Gone(c)' => c \notin open'
              /\ peer = "up" => Accepted(toServer', c, open')
  <2> DEFINE x == Pdu("CREATE_FAILED", h)
  <2>1. /\ queue # <<>> /\ Head(queue).cmd = "CREATE" /\ Head(queue).ch = h
        /\ h \notin open /\ queue' = Tail(queue) /\ UNCHANGED open
        /\ \/ toServer' = toServer
           \/ toServer' = Append(toServer, x)
           \/ toServer' = Append(Append(toServer, cap), x)
    BY <1>15 DEF Refuses, cap
  <2>2. x \in Pdus /\ x.cmd = "CREATE_FAILED" /\ x.ch = h
    BY <1>8
  <2> HIDE DEF x
  <2>3. ~Carries(Tail(queue), h, {"CREATE"})
    BY <2>1, AnswerGone
  <2>4. (Replied(c)' => Replied(c) \/ c = h) /\ (Gone(c)' => Gone(c) \/ c = h)
    BY <1>3, <1>7, <2>1, <2>2, AnswerAdds, AnswersAdd
  <2>5. peer = "up" => Accepted(toServer', c, open)
    <3>1. peer = "up" => Accepted(Append(toServer, x), c, open)
      BY <1>2, <1>5, <2>2, AcceptedAppend
    <3> DEFINE t == Append(toServer, cap)
    <3>2. t \in Seq(Pdus)
      BY <1>2, <1>7, AppendFacts
    <3>3. peer = "up" => Accepted(t, c, open)
      BY <1>2, <1>5, <1>7, AcceptedAppend
    <3> HIDE DEF t
    <3>4. peer = "up" => Accepted(Append(t, x), c, open)
      BY <2>2, <3>2, <3>3, AcceptedAppend
    <3> QED
      BY <1>5, <2>1, <3>1, <3>4 DEF t
  <2> QED
    BY <1>5, <1>6, <2>1, <2>3, <2>4, <2>5
<1>16. ASSUME NEW h \in Channels, Removes(h)
       PROVE  /\ Replied(c)' => ~Carries(queue', c, {"CREATE"})
              /\ Gone(c)' => c \notin open'
              /\ peer = "up" => Accepted(toServer', c, open')
  <2> DEFINE x == Pdu("CLOSE", h)
  <2>1. /\ h \in open /\ ~(thread = "respond" /\ Head(queue).ch = h)
        /\ open' = open \ {h}
        /\ toServer' = IF peer = "up" THEN Append(toServer, x) ELSE toServer
        /\ queue' = queue \/ (queue # <<>> /\ queue' = Tail(queue))
    BY <1>16 DEF Removes, RemoveChannel, Takes
  <2>2. x \in Pdus /\ x.cmd = "CLOSE" /\ x.ch = h
    BY <1>8
  <2> HIDE DEF x
  <2>3. ~Carries(queue, h, {"CREATE"})
    BY <2>1, NoRequest
  <2>4. (Replied(c)' => Replied(c) \/ c = h) /\ (Gone(c)' => Gone(c) \/ c = h)
    BY <1>3, <2>1, <2>2, AnswerAdds
  <2>5. peer = "up" => Accepted(Append(toServer, x), c, open')
    BY <1>2, <1>5, <2>1, <2>2, AcceptedAppend
  <2> QED
    BY <1>5, <1>6, <2>1, <2>3, <2>4, <2>5
<1> QED
  BY <1>10, <1>11, <1>12, <1>13, <1>14, <1>15, <1>16, ControlSplit

LEMMA AnsweredStep ==
    ASSUME DvcInv, Next
    PROVE  Answered'
BY NextSplit, AnsweredServer, AnsweredReceive, AnsweredClient, AnsweredControl

-----------------------------------------------------------------------------
(***************************************************************************)
(* The two ends agree.                                                     *)
(***************************************************************************)

\* A channel gets SUCCEEDED only by the acceptance at the head of toServer; its
\* close may be behind it.
LEMMA OpenAgreesStep ==
    ASSUME DvcInv, Next
    PROVE  OpenAgrees'
<1>1. Shape /\ OpenAgrees /\ Answered /\ Ending
  BY DEF DvcInv
<1>2. /\ toServer \in Seq(Pdus) /\ dvc_open_state \in [Channels -> OpenStates]
  BY <1>1 DEF Shape
<1>3. SUFFICES ASSUME NEW c \in Channels, peer' = "up",
                      dvc_open_state'[c] = "SUCCEEDED"
               PROVE  c \in open' \/ Carries(toServer', c, {"CLOSE"})
  BY DEF OpenAgrees, Channels
<1>4. CASE ServerReceive
  <2> DEFINE p == Head(toServer)
  <2>1. /\ peer = "up" /\ toServer # <<>> /\ UNCHANGED open
        /\ toServer' = Tail(toServer)
        /\ Ignores(p) \/ TakesAnswer(p) \/ TakesPiece(p)
    BY <1>3, <1>4, ServerReceiveEffect DEF client
  <2>2. Carries(toServer, c, {"CLOSE"}) =>
          \/ Carries(toServer', c, {"CLOSE"})
          \/ p.ch = c /\ p.cmd = "CLOSE"
    BY <1>2, <2>1, CarriesTail
  <2>3. /\ DOMAIN Tail(toServer) = 1..(Len(toServer) - 1)
        /\ \A i \in 1..(Len(toServer) - 1) : Tail(toServer)[i] = toServer[i + 1]
        /\ 1 \in DOMAIN toServer /\ p = toServer[1]
        /\ Len(toServer) \in Nat /\ DOMAIN toServer = 1..Len(toServer)
    BY <1>2, <2>1, TailFacts
  <2> HIDE DEF p
  <2>4. CASE TakesAnswer(p) /\ p.ch = c
    <3>1. p.cmd = "CREATE_OK"
      BY <1>2, <1>3, <2>4 DEF TakesAnswer, ReadOpenState
    <3>2. Accepted(toServer, c, open)
      BY <1>1, <2>1 DEF Answered
    <3>3. CASE c \in open
      BY <2>1, <3>3
    <3>4. CASE c \notin open
      <4>1. PICK j \in DOMAIN toServer :
              1 < j /\ toServer[j].ch = c /\ toServer[j].cmd = "CLOSE"
        BY <2>3, <2>4, <3>1, <3>2, <3>4 DEF Accepted
      <4> DEFINE k == j - 1
      <4>2. k \in 1..(Len(toServer) - 1) /\ k + 1 = j
        BY <2>3, <4>1
      <4> HIDE DEF k
      <4>3. k \in DOMAIN Tail(toServer) /\ Tail(toServer)[k] = toServer[j]
        BY <2>3, <4>2
      <4> QED
        BY <2>1, <4>1, <4>3 DEF Carries
    <3> QED
      BY <3>3, <3>4
  <2>5. CASE ~(TakesAnswer(p) /\ p.ch = c)
    <3>1. dvc_open_state'[c] = dvc_open_state[c]
      <4>1. CASE TakesAnswer(p)
        BY <1>2, <2>5, <4>1 DEF TakesAnswer, ReadOpenState
      <4> QED
        BY <2>1, <4>1 DEF Ignores, TakesPiece
    <3>2. c \in open \/ Carries(toServer, c, {"CLOSE"})
      BY <1>1, <1>3, <2>1, <3>1 DEF OpenAgrees
    <3>3. c \in Listed
      BY <1>3, <3>1 DEF Listed
    <3>4. ~(p.ch = c /\ p.cmd = "CLOSE")
      BY <2>1, <2>5, <3>3 DEF Ignores, TakesPiece, Data
    <3> QED
      BY <2>1, <2>2, <3>2, <3>4
  <2> QED
    BY <2>4, <2>5
<1>5. CASE \/ ManagerOpen \/ ServerOpen \/ ServerWriting
           \/ \E ch \in Channels : ServerClose(ch)
  <2>1. UNCHANGED <<peer, open, toServer>>
    BY <1>5 DEF ManagerOpen, ServerOpen, ServerWriting, ServerWrite,
       ServerWriteNext, ServerSend, ServerClose, client
  <2>2. dvc_open_state[c] = "SUCCEEDED"
    <3>1. CASE ManagerOpen \/ ServerWriting
      BY <1>3, <3>1 DEF ManagerOpen, ServerWriting, ServerWrite,
         ServerWriteNext, ServerSend
    <3>2. CASE ServerOpen
      BY <1>2, <1>3, <3>2 DEF ServerOpen
    <3>3. CASE \E ch \in Channels : ServerClose(ch)
      BY <1>2, <1>3, <3>3 DEF ServerClose
    <3> QED
      BY <1>5, <3>1, <3>2, <3>3
  <2> QED
    BY <1>1, <1>3, <2>1, <2>2 DEF OpenAgrees
<1>6. CASE Disconnect
  BY <1>3, <1>6 DEF Disconnect, ConnectionLost
<1>7. CASE ClientWriting
  <2>1. PICK v \in Writers : WriterStart(v) \/ WriterNext(v)
    BY <1>7 DEF ClientWriting
  <2>2. PICK ch \in Channels, w \in Writes, wr \in Seq(Seq(Units)) :
          ClientSends(v, ch, w, wr)
    BY <2>1, ClientWriteEffect
  <2>3. Fragment(w) \in Pdus
    BY <2>2, FragmentPiece DEF ClientSends
  <2>4. Send(<<Fragment(w)>>) /\ UNCHANGED <<server, open>>
    BY <2>2 DEF ClientSends, WriterSend
  <2>5. \/ toServer' = Append(toServer, Fragment(w))
        \/ toServer' = toServer
    BY <1>2, <2>3, <2>4, WriterSendFacts
  <2>6. c \in open \/ Carries(toServer, c, {"CLOSE"})
    BY <1>1, <1>3, <2>4 DEF OpenAgrees, server
  <2>7. Carries(toServer, c, {"CLOSE"}) => Carries(toServer', c, {"CLOSE"})
    <3>1. Carries(toServer, c, {"CLOSE"}) =>
            Carries(Append(toServer, Fragment(w)), c, {"CLOSE"})
      BY <1>2, <2>3, CarriesAppend
    <3> QED
      BY <2>5, <3>1
  <2> QED
    BY <2>4, <2>6, <2>7
<1>8. CASE ClientControl
  <2>1. UNCHANGED <<peer, dvc_open_state>>
    BY <1>8, ControlSplit DEF server
  <2>2. c \in open \/ Carries(toServer, c, {"CLOSE"})
    BY <1>1, <1>3, <2>1 DEF OpenAgrees
  <2>3. Carries(toServer, c, {"CLOSE"}) => Carries(toServer', c, {"CLOSE"})
    <3>1. AddsAnswers(toServer, toServer', Known)
      BY <1>1, <1>8, ControlFrame
    <3>2. \A x \in Pdus :
            Carries(toServer, c, {"CLOSE"}) =>
              Carries(Append(toServer, x), c, {"CLOSE"})
      BY <1>2, CarriesAppend
    <3>3. ASSUME NEW x \in Pdus, NEW y \in Pdus
          PROVE  Carries(toServer, c, {"CLOSE"}) =>
                   Carries(Append(Append(toServer, x), y), c, {"CLOSE"})
      <4> DEFINE t == Append(toServer, x)
      <4>1. t \in Seq(Pdus)
        BY <1>2, AppendFacts
      <4>2. Carries(toServer, c, {"CLOSE"}) => Carries(t, c, {"CLOSE"})
        BY <3>2
      <4> HIDE DEF t
      <4>3. Carries(t, c, {"CLOSE"}) => Carries(Append(t, y), c, {"CLOSE"})
        BY <4>1, CarriesAppend
      <4> QED
        BY <4>2, <4>3 DEF t
    <3> QED
      BY <3>1, <3>2, <3>3 DEF AddsAnswers
  <2>4. ASSUME NEW ch \in Channels, Removes(ch), c \in open
        PROVE  c \in open' \/ Carries(toServer', c, {"CLOSE"})
    <3>1. /\ open' = open \ {ch}
          /\ toServer' = Append(toServer, Pdu("CLOSE", ch))
      BY <1>3, <2>1, <2>4 DEF Removes, RemoveChannel
    <3>2. /\ Pdu("CLOSE", ch) \in Pdus /\ Pdu("CLOSE", ch).cmd = "CLOSE"
          /\ Pdu("CLOSE", ch).ch = ch
      <4>1. "CLOSE" \in Cmds /\ ch \in 0..MaxChannels
        BY DynamicChannelsAssumption DEF Cmds, Channels
      <4> QED
        BY <4>1, PduFacts
    <3>3. Carries(Append(toServer, Pdu("CLOSE", ch)), ch, {"CLOSE"})
      BY <1>2, <3>2, CarriesAppend
    <3> QED
      BY <2>4, <3>1, <3>3
  <2>5. ASSUME c \in open, UNCHANGED open \/ ThreadAccept
        PROVE  c \in open'
    BY <2>5 DEF ThreadAccept
  <2> QED
    BY <2>2, <2>3, <2>4, <2>5, OpenChange
<1> QED
  BY <1>4, <1>5, <1>6, <1>7, <1>8, NextSplit

LEMMA CloseReachesStep ==
    ASSUME DvcInv, Next
    PROVE  CloseReachesClient'
<1>1. Shape /\ CloseReachesClient /\ Answered /\ Ending
  BY DEF DvcInv
<1>2. /\ queue \in Seq(Pdus) /\ dvc_open_state \in [Channels -> OpenStates]
  BY <1>1 DEF Shape
<1>3. SUFFICES ASSUME NEW c \in Channels, peer' = "up",
                      dvc_open_state'[c] = "FREED", c \in open'
               PROVE  Carries(queue', c, {"CLOSE"})
  BY DEF CloseReachesClient, Channels
<1>4. ASSUME NEW x \in Pdus, queue' = queue \/ queue' = Append(queue, x),
             UNCHANGED <<peer, open>>, dvc_open_state[c] = "FREED"
      PROVE  Carries(queue', c, {"CLOSE"})
  <2>1. Carries(queue, c, {"CLOSE"})
    BY <1>1, <1>3, <1>4 DEF CloseReachesClient
  <2>2. Carries(Append(queue, x), c, {"CLOSE"})
    BY <1>2, <1>4, <2>1, CarriesAppend
  <2> QED
    BY <1>4, <2>1, <2>2
<1>5. /\ {"CAPABILITY", "CREATE", "CLOSE"} \subseteq Cmds
      /\ 0 \in 0..MaxChannels /\ Channels \subseteq 0..MaxChannels
  BY DynamicChannelsAssumption DEF Cmds, Channels
<1>6. CASE ManagerOpen
  <2>1. /\ Pdu("CAPABILITY", 0) \in Pdus
        /\ queue' = Append(queue, Pdu("CAPABILITY", 0))
        /\ UNCHANGED <<peer, open, dvc_open_state>>
    BY <1>5, <1>6, PduFacts DEF ManagerOpen, client
  <2> QED
    BY <1>3, <1>4, <2>1
<1>7. CASE ServerOpen
  <2>1. PICK n \in Channels : n = dvc_channel_id_seq + 1
    BY <1>1, <1>7, DynamicChannelsAssumption DEF ServerOpen, Shape, Channels
  <2>2. /\ Pdu("CREATE", n) \in Pdus
        /\ queue' = Append(queue, Pdu("CREATE", n))
        /\ dvc_open_state' = [dvc_open_state EXCEPT ![n] = "NONE"]
        /\ UNCHANGED <<peer, open>>
    BY <1>5, <1>7, <2>1, PduFacts DEF ServerOpen, client
  <2>3. dvc_open_state[c] = "FREED"
    BY <1>2, <1>3, <2>2
  <2> QED
    BY <1>4, <2>2, <2>3
<1>8. CASE ServerWriting
  <2>1. PICK ch \in Channels : ServerWrite(ch) \/ ServerWriteNext(ch)
    BY <1>8 DEF ServerWriting
  <2>2. PICK w \in Writes, wr \in Seq(Seq(Units)) : ServerSends(ch, w, wr)
    BY <2>1, ServerWriteEffect
  <2>3. Fragment(w) \in Pdus
    BY <2>2, FragmentPiece DEF ServerSends
  <2>4. /\ queue' = Append(queue, Fragment(w))
        /\ UNCHANGED <<peer, open, dvc_open_state>>
    BY <2>2 DEF ServerSends, ServerSend, client
  <2> QED
    BY <1>3, <1>4, <2>3, <2>4
<1>9. ASSUME NEW ch \in Channels, ServerClose(ch)
      PROVE  Carries(queue', c, {"CLOSE"})
  <2>1. /\ ch \in Listed /\ UNCHANGED <<peer, open>>
        /\ dvc_open_state' = [dvc_open_state EXCEPT ![ch] =
                                IF @ = "NONE" THEN "ABANDONED" ELSE "FREED"]
        /\ queue' = IF dvc_open_state[ch] = "SUCCEEDED"
                      THEN Append(queue, Pdu("CLOSE", ch)) ELSE queue
    BY <1>9 DEF ServerClose, client
  <2>2. /\ Pdu("CLOSE", ch) \in Pdus /\ Pdu("CLOSE", ch).cmd = "CLOSE"
        /\ Pdu("CLOSE", ch).ch = ch
    BY <1>5, PduFacts
  <2>3. CASE c = ch
    <3>1. dvc_open_state[ch] \in {"SUCCEEDED", "FAILED", "CLOSED"}
      BY <1>2, <1>3, <2>1, <2>3 DEF Listed
    <3>2. ~Gone(ch)
      BY <1>1, <1>3, <2>1, <2>3 DEF Answered
    <3>3. dvc_open_state[ch] = "SUCCEEDED"
      BY <3>1, <3>2 DEF Gone
    <3>4. Carries(Append(queue, Pdu("CLOSE", ch)), ch, {"CLOSE"})
      BY <1>2, <2>2, CarriesAppend
    <3> QED
      BY <2>1, <2>3, <3>3, <3>4
  <2>4. CASE c # ch
    <3>1. dvc_open_state[c] = "FREED"
      BY <1>2, <1>3, <2>1, <2>4
    <3> QED
      BY <1>4, <2>1, <2>2, <3>1
  <2> QED
    BY <2>3, <2>4
<1>10. CASE ServerReceive
  <2> DEFINE p == Head(toServer)
  <2>1. /\ peer = "up" /\ UNCHANGED <<queue, open>>
        /\ Ignores(p) \/ TakesAnswer(p) \/ TakesPiece(p)
    BY <1>10, ServerReceiveEffect DEF client
  <2> HIDE DEF p
  <2>2. dvc_open_state[c] = "FREED"
    <3>1. CASE TakesAnswer(p)
      BY <1>2, <1>3, <3>1 DEF TakesAnswer, ReadOpenState
    <3> QED
      BY <1>3, <2>1, <3>1 DEF Ignores, TakesPiece
  <2> QED
    BY <1>1, <1>3, <2>1, <2>2 DEF CloseReachesClient
<1>11. CASE Disconnect
  BY <1>3, <1>11 DEF Disconnect, ConnectionLost
<1>12. CASE ClientWriting
  <2>1. UNCHANGED <<peer, dvc_open_state, open, queue>>
    BY <1>12 DEF ClientWriting, WriterStart, WriterNext, WriterSend, server
  <2> QED
    BY <1>1, <1>3, <2>1 DEF CloseReachesClient
<1>13. CASE ClientControl
  <2>1. UNCHANGED <<peer, dvc_open_state>>
    BY <1>13, ControlSplit DEF server
  <2>2. c \in open => Carries(queue, c, {"CLOSE"})
    BY <1>1, <1>3, <2>1 DEF CloseReachesClient
  <2>3. queue # <<>> /\ queue' = Tail(queue) =>
          (Carries(queue, c, {"CLOSE"}) =>
             \/ Carries(queue', c, {"CLOSE"})
             \/ Head(queue).ch = c /\ Head(queue).cmd = "CLOSE")
    BY <1>2, CarriesTail
  <2>4. CASE MainJoin
    BY <1>3, <2>4 DEF MainJoin
  <2>5. CASE ThreadAccept
    <3>1. PICK h : h = Head(queue).ch
      OBVIOUS
    <3>2. /\ queue # <<>> /\ Head(queue).cmd = "CREATE"
          /\ open' = open \cup {h} /\ UNCHANGED queue
      BY <2>5, <3>1 DEF ThreadAccept
    <3>3. Carries(queue, h, {"CREATE"})
      BY <1>1, <3>1, <3>2, HeadFacts DEF Carries
    <3>4. Replied(c)
      BY <1>3, <2>1 DEF Replied
    <3>5. c # h
      BY <1>1, <3>3, <3>4 DEF Answered
    <3> QED
      BY <1>3, <2>2, <3>2, <3>5
  <2>6. CASE ThreadRespond \/ ThreadQuit
    <3>1. /\ queue # <<>> /\ queue' = Tail(queue) /\ UNCHANGED open
          /\ Head(queue).cmd # "CLOSE"
      <4>1. CASE ThreadRespond
        <5>1. queue # <<>> /\ Head(queue).cmd = "CREATE"
          BY <1>1, <4>1, HeadFacts DEF ThreadRespond, Ending
        <5> QED
          BY <4>1, <5>1 DEF ThreadRespond
      <4>2. CASE ThreadQuit
        BY <4>2 DEF ThreadQuit, Take
      <4> QED
        BY <2>6, <4>1, <4>2
    <3> QED
      BY <1>3, <2>2, <2>3, <3>1
  <2>7. CASE ThreadEnd
    BY <1>3, <2>2, <2>7 DEF ThreadEnd
  <2>8. CASE KeepsOpen \/ \E ch \in Channels : Refuses(ch)
    <3>1. /\ queue # <<>> /\ queue' = Tail(queue) /\ UNCHANGED open
          /\ Head(queue).cmd = "CLOSE" => Head(queue).ch \notin open
      BY <2>8 DEF KeepsOpen, Takes, Refuses
    <3> QED
      BY <1>3, <2>2, <2>3, <3>1
  <2>9. ASSUME NEW ch \in Channels, Removes(ch)
        PROVE  Carries(queue', c, {"CLOSE"})
    <3>1. /\ open' = open \ {ch}
          /\ \/ queue' = queue
             \/ /\ queue # <<>> /\ queue' = Tail(queue)
                /\ Head(queue).cmd = "CLOSE" => Head(queue).ch = ch
      BY <2>9 DEF Removes, RemoveChannel, Takes, Data
    <3> QED
      BY <1>3, <2>2, <2>3, <3>1
  <2> QED
    BY <1>13, <2>4, <2>5, <2>6, <2>7, <2>8, <2>9, ControlSplit
<1> QED
  BY <1>6, <1>7, <1>8, <1>9, <1>10, <1>11, <1>12, <1>13, NextSplit

\* Only data for a channel that is closed makes the server give up.
LEMMA DroppedStep ==
    ASSUME DvcInv, Next, peer # "dropped", peer' = "dropped"
    PROVE  dvc_open_state[Head(toServer).ch] = "CLOSED"
<1>1. Shape /\ Ending
  BY DEF DvcInv
<1>4. CASE \/ ManagerOpen \/ ServerOpen \/ ServerWriting
           \/ \E ch \in Channels : ServerClose(ch)
  BY <1>4 DEF ManagerOpen, ServerOpen, ServerWriting, ServerWrite,
     ServerWriteNext, ServerSend, ServerClose
<1>5. CASE ServerReceive
  <2> DEFINE p == Head(toServer)
  <2>1. peer = "up" /\ (Ignores(p) \/ TakesAnswer(p) \/ TakesPiece(p))
    BY <1>5, ServerReceiveEffect
  <2> HIDE DEF p
  <2>2. TakesPiece(p)
    BY <2>1 DEF Ignores, TakesAnswer, ReadOpenState
  <2>3. p.ch \in Channels /\ ServerDrops(p.ch) /\ UNCHANGED dvc_open_state
    BY <2>1, <2>2 DEF TakesPiece, ServerStores, ServerDelivers, Listed
  <2>4. dvc_open_state[p.ch] = "CLOSED"
    BY <2>3 DEF ServerDrops
  <2> QED
    BY <2>4 DEF p
<1>6. CASE Disconnect
  BY <1>6 DEF Disconnect, ConnectionLost
<1>7. CASE ClientControl
  BY <1>1, <1>7, ControlFrame DEF server
<1>8. CASE ClientWriting
  BY <1>8 DEF ClientWriting, WriterStart, WriterNext, WriterSend, server
<1> QED
  BY <1>4, <1>5, <1>6, <1>7, <1>8, NextSplit

-----------------------------------------------------------------------------
(***************************************************************************)
(* The invariant, and what it implies.                                     *)
(***************************************************************************)

LEMMA DvcInit ==
    ASSUME Init
    PROVE  DvcInv
<1>1. 0 \in 0..MaxChannels /\ Idle \in Writes
  <2>1. 0 \in 0..MaxChannels /\ <<>> \in Seq(Units)
    BY DynamicChannelsAssumption
  <2> QED
    BY <2>1 DEF Idle, Writes
<1>2. NoData \in [length : Nat, data : Seq(Units)]
  <2>1. <<>> \in Seq(Units)
    OBVIOUS
  <2> QED
    BY <2>1 DEF NoData
<1>3. queue = <<>> /\ toServer = <<>> /\ open = {} /\ peer = "up"
  BY DEF Init
<1>4. \A ch \in Channels :
        /\ swritten[ch] = <<>> /\ cwritten[ch] = <<>> /\ got[ch] = <<>>
        /\ inbox[ch] = <<>> /\ sending[ch] = Idle /\ dvc_data[ch] = NoData
        /\ total_length[ch] = 0 /\ closes[ch] = 0
        /\ dvc_open_state[ch] = "UNUSED"
  BY DEF Init
<1>5. \A w \in Writers : writing[w] = Idle
  BY DEF Init
<1>6. Shape
  <2>1. <<>> \in Seq(Pdus) /\ <<>> \in Seq(Units) /\ <<>> \in Seq(Seq(Units))
    OBVIOUS
  <2>2. /\ sending \in [Channels -> Writes] /\ writing \in [Writers -> Writes]
    BY <1>1 DEF Init
  <2>3. dvc_data \in [Channels -> [length : Nat, data : Seq(Units)]]
    BY <1>2 DEF Init
  <2>4. dvc_open_state \in [Channels -> OpenStates]
    BY DEF Init, OpenStates
  <2>5. /\ receiveData \in [Channels -> Seq(Units)]
        /\ inbox \in [Channels -> Seq(Seq(Units))]
        /\ got \in [Channels -> Seq(Seq(Units))]
        /\ swritten \in [Channels -> Seq(Seq(Units))]
        /\ cwritten \in [Channels -> Seq(Seq(Units))]
        /\ closes \in [Channels -> Nat] /\ total_length \in [Channels -> Nat]
    BY <2>1 DEF Init
  <2> QED
    BY <1>1, <2>1, <2>2, <2>3, <2>4, <2>5 DEF Init, Shape
<1>7. \A ch, wr : DataOf(<<>>, ch) = {} /\ Pieces(<<>>, ch, wr)
  BY DEF DataOf, Pieces
<1>8. Numbered(<<>>)
  BY DEF Numbered
<1>9. ServerSide
  BY <1>3, <1>4, <1>7, <1>8 DEF ServerSide
<1>10. ClientSide
  BY <1>3, <1>4, <1>5, <1>7, <1>8 DEF ClientSide, Idle
<1>11. \A len : Received(<<>>, <<>>, <<>>, len)
  BY DEF Received
<1>12. ClientHas
  BY <1>4, <1>11 DEF ClientHas, NoData
<1>13. ~\E ch, cmds : Carries(<<>>, ch, cmds)
  BY DEF Carries
<1>14. ToClient
  BY <1>3, <1>13 DEF ToClient, Flows, Live
<1>15. ServerHas
  BY <1>4, <1>11 DEF ServerHas, Partial
<1>16. ToServer
  BY <1>4 DEF ToServer, Listed
<1>17. Ending /\ Requests
  BY <1>3 DEF Init, Ending, Requests
<1>18. Unused
  <2>1. \A ch \in Channels : LockFree(ch)
    BY <1>5 DEF LockFree, Idle, Channels
  <2>2. \A ch \in Channels : Untouched(ch)
    BY <1>3, <1>4, <1>13, <2>1 DEF Untouched
  <2>3. dvc_channel_id_seq = 0
    BY DEF Init
  <2> QED
    BY <2>2, <2>3 DEF Unused, Channels
<1>19. Answered
  <2>1. \A ch, O : Accepted(<<>>, ch, O)
    BY DEF Accepted
  <2> QED
    BY <1>3, <1>13, <2>1 DEF Answered
<1>20. ClosedOnce
  BY <1>4 DEF ClosedOnce
<1>21. OpenAgrees /\ CloseReachesClient
  BY <1>3, <1>4 DEF OpenAgrees, CloseReachesClient
<1> QED
  BY <1>6, <1>9, <1>10, <1>12, <1>14, <1>15, <1>16, <1>17, <1>18, <1>19,
     <1>20, <1>21 DEF DvcInv

LEMMA DvcStutter ==
    ASSUME DvcInv, UNCHANGED vars
    PROVE  DvcInv'
<1>1. /\ UNCHANGED <<drdynvc_state, dvc_open_state, dvc_channel_id_seq, sending,
                     total_length, receiveData, inbox, peer, swritten>>
      /\ UNCHANGED <<queue, toServer>>
      /\ UNCHANGED <<state, thread, main, open, dvc_data, got, writing, cwritten,
                     closes>>
  BY DEF vars, server, client
<1>2. Shape'
  BY <1>1 DEF DvcInv, Shape, Channels, OpenStates, Writes, Pdus, Cmds, Units
<1>3. ServerSide' /\ ClientSide'
  BY <1>1 DEF DvcInv, ServerSide, ClientSide, Channels, Idle
<1>4. ClientHas' /\ ServerHas'
  BY <1>1 DEF DvcInv, ClientHas, ServerHas, Partial, Channels
<1>5. ToClient'
  BY <1>1 DEF DvcInv, ToClient, Flows, Live, Channels
<1>6. ToServer'
  BY <1>1 DEF DvcInv, ToServer, FlowsBack, Partial, Listed, LockFree, Channels
<1>7. Ending' /\ Requests' /\ ClosedOnce'
  BY <1>1 DEF DvcInv, Ending, Requests, ClosedOnce, Channels
<1>8. Unused'
  BY <1>1 DEF DvcInv, Unused, Untouched, LockFree, Channels, Idle, Cmds
<1>9. Answered'
  BY <1>1 DEF DvcInv, Answered, Replied, Gone, Channels
<1>10. OpenAgrees' /\ CloseReachesClient'
  BY <1>1 DEF DvcInv, OpenAgrees, CloseReachesClient, Channels
<1> QED
  BY <1>2, <1>3, <1>4, <1>5, <1>6, <1>7, <1>8, <1>9, <1>10 DEF DvcInv

LEMMA DvcStep ==
    ASSUME DvcInv, Next
    PROVE  DvcInv'
BY ShapeStep, ServerSideStep, ClientSideStep, ClientHasStep, ToClientStep,
   ServerHasStep, ToServerInvStep, EndingStep, RequestsStep, UnusedStep,
   AnsweredStep, ClosedOnceStep, OpenAgreesStep, CloseReachesStep
   DEF DvcInv

\* For every number of channels and writers: in every reachable state the
\* pieces of each channel's messages under way form a chain from what the
\* receiver has to what the writer has left (Flows, FlowsBack), a channel is
\* requested once and before its data, and an answer takes its request's place.
\* It is inductive: every handler of both ends preserves it.
THEOREM DvcInvariant == Spec => []DvcInv
<1>1. Init => DvcInv
  BY DvcInit
<1>2. DvcInv /\ [Next]_vars => DvcInv'
  BY DvcStep, DvcStutter
<1> QED
  BY <1>1, <1>2, PTL DEF Spec

\* The length announced for a message is one that was written.
LEMMA ReceivedLength ==
    ASSUME NEW msgs \in Seq(Seq(Units)), NEW wr \in Seq(Seq(Units)),
           NEW data, NEW len, Received(msgs, wr, data, len), Numbered(wr),
           data # <<>>
    PROVE  len \in Lengths /\ Len(data) < len
<1> DEFINE n == Len(msgs) + 1
<1>1. n \in DOMAIN wr
  BY DEF Received
<1> HIDE DEF n
<1>2. Len(wr[n]) \in Lengths
  BY <1>1 DEF Numbered
<1>3. len = Len(wr[n]) /\ Len(data) < len
  BY DEF Received, n
<1> QED
  BY <1>2, <1>3

LEMMA DvcTypes ==
    ASSUME DvcInv
    PROVE  TypeOK
<1>1. Shape
  BY DEF DvcInv
<1>2. /\ dvc_data \in [Channels -> [length : Nat, data : Seq(Units)]]
      /\ total_length \in [Channels -> Nat]
      /\ got \in [Channels -> Seq(Seq(Units))]
      /\ inbox \in [Channels -> Seq(Seq(Units))]
      /\ swritten \in [Channels -> Seq(Seq(Units))]
      /\ cwritten \in [Channels -> Seq(Seq(Units))]
  BY <1>1 DEF Shape
<1>3. ASSUME NEW ch \in Channels
      PROVE  total_length[ch] \in {0} \cup Lengths
  <2>1. SUFFICES ASSUME total_length[ch] # 0 PROVE total_length[ch] \in Lengths
    OBVIOUS
  <2>2. /\ Received(inbox[ch], cwritten[ch], Partial(ch), total_length[ch])
        /\ receiveData[ch] # <<>> /\ Numbered(cwritten[ch])
    BY <2>1 DEF DvcInv, ServerHas, ClientSide
  <2>3. Partial(ch) # <<>>
    BY <2>1, <2>2 DEF Partial
  <2>4. inbox[ch] \in Seq(Seq(Units)) /\ cwritten[ch] \in Seq(Seq(Units))
    BY <1>2
  <2> QED
    BY <2>2, <2>3, <2>4, ReceivedLength
<1>4. ASSUME NEW ch \in Channels
      PROVE  /\ dvc_data[ch].length \in {0} \cup Lengths
             /\ Len(dvc_data[ch].data) <= dvc_data[ch].length
  <2>1. /\ Received(got[ch], swritten[ch], dvc_data[ch].data, dvc_data[ch].length)
        /\ dvc_data[ch].data = <<>> => dvc_data[ch].length = 0
        /\ Numbered(swritten[ch])
    BY DEF DvcInv, ClientHas, ServerSide
  <2>2. /\ got[ch] \in Seq(Seq(Units)) /\ swritten[ch] \in Seq(Seq(Units))
        /\ dvc_data[ch].data \in Seq(Units) /\ dvc_data[ch].length \in Nat
    BY <1>2
  <2>3. CASE dvc_data[ch].data = <<>>
    BY <2>1, <2>3
  <2>4. CASE dvc_data[ch].data # <<>>
    <3>1. /\ dvc_data[ch].length \in Lengths
          /\ Len(dvc_data[ch].data) < dvc_data[ch].length
      BY <2>1, <2>2, <2>4, ReceivedLength
    <3> QED
      BY <2>2, <3>1
  <2> QED
    BY <2>3, <2>4
<1>5. total_length \in [Channels -> {0} \cup Lengths]
  BY <1>2, <1>3
<1>6. dvc_data \in [Channels -> [length : {0} \cup Lengths, data : Seq(Units)]]
  <2>1. \A ch \in Channels :
          dvc_data[ch] \in [length : {0} \cup Lengths, data : Seq(Units)]
    BY <1>2, <1>4
  <2> QED
    BY <1>2, <2>1
<1> QED
  BY <1>1, <1>4, <1>5, <1>6 DEF TypeOK, Shape

\* For every number of channels, writers and messages, every size of a PDU and
\* every length of a message: a channel the server holds to be open is open on
\* the client or the client's close is under way, a close of the server reaches
\* the client, OnClose is called once for each channel, before the drdynvc
\* thread exits (drdynvc_main.c, server.c), and the types.
THEOREM InvHolds == Spec => []Inv
<1>1. DvcInv => Inv
  <2>1. DvcInv => TypeOK
    BY DvcTypes
  <2>2. DvcInv => ClosedOnceInTime
    BY DEF DvcInv, ClosedOnce, Ending, ClosedOnceInTime
  <2> QED
    BY <2>1, <2>2 DEF DvcInv, Inv
<1> QED
  BY <1>1, DvcInvariant, PTL

\* What has been received is a prefix of what has been written.
LEMMA ReceivedPrefix ==
    ASSUME NEW msgs \in Seq(Seq(Units)), NEW wr \in Seq(Seq(Units)),
           NEW data, NEW len, Received(msgs, wr, data, len)
    PROVE  IsPrefix(msgs, wr)
<1> DEFINE l == Len(msgs)
<1>1. /\ l \in Nat /\ l <= Len(wr) /\ Len(wr) \in Nat
      /\ \A k \in 1..l : msgs[k] = wr[k]
  BY DEF Received
<1>2. /\ SubSeq(msgs, 1, l) = [k \in 1..l |-> msgs[k]]
      /\ SubSeq(wr, 1, l) = [k \in 1..l |-> wr[k]]
  BY <1>1
<1>3. SubSeq(msgs, 1, l) = SubSeq(wr, 1, l)
  BY <1>1, <1>2
<1> QED
  BY <1>1, <1>3 DEF IsPrefix

\* For every number of channels, of plugin threads and of messages, every size
\* of a PDU and every length of a message: the plugin of a channel and the
\* reader at the server get whole messages, in the order in which the other end
\* wrote them, none twice, none left out and none mixed with another
\* (dvcman_receive_channel_data, wts_read_drdynvc_data).
THEOREM GetsWrittenHolds == Spec => []GetsWritten
<1>1. DvcInv => GetsWritten
  <2> SUFFICES ASSUME DvcInv, NEW ch \in Channels
               PROVE  /\ IsPrefix(got[ch], swritten[ch])
                      /\ IsPrefix(inbox[ch], cwritten[ch])
    BY DEF GetsWritten, ClientGetsWritten, ServerGetsWritten
  <2>1. /\ got[ch] \in Seq(Seq(Units)) /\ swritten[ch] \in Seq(Seq(Units))
        /\ inbox[ch] \in Seq(Seq(Units)) /\ cwritten[ch] \in Seq(Seq(Units))
    BY DEF DvcInv, Shape
  <2>2. /\ Received(got[ch], swritten[ch], dvc_data[ch].data, dvc_data[ch].length)
        /\ Received(inbox[ch], cwritten[ch], Partial(ch), total_length[ch])
    BY DEF DvcInv, ClientHas, ServerHas
  <2> QED
    BY <2>1, <2>2, ReceivedPrefix
<1> QED
  BY <1>1, DvcInvariant, PTL

\* For the same constants: the server gives the connection up only for data of
\* a channel that the client has closed (wts_queue_receive_data); no sequence
\* of fragments of its own makes it do so.
THEOREM DroppedOnlyAfterCloseHolds == Spec => DroppedOnlyAfterClose
<1>1. DvcInv /\ [Next]_vars =>
        [peer # "dropped" /\ peer' = "dropped"
           => dvc_open_state[Head(toServer).ch] = "CLOSED"]_vars
  BY DroppedStep
<1> QED
  BY <1>1, DvcInvariant, PTL DEF Spec, DroppedOnlyAfterClose
=============================================================================

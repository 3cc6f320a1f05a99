-------------------------- MODULE SecretChatProofs --------------------------
(***************************************************************************)
(* Proofs about the queues of a secret chat, for any number of messages,   *)
(* refusals and crashes. The module has four parts, and the later ones use *)
(* the earlier ones.                                                       *)
(*                                                                         *)
(* KeptSafe: a row stays in the outgoing table until the peer has          *)
(* processed it. Every seqIn of a client that is anywhere, in a row, a     *)
(* request, a message, the peer's table, a snapshot on the peer's stage or *)
(* a query on its database thread, is at most the largest one the client   *)
(* ever had. Queues are described by the set of what may be in them.       *)
(*                                                                         *)
(* TypeSafe, ShownOnceSafe: types, among them what sorting and filtering   *)
(* make of a sequence, and that no message is shown twice.                 *)
(*                                                                         *)
(* ExecutingSafe: an id in the set of executing ids stands for a request,  *)
(* as long as the ids of the two tables are apart.                         *)
(*                                                                         *)
(* SmoothSafe, InOrderSafe, DeliveredSafe: from a client none of whose     *)
(* requests was refused to a peer that has not crashed, messages are shown *)
(* in order, none is passed over and none is asked for again.              *)
(***************************************************************************)
EXTENDS SecretChat, FiniteSetTheorems, SequenceTheorems, WellFoundedInduction,
        TLAPS

Told(p) == 0 .. processed[p]
Numbers(p) == 0 .. Len(outgoing[p]) - 1

(* A message that p made.                                                  *)
MessageSound(p, m) ==
  \E n \in Nat, x \in Told(p) :
    m.seqOut = Wire(n, p = Creator) /\ m.seqIn = Wire(x, p # Creator)

(* Rows that p received.                                                   *)
RowsSound(p, rows) ==
  /\ IsFiniteSet(rows)
  /\ \A r \in rows : r.seq \in Nat /\ r.seqIn \in Told(Other(p))

BlockSound(p, b) ==
  /\ b.type = "outgoing" =>
       b.rows \subseteq Numbers(p) /\ \A x \in b.resends : x.seq \in Numbers(p)
  /\ b.type = "incoming" => RowsSound(p, b.rows) /\ b.next \in Nat

QuerySound(p, q) ==
  /\ q.type = "seqIn" => q.seq \in Nat
  /\ q.type = "confirm" => q.seq \in Nat /\ q.seq < processed[Other(p)]

RequestSound(p, r) == "message" \in DOMAIN r /\ MessageSound(p, r.message)

(* The queues hold nothing else.                                           *)
OutgoingSound(p) ==
  \E S : outgoing[p] \in Seq(S) /\ \A x \in S : x.seqIn \in Told(p)
NetworkSound(p) ==
  \E S : network[p] \in Seq(S) /\ \A m \in S : MessageSound(Other(p), m)
StageSound(p) == \E S : stage[p] \in Seq(S) /\ \A b \in S : BlockSound(p, b)
WritesSound(p) == \E S : writes[p] \in Seq(S) /\ \A q \in S : QuerySound(p, q)

Functions ==
  /\ DOMAIN outgoing = Peers /\ DOMAIN stored = Peers /\ DOMAIN incoming = Peers
  /\ DOMAIN resends = Peers /\ DOMAIN requests = Peers
  /\ DOMAIN stage = Peers /\ DOMAIN writes = Peers /\ DOMAIN network = Peers
  /\ seqIn \in [Peers -> Nat] /\ processed \in [Peers -> Nat]

Sound(p) ==
  /\ seqIn[p] \in Told(p)
  /\ OutgoingSound(p) /\ NetworkSound(p) /\ StageSound(p) /\ WritesSound(p)
  /\ stored[p] \subseteq Numbers(p)
  /\ \A x \in resends[p] : x.seq \in Numbers(p)
  /\ \A r \in requests[p] : RequestSound(p, r)
  /\ RowsSound(p, incoming[p])

Inv == Functions /\ (\A p \in Peers : Sound(p)) /\ KeptUntilProcessed

-----------------------------------------------------------------------------
(* Operators                                                               *)

LEMMA OtherEnd ==
  ASSUME NEW p \in Peers
  PROVE  /\ Other(p) \in Peers /\ Other(p) # p /\ Other(Other(p)) = p
         /\ Peers = {p, Other(p)}
<1>1. PICK a \in Peers, b \in Peers : a # b /\ Peers = {a, b}
  BY PeersAssumption
<1>2. ASSUME NEW q \in Peers PROVE Other(q) \in Peers /\ Other(q) # q
  <2>1. \E r \in Peers : r # q
    BY <1>1
  <2> QED BY <2>1 DEF Other
<1> QED BY <1>1, <1>2

(* What is written on the wire is read back.                               *)
LEMMA Halves ==
  ASSUME NEW n \in Nat, NEW b
  PROVE  Halved(Wire(n, b)) = n
<1>1. Bit(b) \in {0, 1}
  BY DEF Bit
<1>2. \A c \in {0, 1} : ~(n * 2 + c < 0) /\ (n * 2 + c) \div 2 = n
  OBVIOUS
<1> QED BY <1>1, <1>2 DEF Wire, Halved

LEMMA SeqUnion ==
  ASSUME NEW S, NEW T, NEW s \in Seq(S), NEW t \in Seq(T)
  PROVE  s \o t \in Seq(S \cup T)
<1>1. s \in Seq(S \cup T) /\ t \in Seq(S \cup T)
  BY SeqMonotonic
<1> QED BY <1>1, ConcatProperties

LEMMA SeqRest ==
  ASSUME NEW S, NEW s \in Seq(S), s # <<>>
  PROVE  Head(s) \in S /\ Tail(s) \in Seq(S)
BY HeadTailProperties

(* A set of naturals that is not empty has a least element.                *)
LEMMA NatMin ==
  ASSUME NEW S, S \subseteq Nat, S # {}
  PROVE  \E n \in S : \A m \in S : n <= m
<1>1. PICK n \in S : \A m \in S : ~(<<m, n>> \in OpToRel(<, Nat))
  BY NatLessThanWellFounded, WFMin
<1>2. ASSUME NEW m \in S PROVE n <= m
  <2>1. ~(m < n)
    BY <1>1 DEF OpToRel
  <2> QED BY <2>1
<1> QED BY <1>2

(* Max of numbers that are bounded.                                        *)
LEMMA BoundedMax ==
  ASSUME NEW S, NEW b \in Int, S \subseteq Int, S # {}, \A x \in S : x <= b
  PROVE  Max(S) \in S /\ \A x \in S : Max(S) >= x
<1> DEFINE D == {b - x : x \in S}
<1>1. D \subseteq Nat /\ D # {}
  <2>1. \A x \in S : b - x \in Nat
    OBVIOUS
  <2>2. PICK x \in S : TRUE
    OBVIOUS
  <2>3. b - x \in D
    OBVIOUS
  <2> QED BY <2>1, <2>3
<1>2. PICK d \in D : \A e \in D : d <= e
  BY <1>1, NatMin
<1>3. PICK x \in S : d = b - x
  OBVIOUS
<1>4. \A y \in S : x >= y
  <2> SUFFICES ASSUME NEW y \in S PROVE x >= y
    OBVIOUS
  <2>1. b - y \in D
    OBVIOUS
  <2>2. b - x <= b - y
    BY <1>2, <1>3, <2>1
  <2> QED BY <2>2
<1> QED BY <1>4 DEF Max

(* The next number that is expected after a snapshot exists, although the  *)
(* snapshot may have copies and gaps.                                      *)
LEMMA NextThere ==
  ASSUME NEW rows, NEW next \in Nat, IsFiniteSet(rows), \A r \in rows : r.seq \in Nat
  PROVE  /\ NextExpected(rows, next) \in Nat
         /\ NextExpected(rows, next) >= next
         /\ NextExpected(rows, next) \notin Seqs(rows)
         /\ next .. NextExpected(rows, next) - 1 \subseteq Seqs(rows)
<1> DEFINE c == Cardinality(rows)
           T == Seqs(rows)
           f == [r \in rows |-> r.seq]
<1>1. c \in Nat
  BY FS_CardinalityType
<1>2. f \in Surjection(rows, T)
  BY DEF Surjection, Seqs
<1>3. IsFiniteSet(T) /\ Cardinality(T) \in Nat /\ Cardinality(T) <= c
  BY <1>2, FS_Surjection, FS_CardinalityType
<1> HIDE DEF c, T, f
<1>4. ASSUME NEW n \in Int, n >= next, next .. n - 1 \subseteq T
      PROVE  n <= next + c
  <2>1. next .. n - 1 \in SUBSET T
    BY <1>4
  <2>2. Cardinality(next .. n - 1) <= Cardinality(T)
    BY <1>3, <2>1, FS_Subset
  <2>3. Cardinality(next .. n - 1) = IF next > n - 1 THEN 0 ELSE n - 1 - next + 1
    BY <1>4, FS_Interval
  <2> QED BY <1>1, <1>3, <1>4, <2>2, <2>3
<1> DEFINE G == {n \in Nat : n >= next /\ n \notin T}
<1>5. G # {}
  <2> SUFFICES ASSUME G = {} PROVE FALSE
    OBVIOUS
  <2>1. PICK n \in Int : n = next + c + 1
    BY <1>1
  <2>2. n >= next /\ next .. n - 1 \subseteq T
    BY <1>1, <2>1
  <2>3. n <= next + c
    BY <1>4, <2>2
  <2> QED BY <1>1, <2>1, <2>3
<1>6. PICK n \in G : \A m \in G : n <= m
  BY <1>5, NatMin
<1>7. next .. n - 1 \subseteq T
  BY <1>6
<1>8. n \in next .. next + c /\ n \notin T
  BY <1>1, <1>4, <1>6, <1>7
<1>9. \E k \in next .. next + Cardinality(rows) :
        k \notin Seqs(rows) /\ next .. k - 1 \subseteq Seqs(rows)
  BY <1>7, <1>8 DEF c, T
<1>10. /\ NextExpected(rows, next) \in next .. next + c
       /\ NextExpected(rows, next) \notin Seqs(rows)
       /\ next .. NextExpected(rows, next) - 1 \subseteq Seqs(rows)
  BY <1>9 DEF NextExpected, c
<1> QED BY <1>1, <1>10

-----------------------------------------------------------------------------
(* Soundness is kept while clients process more and enqueue more.          *)

Grows ==
  /\ \A p \in Peers : Told(p) \subseteq Told(p)'
  /\ \A p \in Peers : Numbers(p) \subseteq Numbers(p)'

LEMMA MessageKept ==
  ASSUME Grows, NEW p \in Peers, NEW m, MessageSound(p, m)
  PROVE  MessageSound(p, m)'
BY DEF Grows, MessageSound

LEMMA RowsKept ==
  ASSUME Grows, NEW p \in Peers, NEW rows, RowsSound(p, rows)
  PROVE  RowsSound(p, rows)'
BY OtherEnd DEF Grows, RowsSound

LEMMA BlockKept ==
  ASSUME Grows, NEW p \in Peers, NEW b, BlockSound(p, b)
  PROVE  BlockSound(p, b)'
<1>1. ASSUME b.type = "incoming" PROVE RowsSound(p, b.rows)' /\ b.next \in Nat
  BY <1>1, RowsKept DEF BlockSound
<1>2. ASSUME b.type = "outgoing"
      PROVE  b.rows \subseteq Numbers(p)' /\ \A x \in b.resends : x.seq \in Numbers(p)'
  BY <1>2 DEF BlockSound, Grows
<1> QED BY <1>1, <1>2 DEF BlockSound

LEMMA QueryKept ==
  ASSUME Functions, Functions', Grows, NEW p \in Peers, NEW q, QuerySound(p, q)
  PROVE  QuerySound(p, q)'
<1>1. /\ Other(p) \in Peers /\ processed[Other(p)] \in Nat
      /\ processed'[Other(p)] \in Nat
  BY OtherEnd DEF Functions
<1>2. processed[Other(p)] \in Told(Other(p))
  BY <1>1 DEF Told
<1>3. processed[Other(p)] <= processed'[Other(p)]
  BY <1>1, <1>2 DEF Grows, Told
<1> QED BY <1>1, <1>3 DEF QuerySound

LEMMA RequestKept ==
  ASSUME Grows, NEW p \in Peers, NEW r, RequestSound(p, r)
  PROVE  RequestSound(p, r)'
BY MessageKept DEF RequestSound

LEMMA OutgoingKept ==
  ASSUME Grows, NEW p \in Peers, OutgoingSound(p), outgoing'[p] = outgoing[p]
  PROVE  OutgoingSound(p)'
BY DEF Grows, OutgoingSound

LEMMA NetworkKept ==
  ASSUME Grows, NEW p \in Peers, NetworkSound(p), network'[p] = network[p]
  PROVE  NetworkSound(p)'
<1>1. PICK S : network[p] \in Seq(S) /\ \A m \in S : MessageSound(Other(p), m)
  BY DEF NetworkSound
<1>2. \A m \in S : MessageSound(Other(p), m)'
  BY <1>1, MessageKept, OtherEnd
<1> QED BY <1>1, <1>2 DEF NetworkSound

LEMMA StageKept ==
  ASSUME Grows, NEW p \in Peers, StageSound(p), stage'[p] = stage[p]
  PROVE  StageSound(p)'
<1>1. PICK S : stage[p] \in Seq(S) /\ \A b \in S : BlockSound(p, b)
  BY DEF StageSound
<1>2. \A b \in S : BlockSound(p, b)'
  BY <1>1, BlockKept
<1> QED BY <1>1, <1>2 DEF StageSound

(* Blocks are run from the front and posted at the end.                    *)
LEMMA StagePosted ==
  ASSUME Grows, NEW p \in Peers, StageSound(p), NEW new, NEW T, new \in Seq(T),
         \A b \in T : BlockSound(p, b)',
         \/ stage'[p] = stage[p] \o new
         \/ stage[p] # <<>> /\ stage'[p] = Tail(stage[p]) \o new
  PROVE  StageSound(p)'
<1>1. PICK S : stage[p] \in Seq(S) /\ \A b \in S : BlockSound(p, b)
  BY DEF StageSound
<1>2. \A b \in S \cup T : BlockSound(p, b)'
  BY <1>1, BlockKept
<1>3. stage'[p] \in Seq(S \cup T)
  BY <1>1, SeqUnion, SeqRest
<1> QED BY <1>2, <1>3 DEF StageSound

LEMMA StageRun ==
  ASSUME Grows, NEW p \in Peers, StageSound(p), stage[p] # <<>>,
         stage'[p] = Tail(stage[p])
  PROVE  StageSound(p)'
<1>1. PICK S : stage[p] \in Seq(S) /\ \A b \in S : BlockSound(p, b)
  BY DEF StageSound
<1>2. \A b \in S : BlockSound(p, b)'
  BY <1>1, BlockKept
<1>3. stage'[p] \in Seq(S)
  BY <1>1, SeqRest
<1> QED BY <1>2, <1>3 DEF StageSound

LEMMA WritesKept ==
  ASSUME Functions, Functions', Grows, NEW p \in Peers, WritesSound(p),
         \/ writes'[p] = writes[p]
         \/ writes[p] # <<>> /\ writes'[p] = Tail(writes[p])
  PROVE  WritesSound(p)'
<1>1. PICK S : writes[p] \in Seq(S) /\ \A q \in S : QuerySound(p, q)
  BY DEF WritesSound
<1>2. \A q \in S : QuerySound(p, q)'
  BY <1>1, QueryKept
<1>3. writes'[p] \in Seq(S)
  BY <1>1, SeqRest
<1> QED BY <1>2, <1>3 DEF WritesSound

(* The query at the front of the database thread.                          *)
LEMMA QueryRun ==
  ASSUME NEW p \in Peers, WritesSound(p), writes[p] # <<>>
  PROVE  QuerySound(p, Head(writes[p]))
BY SeqRest DEF WritesSound

(* The block at the front of the stage.                                    *)
LEMMA BlockRun ==
  ASSUME NEW p \in Peers, StageSound(p), stage[p] # <<>>
  PROVE  BlockSound(p, Head(stage[p]))
BY SeqRest DEF StageSound

(* A client nothing happens to.                                            *)
Same(p) ==
  /\ seqIn'[p] = seqIn[p] /\ outgoing'[p] = outgoing[p] /\ network'[p] = network[p]
  /\ stage'[p] = stage[p] /\ writes'[p] = writes[p] /\ stored'[p] = stored[p]
  /\ resends'[p] = resends[p] /\ requests'[p] = requests[p]
  /\ incoming'[p] = incoming[p]

(* Parts of Sound for one client.                                          *)
Tables(p) ==
  /\ seqIn[p] \in Told(p) /\ stored[p] \subseteq Numbers(p)
  /\ \A x \in resends[p] : x.seq \in Numbers(p)
  /\ RowsSound(p, incoming[p])
RequestsSound(p) == \A r \in requests[p] : RequestSound(p, r)

LEMMA SoundParts ==
  \A p : Sound(p) <=> /\ Tables(p) /\ RequestsSound(p) /\ OutgoingSound(p)
                      /\ NetworkSound(p) /\ StageSound(p) /\ WritesSound(p)
BY DEF Sound, Tables, RequestsSound

LEMMA TablesKept ==
  ASSUME Grows, NEW p \in Peers, Tables(p), seqIn'[p] = seqIn[p],
         stored'[p] \subseteq stored[p],
         \A x \in resends'[p] : x \in resends[p] \/ x.seq \in Numbers(p),
         incoming'[p] \subseteq incoming[p]
  PROVE  Tables(p)'
<1>1. RowsSound(p, incoming[p]) /\ IsFiniteSet(incoming'[p])
  BY FS_Subset DEF Tables, RowsSound
<1>2. \A r \in incoming'[p] : r.seq \in Nat /\ r.seqIn \in Told(Other(p))'
  BY <1>1, OtherEnd DEF RowsSound, Grows
<1>3. RowsSound(p, incoming[p])'
  BY <1>1, <1>2 DEF RowsSound
<1> QED BY <1>3 DEF Tables, Grows

LEMMA RequestsKept ==
  ASSUME Grows, NEW p \in Peers, RequestsSound(p), requests'[p] \subseteq requests[p]
  PROVE  RequestsSound(p)'
BY RequestKept DEF RequestsSound

LEMMA SameSound ==
  ASSUME Functions, Functions', Grows, NEW p \in Peers, Sound(p), Same(p)
  PROVE  Sound(p)'
<1>1. Tables(p)' /\ RequestsSound(p)'
  BY SoundParts, TablesKept, RequestsKept DEF Same
<1>2. OutgoingSound(p)' /\ NetworkSound(p)' /\ StageSound(p)' /\ WritesSound(p)'
  BY SoundParts, OutgoingKept, NetworkKept, StageKept, WritesKept DEF Same
<1> QED BY <1>1, <1>2 DEF Sound, Tables, RequestsSound

LEMMA Steady ==
  ASSUME UNCHANGED <<outgoing, processed>>
  PROVE  Grows
BY DEF Grows, Told, Numbers

LEMMA KeptKept ==
  ASSUME KeptUntilProcessed, UNCHANGED <<outgoing, stored, processed>>
  PROVE  KeptUntilProcessed'
BY DEF KeptUntilProcessed

(* One client acts and nothing is enqueued, confirmed or applied.          *)
LEMMA StepSound ==
  ASSUME Inv, Functions', NEW p \in Peers,
         \A q \in Peers \ {p} : Same(q), UNCHANGED <<outgoing, stored, processed>>,
         Tables(p)', RequestsSound(p)', NetworkSound(p)', StageSound(p)', WritesSound(p)'
  PROVE  Inv'
<1>1. Grows
  BY Steady
<1>2. \A q \in Peers \ {p} : Sound(q)'
  BY <1>1, SameSound DEF Inv
<1>3. OutgoingSound(p)'
  BY <1>1, OutgoingKept DEF Inv, Sound
<1>4. Sound(p)'
  BY <1>3 DEF Sound, Tables, RequestsSound
<1> QED BY <1>2, <1>4, KeptKept DEF Inv

(* Enqueueing: the row says what its client has processed.                 *)
LEMMA EnqueueSound ==
  ASSUME Inv, NEW p \in Peers, NEW body, Enqueue(p, body), UNCHANGED processed
  PROVE  /\ Grows /\ KeptUntilProcessed' /\ OutgoingSound(p)'
         /\ stored'[p] = stored[p] \cup {Len(outgoing[p])}
         /\ stored'[p] \subseteq Numbers(p)'
         /\ \A q \in Peers \ {p} : outgoing'[q] = outgoing[q] /\ stored'[q] = stored[q]
         /\ DOMAIN outgoing' = Peers /\ DOMAIN stored' = Peers
<1>1. PICK row : row = [seqIn |-> seqIn[p], body |-> body]
  OBVIOUS
<1>2. PICK S : outgoing[p] \in Seq(S) /\ \A x \in S : x.seqIn \in Told(p)
  BY DEF Inv, Sound, OutgoingSound
<1>3. DOMAIN outgoing = Peers /\ DOMAIN stored = Peers
  BY DEF Inv, Functions
<1>4. /\ outgoing' = [outgoing EXCEPT ![p] = Append(outgoing[p], row)]
      /\ stored' = [stored EXCEPT ![p] = stored[p] \cup {Len(outgoing[p])}]
  BY <1>1 DEF Enqueue
<1>5. outgoing'[p] = Append(outgoing[p], row) /\ stored'[p] = stored[p] \cup {Len(outgoing[p])}
  BY <1>3, <1>4
<1>6. \A q \in Peers \ {p} : outgoing'[q] = outgoing[q] /\ stored'[q] = stored[q]
  BY <1>3, <1>4
<1>7. row.seqIn = seqIn[p] /\ seqIn[p] \in Told(p) /\ Told(p)' = Told(p)
  BY <1>1 DEF Inv, Sound, Told
<1>8. outgoing[p] \in Seq(S \cup {row}) /\ row \in S \cup {row}
  BY <1>2, SeqMonotonic
<1>9. /\ Append(outgoing[p], row) \in Seq(S \cup {row})
      /\ Len(Append(outgoing[p], row)) = Len(outgoing[p]) + 1 /\ Len(outgoing[p]) \in Nat
  BY <1>8, AppendProperties, LenProperties
<1>10. OutgoingSound(p)'
  <2>1. \A x \in S \cup {row} : x.seqIn \in Told(p)'
    BY <1>2, <1>7
  <2> QED BY <1>5, <1>9, <2>1 DEF OutgoingSound
<1>11. Numbers(p) \subseteq Numbers(p)' /\ Len(outgoing[p]) \in Numbers(p)'
  BY <1>5, <1>9 DEF Numbers
<1>12. Grows
  BY <1>6, <1>11 DEF Grows, Told, Numbers
<1>13. stored'[p] \subseteq Numbers(p)'
  BY <1>5, <1>11 DEF Inv, Sound
<1>14. KeptUntilProcessed'
  <2> SUFFICES ASSUME NEW q \in Peers, NEW n \in 0 .. Len(outgoing'[q]) - 1, n \notin stored'[q]
               PROVE  n < processed'[Other(q)]
    BY DEF KeptUntilProcessed
  <2>1. n \in 0 .. Len(outgoing[q]) - 1 /\ n \notin stored[q]
    <3>1. CASE q = p
      BY <1>5, <1>9, <3>1
    <3>2. CASE q # p
      BY <1>6, <3>2
    <3> QED BY <3>1, <3>2
  <2> QED BY <2>1 DEF Inv, KeptUntilProcessed
<1>15. DOMAIN outgoing' = Peers /\ DOMAIN stored' = Peers
  BY <1>3, <1>4
<1> QED BY <1>5, <1>6, <1>10, <1>12, <1>13, <1>14, <1>15

-----------------------------------------------------------------------------
(* Actions                                                                 *)

LEMMA InitInv == Init => Inv
<1> SUFFICES ASSUME Init PROVE Inv
  OBVIOUS
<1>1. Functions
  BY DEF Init, Functions
<1>2. ASSUME NEW p \in Peers PROVE Sound(p)
  <2>1. PICK S : S = {}
    OBVIOUS
  <2>2. /\ outgoing[p] \in Seq(S) /\ network[p] \in Seq(S) /\ stage[p] \in Seq(S)
        /\ writes[p] \in Seq(S)
    BY <2>1 DEF Init
  <2>3. OutgoingSound(p) /\ NetworkSound(p)
    BY <2>1, <2>2 DEF OutgoingSound, NetworkSound
  <2>4. StageSound(p)
    BY <2>1, <2>2 DEF StageSound
  <2>5. WritesSound(p)
    BY <2>1, <2>2 DEF WritesSound
  <2>6. RowsSound(p, incoming[p])
    BY FS_EmptySet DEF Init, RowsSound
  <2>7. seqIn[p] \in Told(p)
    BY DEF Init, Told
  <2> QED BY <2>3, <2>4, <2>5, <2>6, <2>7 DEF Sound, Init
<1>3. KeptUntilProcessed
  BY DEF Init, KeptUntilProcessed
<1> QED BY <1>1, <1>2, <1>3 DEF Inv

(* A poll of the outgoing tables hands over numbers of rows.               *)
LEMMA PollSound ==
  ASSUME Inv, NEW p \in Peers, Grows, NEW rows, rows \subseteq Numbers(p)',
         NEW b, b = OutgoingBlock(p, rows)
  PROVE  BlockSound(p, b)'
<1>1. b.type = "outgoing" /\ b.rows \subseteq rows /\ b.resends = resends[p]
  BY DEF OutgoingBlock, Unsent
<1>2. \A x \in b.resends : x.seq \in Numbers(p)'
  BY <1>1 DEF Inv, Sound, Grows
<1> QED BY <1>1, <1>2 DEF BlockSound

LEMMA SendInv ==
  ASSUME Inv, NEW p \in Peers, Send(p)
  PROVE  Inv'
<1>1. /\ Enqueue(p, Text)
      /\ UNCHANGED <<seqIn, incoming, resends, requests, writes, network, processed>>
  BY DEF Send, history
<1>2. /\ Grows /\ KeptUntilProcessed' /\ OutgoingSound(p)'
      /\ stored'[p] = stored[p] \cup {Len(outgoing[p])}
      /\ stored'[p] \subseteq Numbers(p)'
      /\ \A q \in Peers \ {p} : outgoing'[q] = outgoing[q] /\ stored'[q] = stored[q]
      /\ DOMAIN outgoing' = Peers /\ DOMAIN stored' = Peers
  BY <1>1, EnqueueSound
<1>3. PICK rows : rows = stored'[p]
  OBVIOUS
<1>4. PICK b : b = OutgoingBlock(p, rows)
  OBVIOUS
<1>5. stage' = [stage EXCEPT ![p] = stage[p] \o <<b, b>>] /\ DOMAIN stage = Peers
  BY <1>2, <1>3, <1>4 DEF Send, Post, Inv, Functions
<1>6. Functions'
  BY <1>1, <1>2, <1>5 DEF Inv, Functions
<1>7. BlockSound(p, b)'
  BY <1>2, <1>3, <1>4, PollSound
<1>8. StageSound(p)'
  <2>1. PICK T, new : T = {b} /\ new = <<b, b>>
    OBVIOUS
  <2>2. new \in Seq(T) /\ \A x \in T : BlockSound(p, x)'
    BY <1>7, <2>1
  <2>3. stage'[p] = stage[p] \o new /\ StageSound(p)
    BY <1>5, <2>1 DEF Inv, Sound
  <2> QED BY <1>2, <2>2, <2>3, StagePosted
<1>9. \A q \in Peers \ {p} : Sound(q)'
  <2>1. \A q \in Peers \ {p} : Same(q)
    BY <1>1, <1>2, <1>5 DEF Same
  <2> QED BY <1>2, <1>6, <2>1, SameSound DEF Inv
<1>10. NetworkSound(p)' /\ WritesSound(p)' /\ RequestsSound(p)'
  BY <1>1, <1>2, <1>6, NetworkKept, WritesKept, RequestsKept DEF Inv, Sound,
      RequestsSound
<1>11. RowsSound(p, incoming[p])'
  BY <1>1, <1>2, RowsKept DEF Inv, Sound
<1>12. seqIn'[p] \in Told(p)' /\ \A x \in resends'[p] : x.seq \in Numbers(p)'
  BY <1>1, <1>2 DEF Inv, Sound, Grows
<1>13. Sound(p)'
  BY <1>2, <1>8, <1>10, <1>11, <1>12 DEF Sound, RequestsSound
<1> QED BY <1>2, <1>6, <1>9, <1>13 DEF Inv

LEMMA RunPollOutgoingInv ==
  ASSUME Inv, NEW p \in Peers, RunPollOutgoing(p)
  PROVE  Inv'
<1>1. /\ UNCHANGED <<outgoing, stored, seqIn, incoming, resends, requests, writes, network,
                     processed>>
      /\ stage[p] # <<>>
  BY DEF RunPollOutgoing, Runs, persistent, history
<1>2. Grows
  BY <1>1, Steady
<1>3. PICK rows : rows = stored[p]
  OBVIOUS
<1>4. PICK b : b = OutgoingBlock(p, rows)
  OBVIOUS
<1>5. stage' = [stage EXCEPT ![p] = Append(Tail(stage[p]), b)] /\ DOMAIN stage = Peers
  BY <1>3, <1>4 DEF RunPollOutgoing, Inv, Functions
<1>6. BlockSound(p, b)'
  BY <1>2, <1>3, <1>4, PollSound DEF Inv, Sound, Grows
<1>7. StageSound(p)'
  <2>1. PICK S : stage[p] \in Seq(S)
    BY DEF Inv, Sound, StageSound
  <2>2. Append(Tail(stage[p]), b) = Tail(stage[p]) \o <<b>>
    BY <1>1, <2>1, SeqRest, AppendIsConcat
  <2>3. stage'[p] = Tail(stage[p]) \o <<b>>
    BY <1>5, <2>2
  <2>4. <<b>> \in Seq({b}) /\ \A x \in {b} : BlockSound(p, x)'
    BY <1>6
  <2> QED BY <1>1, <1>2, <2>3, <2>4, StagePosted DEF Inv, Sound
<1>8. Functions' /\ \A q \in Peers \ {p} : Same(q)
  BY <1>1, <1>5 DEF Inv, Functions, Same
<1>9. Tables(p)' /\ RequestsSound(p)' /\ NetworkSound(p)' /\ WritesSound(p)'
  BY <1>1, <1>2, <1>8, TablesKept, RequestsKept, NetworkKept, WritesKept, SoundParts
      DEF Inv
<1> QED BY <1>1, <1>7, <1>8, <1>9, StepSound

(* A request carries the row's seqIn.                                      *)
LEMMA RunOutgoingInv ==
  ASSUME Inv, NEW p \in Peers, RunOutgoing(p)
  PROVE  Inv'
<1>1. /\ UNCHANGED <<outgoing, stored, seqIn, incoming, resends, writes, network, processed>>
      /\ stage[p] # <<>> /\ Head(stage[p]).type = "outgoing"
  BY DEF RunOutgoing, Runs, persistent, history
<1>2. Grows
  BY <1>1, Steady
<1>3. PICK new : new = NewRows(p, Head(stage[p]))
  OBVIOUS
<1>4. \A r \in new : r.seq \in Numbers(p)
  <2>1. BlockSound(p, Head(stage[p]))
    BY <1>1, BlockRun DEF Inv, Sound
  <2>2. /\ Head(stage[p]).rows \subseteq Numbers(p)
        /\ \A x \in Head(stage[p]).resends : x.seq \in Numbers(p)
    BY <1>1, <2>1 DEF BlockSound
  <2>3. ASSUME NEW r \in new
        PROVE  \/ \E n \in Head(stage[p]).rows :
                    r = [id |-> OutgoingId(n), seq |-> n, resend |-> FALSE]
               \/ \E x \in Head(stage[p]).resends :
                    r = [id |-> x.id, seq |-> x.seq, resend |-> TRUE]
    BY <1>3, <2>3 DEF NewRows
  <2> QED BY <2>2, <2>3
<1>5. PICK made : made =
        {[row |-> r, accepted |-> FALSE, after |-> Before(p, new, r.seq),
          message |-> Message(p, r.seq, Content(p, r.id, r.seq))] : r \in new}
  OBVIOUS
<1>6. /\ requests' = [requests EXCEPT ![p] = requests[p] \cup made]
      /\ stage' = [stage EXCEPT ![p] = Tail(stage[p])]
      /\ DOMAIN stage = Peers /\ DOMAIN requests = Peers
  BY <1>3, <1>5 DEF RunOutgoing, Inv, Functions
<1>7. ASSUME NEW x \in made PROVE RequestSound(p, x)
  <2>1. PICK r \in new :
          x = [row |-> r, accepted |-> FALSE, after |-> Before(p, new, r.seq),
               message |-> Message(p, r.seq, Content(p, r.id, r.seq))]
    BY <1>5, <1>7
  <2>2. PICK S : outgoing[p] \in Seq(S) /\ \A y \in S : y.seqIn \in Told(p)
    BY DEF Inv, Sound, OutgoingSound
  <2>3. r.seq \in Nat /\ r.seq + 1 \in 1 .. Len(outgoing[p])
    BY <1>4, <2>2 DEF Numbers
  <2>4. outgoing[p][r.seq + 1].seqIn \in Told(p)
    BY <2>2, <2>3, ElementOfSeq
  <2>5. x.message.seqOut = Wire(r.seq, p = Creator)
        /\ x.message.seqIn = Wire(outgoing[p][r.seq + 1].seqIn, p # Creator)
    BY <2>1 DEF Message
  <2>6. MessageSound(p, x.message)
    BY <2>3, <2>4, <2>5 DEF MessageSound
  <2>7. "message" \in DOMAIN x
    BY <2>1
  <2> QED BY <2>6, <2>7 DEF RequestSound
<1>8. RequestsSound(p)'
  <2>1. \A x \in requests'[p] : RequestSound(p, x)
    BY <1>6, <1>7 DEF Inv, Sound
  <2> QED BY <1>2, <2>1, RequestKept DEF RequestsSound
<1>9. StageSound(p)'
  BY <1>1, <1>2, <1>6, StageRun DEF Inv, Sound
<1>10. Functions' /\ \A q \in Peers \ {p} : Same(q)
  BY <1>1, <1>6 DEF Inv, Functions, Same
<1>11. Tables(p)' /\ NetworkSound(p)' /\ WritesSound(p)'
  BY <1>1, <1>2, <1>10, TablesKept, NetworkKept, WritesKept, SoundParts DEF Inv
<1> QED BY <1>1, <1>8, <1>9, <1>10, <1>11, StepSound

(* The server passes a request's message on as it is.                      *)
LEMMA AcceptInv ==
  ASSUME Inv, NEW p \in Peers, Accept(p)
  PROVE  Inv'
<1>1. UNCHANGED <<outgoing, stored, seqIn, incoming, resends, stage, writes, processed>>
  BY DEF Accept, persistent, history
<1>2. Grows
  BY <1>1, Steady
<1>3. PICK o \in Peers : o = Other(p)
  BY OtherEnd
<1>4. PICK r \in requests[p] :
        /\ requests' = [requests EXCEPT ![p] =
                          (requests[p] \ {r}) \cup {[r EXCEPT !.accepted = TRUE]}]
        /\ network' = [network EXCEPT ![o] = Append(network[o], r.message)]
  BY <1>3 DEF Accept
<1>5. DOMAIN requests = Peers /\ DOMAIN network = Peers
  BY DEF Inv, Functions
<1>6. Functions'
  BY <1>1, <1>4, <1>5 DEF Inv, Functions
<1>7. RequestSound(p, r)
  BY DEF Inv, Sound
<1>8. RequestSound(p, [r EXCEPT !.accepted = TRUE])
  <2>1. PICK a : a = [r EXCEPT !.accepted = TRUE]
    OBVIOUS
  <2>2. "message" \in DOMAIN a /\ a.message = r.message
    BY <1>7, <2>1 DEF RequestSound
  <2> QED BY <1>7, <2>1, <2>2 DEF RequestSound
<1>9. RequestsSound(p)'
  <2>1. PICK a : a = [r EXCEPT !.accepted = TRUE]
    OBVIOUS
  <2>2. \A x \in requests'[p] : RequestSound(p, x)
    BY <1>4, <1>5, <1>8, <2>1 DEF Inv, Sound
  <2> QED BY <1>2, <2>2, RequestKept DEF RequestsSound
<1>10. NetworkSound(o)'
  <2>1. PICK m : m = r.message
    OBVIOUS
  <2>2. PICK S : network[o] \in Seq(S) /\ \A x \in S : MessageSound(p, x)
    BY <1>3, OtherEnd DEF Inv, Sound, NetworkSound
  <2>3. MessageSound(p, m)
    BY <1>7, <2>1 DEF RequestSound
  <2>4. PICK T : T = S \cup {m}
    OBVIOUS
  <2>5. network[o] \in Seq(T) /\ m \in T
    BY <2>2, <2>4, SeqMonotonic
  <2>6. Append(network[o], m) \in Seq(T)
    BY <2>5, AppendProperties
  <2>7. network'[o] \in Seq(T)
    BY <1>4, <1>5, <2>1, <2>6
  <2>8. \A x \in T : MessageSound(p, x)'
    BY <1>2, <2>2, <2>3, <2>4, MessageKept
  <2>9. Other(o) = p
    BY <1>3, OtherEnd
  <2> QED BY <2>7, <2>8, <2>9 DEF NetworkSound
<1>11. Sound(p)'
  <2>1. network'[p] = network[p]
    BY <1>3, <1>4, <1>5, OtherEnd
  <2>2. Tables(p)' /\ NetworkSound(p)' /\ StageSound(p)' /\ WritesSound(p)' /\ OutgoingSound(p)'
    BY <1>1, <1>2, <1>6, <2>1, TablesKept, NetworkKept, StageKept, WritesKept,
        OutgoingKept,
       SoundParts DEF Inv
  <2> QED BY <1>9, <2>2 DEF Sound, Tables, RequestsSound
<1>12. Sound(o)'
  <2>1. requests'[o] = requests[o]
    BY <1>3, <1>4, <1>5, OtherEnd
  <2>2. /\ Tables(o)' /\ RequestsSound(o)' /\ StageSound(o)' /\ WritesSound(o)'
        /\ OutgoingSound(o)'
    BY <1>1, <1>2, <1>6, <2>1, TablesKept, RequestsKept, StageKept, WritesKept,
        OutgoingKept,
       SoundParts DEF Inv
  <2> QED BY <1>10, <2>2 DEF Sound, Tables, RequestsSound
<1>13. \A q \in Peers : Sound(q)'
  BY <1>3, <1>11, <1>12, OtherEnd
<1> QED BY <1>1, <1>6, <1>13, KeptKept DEF Inv

(* Answers only take requests and copies away.                             *)
LEMMA AnswerInv ==
  ASSUME Inv, NEW p \in Peers, Complete(p) \/ Fail(p)
  PROVE  Inv'
<1>1. UNCHANGED <<outgoing, stored, seqIn, incoming, stage, writes, network, processed>>
  BY DEF Complete, Fail, persistent, history
<1>2. Grows
  BY <1>1, Steady
<1>3. DOMAIN requests = Peers /\ DOMAIN resends = Peers
  BY DEF Inv, Functions
<1>4. PICK r \in requests[p] :
        /\ requests' = [requests EXCEPT ![p] = @ \ {r}]
        /\ \/ resends' = [resends EXCEPT ![p] = {x \in @ : x.id # r.row.id}]
           \/ resends' = resends
  BY DEF Complete, Fail, persistent
<1>5. /\ requests'[p] \subseteq requests[p] /\ resends'[p] \subseteq resends[p]
      /\ \A q \in Peers \ {p} : requests'[q] = requests[q] /\ resends'[q] = resends[q]
      /\ DOMAIN requests' = Peers /\ DOMAIN resends' = Peers
  BY <1>3, <1>4
<1>6. Functions' /\ \A q \in Peers \ {p} : Same(q)
  BY <1>1, <1>5 DEF Inv, Functions, Same
<1>7. Tables(p)' /\ RequestsSound(p)' /\ NetworkSound(p)' /\ StageSound(p)' /\ WritesSound(p)'
  BY <1>1, <1>2, <1>5, <1>6, TablesKept, RequestsKept, NetworkKept, StageKept,
      WritesKept,
     SoundParts DEF Inv
<1> QED BY <1>1, <1>6, <1>7, StepSound

(* What is received is what the peer has said.                             *)
LEMMA ReceivedSound ==
  ASSUME Inv, NEW p \in Peers, NEW k \in 1 .. Len(network[p])
  PROVE  RowsSound(p, incoming[p] \cup NewIncoming(p, k))
<1>1. PICK S : network[p] \in Seq(S) /\ \A m \in S : MessageSound(Other(p), m)
  BY DEF Inv, Sound, NetworkSound
<1> DEFINE J == {j \in 1 .. k : Genuine(p, network[p][j])}
           row(i) == [id |-> lastId[p].incoming + i, seq |-> Halved(network[p][i].seqOut),
                      seqIn |-> Halved(network[p][i].seqIn), content |-> network[p][i].content]
           f == [i \in J |-> row(i)]
<1>2. NewIncoming(p, k) = {row(i) : i \in J}
  BY DEF NewIncoming
<1>3. J \in SUBSET (1 .. k) /\ k \in Int /\ Len(network[p]) \in Nat
  BY <1>1
<1>4. IsFiniteSet(J)
  <2> HIDE DEF J
  <2>1. IsFiniteSet(1 .. k)
    BY <1>3, FS_Interval
  <2> QED BY <1>3, <2>1, FS_Subset
<1>5. ASSUME NEW i \in J PROVE row(i).seq \in Nat /\ row(i).seqIn \in Told(Other(p))
  <2>1. network[p][i] \in S
    BY <1>1, <1>3, ElementOfSeq
  <2>2. PICK n \in Nat, x \in Told(Other(p)) :
          /\ network[p][i].seqOut = Wire(n, Other(p) = Creator)
          /\ network[p][i].seqIn = Wire(x, Other(p) # Creator)
    BY <1>1, <2>1 DEF MessageSound
  <2>3. x \in Nat
    BY <2>2, OtherEnd DEF Told, Inv, Functions
  <2>4. Halved(network[p][i].seqOut) = n /\ Halved(network[p][i].seqIn) = x
    BY <2>2, <2>3, Halves
  <2>5. row(i).seq = n /\ row(i).seqIn = x
    BY <2>4
  <2> QED BY <2>2, <2>5
<1> HIDE DEF row, J
<1>6. f \in Surjection(J, NewIncoming(p, k))
  BY <1>2 DEF Surjection
<1> HIDE DEF f
<1>7. IsFiniteSet(NewIncoming(p, k))
  BY <1>4, <1>6, FS_Surjection
<1>8. RowsSound(p, incoming[p])
  BY DEF Inv, Sound
<1>9. IsFiniteSet(incoming[p] \cup NewIncoming(p, k))
  BY <1>7, <1>8, FS_Union DEF RowsSound
<1> QED BY <1>2, <1>5, <1>8, <1>9 DEF RowsSound

LEMMA ReceiveInv ==
  ASSUME Inv, NEW p \in Peers, Receive(p)
  PROVE  Inv'
<1>1. UNCHANGED <<outgoing, stored, seqIn, resends, requests, writes, processed>>
  BY DEF Receive, history
<1>2. Grows
  BY <1>1, Steady
<1>3. PICK k \in 1 .. Len(network[p]) :
        /\ incoming' = [incoming EXCEPT ![p] = incoming[p] \cup NewIncoming(p, k)]
        /\ Post(p, <<IncomingBlock(incoming[p] \cup NewIncoming(p, k), seqIn[p])>>)
        /\ network' = [network EXCEPT ![p] = SubSeq(network[p], k + 1, Len(network[p]))]
  BY DEF Receive
<1>4. PICK rows : rows = incoming[p] \cup NewIncoming(p, k)
  OBVIOUS
<1>5. PICK b : b = IncomingBlock(rows, seqIn[p])
  OBVIOUS
<1>6. /\ incoming' = [incoming EXCEPT ![p] = rows]
      /\ stage' = [stage EXCEPT ![p] = stage[p] \o <<b>>]
      /\ DOMAIN incoming = Peers /\ DOMAIN stage = Peers /\ DOMAIN network = Peers
  BY <1>3, <1>4, <1>5 DEF Post, Inv, Functions
<1>7. RowsSound(p, rows)
  BY <1>4, ReceivedSound
<1>8. RowsSound(p, rows)'
  BY <1>2, <1>7, RowsKept
<1>9. BlockSound(p, b)'
  <2>1. b.type = "incoming" /\ b.rows = rows /\ b.next = seqIn[p] /\ seqIn[p] \in Nat
    BY <1>5 DEF IncomingBlock, Inv, Functions
  <2> QED BY <1>8, <2>1 DEF BlockSound
<1>10. StageSound(p)'
  <2>1. PICK T, new : T = {b} /\ new = <<b>>
    OBVIOUS
  <2>2. new \in Seq(T) /\ \A x \in T : BlockSound(p, x)'
    BY <1>9, <2>1
  <2>3. stage'[p] = stage[p] \o new /\ StageSound(p)
    BY <1>6, <2>1 DEF Inv, Sound
  <2> QED BY <1>2, <2>2, <2>3, StagePosted
<1>11. NetworkSound(p)'
  <2>1. PICK S : network[p] \in Seq(S) /\ \A m \in S : MessageSound(Other(p), m)
    BY DEF Inv, Sound, NetworkSound
  <2>2. k + 1 \in Int /\ Len(network[p]) \in Int
        /\ \A i \in k + 1 .. Len(network[p]) : network[p][i] \in S
    BY <2>1, ElementOfSeq
  <2>3. SubSeq(network[p], k + 1, Len(network[p])) \in Seq(S)
    BY <2>2, SubSeqProperties
  <2>4. network'[p] \in Seq(S)
    BY <1>3, <1>6, <2>3
  <2>5. \A m \in S : MessageSound(Other(p), m)'
    BY <1>2, <2>1, MessageKept, OtherEnd
  <2> QED BY <2>4, <2>5 DEF NetworkSound
<1>12. Functions' /\ \A q \in Peers \ {p} : Same(q)
  BY <1>1, <1>3, <1>6 DEF Inv, Functions, Same
<1>13. Tables(p)'
  <2>1. incoming'[p] = rows
    BY <1>6
  <2>2. /\ seqIn'[p] \in Told(p)' /\ stored'[p] \subseteq Numbers(p)'
        /\ \A x \in resends'[p] : x.seq \in Numbers(p)'
    BY <1>1, <1>2 DEF Inv, Sound, Grows
  <2> QED BY <1>8, <2>1, <2>2 DEF Tables
<1>14. RequestsSound(p)' /\ WritesSound(p)'
  BY <1>1, <1>2, <1>12, RequestsKept, WritesKept, SoundParts DEF Inv
<1> QED BY <1>1, <1>10, <1>11, <1>12, <1>13, <1>14, StepSound

LEMMA RunPollIncomingInv ==
  ASSUME Inv, NEW p \in Peers, RunPollIncoming(p)
  PROVE  Inv'
<1>1. /\ UNCHANGED <<outgoing, stored, seqIn, incoming, resends, requests, writes, network,
                     processed>>
      /\ stage[p] # <<>>
  BY DEF RunPollIncoming, Runs, persistent, history
<1>2. Grows
  BY <1>1, Steady
<1>3. PICK b : b = IncomingBlock(incoming[p], seqIn[p])
  OBVIOUS
<1>4. stage' = [stage EXCEPT ![p] = Append(Tail(stage[p]), b)] /\ DOMAIN stage = Peers
  BY <1>3 DEF RunPollIncoming, Inv, Functions
<1>5. BlockSound(p, b)
  BY <1>3 DEF BlockSound, IncomingBlock, Inv, Sound, Functions
<1>6. StageSound(p)'
  <2>1. PICK S : stage[p] \in Seq(S)
    BY DEF Inv, Sound, StageSound
  <2>2. PICK T, new : T = {b} /\ new = <<b>>
    OBVIOUS
  <2>3. Append(Tail(stage[p]), b) = Tail(stage[p]) \o new
    BY <1>1, <2>1, <2>2, SeqRest, AppendIsConcat
  <2>4. stage'[p] = Tail(stage[p]) \o new
    BY <1>4, <2>3
  <2>5. new \in Seq(T) /\ \A x \in T : BlockSound(p, x)'
    BY <1>2, <1>5, <2>2, BlockKept
  <2> QED BY <1>1, <1>2, <2>4, <2>5, StagePosted DEF Inv, Sound
<1>7. Functions' /\ \A q \in Peers \ {p} : Same(q)
  BY <1>1, <1>4 DEF Inv, Functions, Same
<1>8. Tables(p)' /\ RequestsSound(p)' /\ NetworkSound(p)' /\ WritesSound(p)'
  BY <1>1, <1>2, <1>7, TablesKept, RequestsKept, NetworkKept, WritesKept, SoundParts
      DEF Inv
<1> QED BY <1>1, <1>6, <1>7, <1>8, StepSound

(* Queries that wait on the database thread.                               *)
QueriesSound(p, s) == \E S : s \in Seq(S) /\ \A q \in S : QuerySound(p, q)

LEMMA QueriesOne ==
  ASSUME NEW p, NEW q, QuerySound(p, q)
  PROVE  QueriesSound(p, <<q>>)
<1>1. PICK S : S = {q}
  OBVIOUS
<1>2. <<q>> \in Seq(S) /\ \A x \in S : QuerySound(p, x)
  BY <1>1
<1> QED BY <1>2 DEF QueriesSound

LEMMA QueriesNone ==
  ASSUME NEW p
  PROVE  QueriesSound(p, <<>>)
<1>1. PICK S : S = {}
  OBVIOUS
<1>2. <<>> \in Seq(S) /\ \A x \in S : QuerySound(p, x)
  BY <1>1
<1> QED BY <1>2 DEF QueriesSound

LEMMA QueriesConcat ==
  ASSUME NEW p, NEW s, NEW t, QueriesSound(p, s), QueriesSound(p, t)
  PROVE  QueriesSound(p, s \o t)
<1>1. PICK S : s \in Seq(S) /\ \A q \in S : QuerySound(p, q)
  BY DEF QueriesSound
<1>2. PICK T : t \in Seq(T) /\ \A q \in T : QuerySound(p, q)
  BY DEF QueriesSound
<1>3. PICK U : U = S \cup T
  OBVIOUS
<1>4. s \o t \in Seq(U) /\ \A q \in U : QuerySound(p, q)
  BY <1>1, <1>2, <1>3, SeqUnion
<1> QED BY <1>4 DEF QueriesSound

(* A block confirms only what the peer has said that it has processed.     *)
LEMMA ConfirmsSound ==
  ASSUME Inv, NEW p \in Peers, NEW rows, NEW next, RowsSound(p, rows)
  PROVE  QueriesSound(p, Confirms(rows, next))
<1>1. PICK b \in Nat : b = processed[Other(p)]
  BY OtherEnd DEF Inv, Functions
<1>2. PICK M : M = {r.seqIn : r \in InSequence(rows, next)} \cup {-1}
  OBVIOUS
<1>3. \A r \in InSequence(rows, next) : r.seqIn \in 0 .. b
  BY <1>1 DEF InSequence, RowsSound, Told
<1>4. b \in Int /\ M \subseteq Int /\ M # {} /\ \A x \in M : x <= b
  BY <1>1, <1>2, <1>3
<1>5. Max(M) \in M
  BY <1>4, BoundedMax
<1>6. PICK m \in Int : m = MaxSeqIn(rows, next) /\ m <= b
  BY <1>2, <1>4, <1>5 DEF MaxSeqIn
<1>7. CASE m > 0
  <2>1. PICK q : q = [type |-> "confirm", seq |-> m - 1]
    OBVIOUS
  <2>2. QuerySound(p, q)
    BY <1>1, <1>6, <1>7, <2>1 DEF QuerySound
  <2>3. Confirms(rows, next) = <<q>>
    BY <1>6, <1>7, <2>1 DEF Confirms
  <2> QED BY <2>2, <2>3, QueriesOne
<1>8. CASE ~(m > 0)
  BY <1>6, <1>8, QueriesNone DEF Confirms
<1> QED BY <1>7, <1>8

LEMMA SortedSeq ==
  ASSUME NEW rows, IsFiniteSet(rows)
  PROVE  Cardinality(rows) \in Nat /\ DOMAIN Sorted(rows) = 1 .. Cardinality(rows)
BY FS_CardinalityType DEF Sorted

LEMMA BlockWritesSound ==
  ASSUME Inv, NEW p \in Peers, NEW rows, NEW next \in Nat, RowsSound(p, rows)
  PROVE  QueriesSound(p, BlockWrites(rows, next))
<1> DEFINE process == ToProcess(rows, next)
           asked   == Sorted(OfType(process, "resend"))
           deleted == Seqs(OfType(process, "deletion"))
           texts   == Ascending(Seqs(OfType(process, "text")) \ deleted)
           d == [type |-> "delete", ids |-> {r.id : r \in rows \ Kept(rows, next)}]
           n == [type |-> "seqIn", seq |-> NextExpected(rows, next)]
           ask(i) == [type |-> "resend", from |-> Halved(asked[i].content.from),
                      to |-> Halved(asked[i].content.to)]
           resent == [i \in DOMAIN asked |-> ask(i)]
           added == IF texts # <<>> THEN <<[type |-> "add", seqs |-> texts]>> ELSE <<>>
           removed == IF deleted # {} THEN <<[type |-> "remove", seqs |-> deleted]>> ELSE <<>>
<1>1. BlockWrites(rows, next) =
        <<d, n>> \o Confirms(rows, next) \o resent \o added \o removed
  BY DEF BlockWrites
<1>2. QueriesSound(p, <<d, n>>)
  <2>1. NextExpected(rows, next) \in Nat
    BY NextThere DEF RowsSound
  <2>2. d.type = "delete" /\ n.type = "seqIn" /\ n.seq \in Nat
    BY <2>1
  <2> HIDE DEF d, n
  <2>3. QuerySound(p, d) /\ QuerySound(p, n)
    BY <2>2 DEF QuerySound
  <2>4. PICK S : S = {d, n}
    OBVIOUS
  <2>5. <<d, n>> \in Seq(S) /\ \A q \in S : QuerySound(p, q)
    BY <2>3, <2>4
  <2> QED BY <2>5 DEF QueriesSound
<1>3. QueriesSound(p, resent)
  <2>1. OfType(process, "resend") \in SUBSET rows
    BY DEF OfType, ToProcess, InSequence, EarlyResends, TooEarly
  <2>2. IsFiniteSet(OfType(process, "resend"))
    BY <2>1, FS_Subset DEF RowsSound
  <2>3. PICK c \in Nat : DOMAIN asked = 1 .. c
    BY <2>2, SortedSeq
  <2>4. PICK S : S = {ask(i) : i \in 1 .. c}
    OBVIOUS
  <2>5. \A q \in S : q.type = "resend"
    BY <2>4
  <2>6. \A q \in S : QuerySound(p, q)
    BY <2>5 DEF QuerySound
  <2>7. \A i \in 1 .. c : ask(i) \in S
    BY <2>4
  <2> HIDE DEF ask, asked, process
  <2>8. resent \in Seq(S)
    BY <2>3, <2>7
  <2> HIDE DEF resent
  <2> QED BY <2>6, <2>8 DEF QueriesSound
<1>4. QueriesSound(p, added)
  <2>1. PICK q : q = [type |-> "add", seqs |-> texts]
    OBVIOUS
  <2>2. QuerySound(p, q)
    BY <2>1 DEF QuerySound
  <2>3. added = <<q>> \/ added = <<>>
    BY <2>1
  <2> HIDE DEF added
  <2> QED BY <2>2, <2>3, QueriesOne, QueriesNone
<1>5. QueriesSound(p, removed)
  <2>1. PICK q : q = [type |-> "remove", seqs |-> deleted]
    OBVIOUS
  <2>2. QuerySound(p, q)
    BY <2>1 DEF QuerySound
  <2>3. removed = <<q>> \/ removed = <<>>
    BY <2>1
  <2> HIDE DEF removed
  <2> QED BY <2>2, <2>3, QueriesOne, QueriesNone
<1> HIDE DEF d, n, resent, added, removed
<1>6. QueriesSound(p, <<d, n>> \o Confirms(rows, next))
  BY <1>2, ConfirmsSound, QueriesConcat
<1>7. QueriesSound(p, <<d, n>> \o Confirms(rows, next) \o resent)
  BY <1>3, <1>6, QueriesConcat
<1>8. QueriesSound(p, <<d, n>> \o Confirms(rows, next) \o resent \o added)
  BY <1>4, <1>7, QueriesConcat
<1>9. QueriesSound(p, <<d, n>> \o Confirms(rows, next) \o resent \o added \o removed)
  BY <1>5, <1>8, QueriesConcat
<1> QED BY <1>1, <1>9

(* A block of the incoming queue, with the request for what is missing.    *)
LEMMA RunIncomingInv ==
  ASSUME Inv, NEW p \in Peers, RunIncoming(p)
  PROVE  Inv'
<1>1. /\ UNCHANGED <<seqIn, incoming, resends, requests, network, processed>>
      /\ stage[p] # <<>> /\ Head(stage[p]).type = "incoming"
      /\ stage' = [stage EXCEPT ![p] = Tail(stage[p])] /\ DOMAIN stage = Peers
      /\ DOMAIN writes = Peers
  BY DEF RunIncoming, Runs, history, Inv, Functions
<1>2. PICK rows, next : rows = Head(stage[p]).rows /\ next = Head(stage[p]).next
  OBVIOUS
<1>3. RowsSound(p, rows) /\ next \in Nat
  BY <1>1, <1>2, BlockRun DEF Inv, Sound, BlockSound
<1>4. PICK body, w, poll : /\ body = Missing(p, rows, next) /\ w = BlockWrites(rows, next)
                           /\ poll = [type |-> "poll"]
  OBVIOUS
<1>5. QueriesSound(p, w) /\ QuerySound(p, poll)
  BY <1>3, <1>4, BlockWritesSound DEF QuerySound
<1>6. QueriesSound(p, <<poll>> \o w)
  BY <1>5, QueriesOne, QueriesConcat
<1>7. \/ writes' = [writes EXCEPT ![p] = w] /\ UNCHANGED <<outgoing, stored>>
      \/ writes' = [writes EXCEPT ![p] = <<poll>> \o w] /\ Enqueue(p, body)
  BY <1>2, <1>4 DEF RunIncoming
<1>8. QueriesSound(p, writes'[p]) /\ DOMAIN writes' = Peers
      /\ \A q \in Peers \ {p} : writes'[q] = writes[q]
  BY <1>1, <1>5, <1>6, <1>7
<1>9. /\ Grows /\ KeptUntilProcessed' /\ OutgoingSound(p)'
      /\ stored'[p] \subseteq Numbers(p)'
      /\ \A q \in Peers \ {p} : outgoing'[q] = outgoing[q] /\ stored'[q] = stored[q]
      /\ DOMAIN outgoing' = Peers /\ DOMAIN stored' = Peers
  <2>1. CASE Enqueue(p, body)
    BY <1>1, <2>1, EnqueueSound
  <2>2. CASE UNCHANGED <<outgoing, stored>>
    <3>1. Grows /\ KeptUntilProcessed'
      BY <1>1, <2>2, Steady, KeptKept DEF Inv
    <3>2. OutgoingSound(p)'
      BY <2>2, <3>1, OutgoingKept DEF Inv, Sound
    <3> QED BY <2>2, <3>1, <3>2 DEF Inv, Functions, Sound, Grows
  <2> QED BY <1>7, <2>1, <2>2
<1>10. Functions'
  BY <1>1, <1>8, <1>9 DEF Inv, Functions
<1>11. WritesSound(p)'
  <2>1. PICK s : s = writes'[p]
    OBVIOUS
  <2>2. PICK S : s \in Seq(S) /\ \A q \in S : QuerySound(p, q)
    BY <1>8, <2>1 DEF QueriesSound
  <2>3. \A q \in S : QuerySound(p, q)'
    BY <1>9, <1>10, <2>2, QueryKept DEF Inv
  <2> QED BY <2>1, <2>2, <2>3 DEF WritesSound
<1>12. StageSound(p)' /\ NetworkSound(p)' /\ RequestsSound(p)'
  BY <1>1, <1>9, StageRun, NetworkKept, RequestsKept, SoundParts DEF Inv
<1>13. RowsSound(p, incoming[p])'
  BY <1>1, <1>9, RowsKept DEF Inv, Sound
<1>14. seqIn'[p] \in Told(p)' /\ \A x \in resends'[p] : x.seq \in Numbers(p)'
  BY <1>1, <1>9 DEF Inv, Sound, Grows
<1>15. Sound(p)'
  BY <1>9, <1>11, <1>12, <1>13, <1>14 DEF Sound, RequestsSound
<1>16. \A q \in Peers \ {p} : Sound(q)'
  <2>1. \A q \in Peers \ {p} : Same(q)
    BY <1>1, <1>8, <1>9 DEF Same
  <2> QED BY <1>9, <1>10, <2>1, SameSound DEF Inv
<1> QED BY <1>9, <1>10, <1>15, <1>16 DEF Inv

-----------------------------------------------------------------------------
(* The database thread.                                                    *)

LEMMA WritesStep ==
  ASSUME Inv, NEW p \in Peers, NEW type, Writes(p, type)
  PROVE  /\ UNCHANGED <<outgoing, requests, network>>
         /\ writes[p] # <<>> /\ Head(writes[p]).type = type
         /\ writes'[p] = Tail(writes[p]) /\ DOMAIN writes' = Peers
         /\ \A q \in Peers \ {p} : writes'[q] = writes[q]
         /\ QuerySound(p, Head(writes[p]))
<1>1. DOMAIN writes = Peers /\ WritesSound(p)
  BY DEF Inv, Functions, Sound
<1>2. writes[p] # <<>> /\ Head(writes[p]).type = type
  BY DEF Writes
<1>3. QuerySound(p, Head(writes[p]))
  BY <1>1, <1>2, QueryRun
<1>4. UNCHANGED <<outgoing, requests, network>> /\ writes' = [writes EXCEPT ![p] = Tail(writes[p])]
  BY DEF Writes
<1> QED BY <1>1, <1>2, <1>3, <1>4

(* Queries that only take away from the tables.                            *)
LEMMA WriteLessInv ==
  ASSUME Inv, NEW p \in Peers,
         WriteDelete(p) \/ WriteAdd(p) \/ WriteRemove(p)
  PROVE  Inv'
<1>1. PICK type : Writes(p, type)
  BY DEF WriteDelete, WriteAdd, WriteRemove
<1>2. /\ UNCHANGED <<outgoing, requests, network>>
      /\ writes[p] # <<>> /\ writes'[p] = Tail(writes[p]) /\ DOMAIN writes' = Peers
      /\ \A q \in Peers \ {p} : writes'[q] = writes[q]
  BY <1>1, WritesStep
<1>3. UNCHANGED <<stored, seqIn, resends, stage, processed>>
  BY DEF WriteDelete, WriteAdd, WriteRemove
<1>4. /\ incoming'[p] \subseteq incoming[p] /\ DOMAIN incoming' = Peers
      /\ \A q \in Peers \ {p} : incoming'[q] = incoming[q]
  BY DEF WriteDelete, WriteAdd, WriteRemove, Inv, Functions
<1>5. Grows
  BY <1>2, <1>3, Steady
<1>6. Functions' /\ \A q \in Peers \ {p} : Same(q)
  BY <1>2, <1>3, <1>4 DEF Inv, Functions, Same
<1>7. Tables(p)' /\ RequestsSound(p)' /\ NetworkSound(p)' /\ StageSound(p)' /\ WritesSound(p)'
  BY <1>2, <1>3, <1>4, <1>5, <1>6, TablesKept, RequestsKept, NetworkKept, StageKept,
     WritesKept, SoundParts DEF Inv
<1> QED BY <1>2, <1>3, <1>6, <1>7, StepSound

LEMMA WritePollInv ==
  ASSUME Inv, NEW p \in Peers, WritePoll(p)
  PROVE  Inv'
<1>1. /\ UNCHANGED <<outgoing, requests, network>>
      /\ writes[p] # <<>> /\ writes'[p] = Tail(writes[p]) /\ DOMAIN writes' = Peers
      /\ \A q \in Peers \ {p} : writes'[q] = writes[q]
  BY WritesStep DEF WritePoll
<1>2. UNCHANGED <<stored, seqIn, incoming, resends, processed>>
  BY DEF WritePoll
<1>3. Grows
  BY <1>1, <1>2, Steady
<1>4. PICK rows : rows = stored[p]
  OBVIOUS
<1>5. PICK b : b = OutgoingBlock(p, rows)
  OBVIOUS
<1>6. stage' = [stage EXCEPT ![p] = stage[p] \o <<b>>] /\ DOMAIN stage = Peers
  BY <1>4, <1>5 DEF WritePoll, Post, Inv, Functions
<1>7. BlockSound(p, b)'
  BY <1>3, <1>4, <1>5, PollSound DEF Inv, Sound, Grows
<1>8. StageSound(p)'
  <2>1. PICK T, new : T = {b} /\ new = <<b>>
    OBVIOUS
  <2>2. new \in Seq(T) /\ \A x \in T : BlockSound(p, x)'
    BY <1>7, <2>1
  <2>3. stage'[p] = stage[p] \o new /\ StageSound(p)
    BY <1>6, <2>1 DEF Inv, Sound
  <2> QED BY <1>3, <2>2, <2>3, StagePosted
<1>9. Functions' /\ \A q \in Peers \ {p} : Same(q)
  BY <1>1, <1>2, <1>6 DEF Inv, Functions, Same
<1>10. Tables(p)' /\ RequestsSound(p)' /\ NetworkSound(p)' /\ WritesSound(p)'
  BY <1>1, <1>2, <1>3, <1>9, TablesKept, RequestsKept, NetworkKept, WritesKept,
      SoundParts
     DEF Inv
<1> QED BY <1>1, <1>2, <1>8, <1>9, <1>10, StepSound

(* The number that is expected changes, forwards or back; the largest one  *)
(* only grows.                                                             *)
LEMMA WriteSeqInInv ==
  ASSUME Inv, NEW p \in Peers, WriteSeqIn(p)
  PROVE  Inv'
<1>1. /\ UNCHANGED <<outgoing, requests, network>>
      /\ writes[p] # <<>> /\ Head(writes[p]).type = "seqIn"
      /\ writes'[p] = Tail(writes[p]) /\ DOMAIN writes' = Peers
      /\ \A q \in Peers \ {p} : writes'[q] = writes[q]
      /\ QuerySound(p, Head(writes[p]))
  BY WritesStep DEF WriteSeqIn
<1>2. UNCHANGED <<stored, incoming, resends, stage>>
  BY DEF WriteSeqIn
<1>3. PICK n \in Nat : n = Head(writes[p]).seq
  BY <1>1 DEF QuerySound
<1>4. PICK old \in Nat : old = processed[p]
  BY DEF Inv, Functions
<1>5. PICK m \in Nat : m = Max({old, n}) /\ m >= old /\ m >= n
  <2>1. PICK S : S = {old, n}
    OBVIOUS
  <2>2. PICK b \in Int : b = old + n
    OBVIOUS
  <2>3. S \subseteq Int /\ S # {} /\ \A x \in S : x <= b
    BY <2>1, <2>2
  <2>4. Max(S) \in S /\ \A x \in S : Max(S) >= x
    BY <2>3, BoundedMax
  <2> QED BY <2>1, <2>4
<1>6. /\ seqIn' = [seqIn EXCEPT ![p] = n] /\ processed' = [processed EXCEPT ![p] = m]
      /\ seqIn \in [Peers -> Nat] /\ processed \in [Peers -> Nat]
  BY <1>3, <1>4, <1>5 DEF WriteSeqIn, Inv, Functions
<1>7. Functions'
  BY <1>1, <1>2, <1>6 DEF Inv, Functions
<1>8. \A q \in Peers : processed[q] \in Nat /\ processed'[q] \in Nat
                       /\ processed[q] <= processed'[q]
  BY <1>4, <1>5, <1>6
<1>9. Grows
  <2>1. \A q \in Peers : Numbers(q)' = Numbers(q)
    BY <1>1 DEF Numbers
  <2>2. \A q \in Peers : Told(q) \subseteq Told(q)'
    BY <1>8 DEF Told
  <2> QED BY <2>1, <2>2 DEF Grows
<1>10. KeptUntilProcessed'
  <2> SUFFICES ASSUME NEW q \in Peers, NEW x \in 0 .. Len(outgoing[q]) - 1, x \notin stored[q]
               PROVE  x < processed'[Other(q)]
    BY <1>1, <1>2 DEF KeptUntilProcessed
  <2>1. x < processed[Other(q)]
    BY DEF Inv, KeptUntilProcessed
  <2>2. PICK i \in Peers : i = Other(q)
    BY OtherEnd
  <2> QED BY <1>8, <2>1, <2>2
<1>11. Sound(p)'
  <2>1. seqIn'[p] \in Told(p)'
    BY <1>5, <1>6 DEF Told
  <2>2. /\ RequestsSound(p)' /\ OutgoingSound(p)' /\ NetworkSound(p)' /\ StageSound(p)'
        /\ WritesSound(p)'
    BY <1>1, <1>2, <1>7, <1>9, RequestsKept, OutgoingKept, NetworkKept, StageKept,
        WritesKept,
       SoundParts DEF Inv
  <2>3. RowsSound(p, incoming[p])'
    BY <1>2, <1>9, RowsKept DEF Inv, Sound
  <2>4. stored'[p] \subseteq Numbers(p)' /\ \A x \in resends'[p] : x.seq \in Numbers(p)'
    BY <1>2, <1>9 DEF Inv, Sound, Grows
  <2> QED BY <2>1, <2>2, <2>3, <2>4 DEF Sound, RequestsSound
<1>12. \A q \in Peers \ {p} : Sound(q)'
  <2>1. \A q \in Peers \ {p} : Same(q)
    BY <1>1, <1>2, <1>6 DEF Same
  <2> QED BY <1>7, <1>9, <2>1, SameSound DEF Inv
<1> QED BY <1>7, <1>10, <1>11, <1>12 DEF Inv

(* What is confirmed has been processed.                                   *)
LEMMA WriteConfirmInv ==
  ASSUME Inv, NEW p \in Peers, WriteConfirm(p)
  PROVE  Inv'
<1>1. /\ UNCHANGED <<outgoing, requests, network>>
      /\ writes[p] # <<>> /\ Head(writes[p]).type = "confirm"
      /\ writes'[p] = Tail(writes[p]) /\ DOMAIN writes' = Peers
      /\ \A q \in Peers \ {p} : writes'[q] = writes[q]
      /\ QuerySound(p, Head(writes[p]))
  BY WritesStep DEF WriteConfirm
<1>2. UNCHANGED <<seqIn, incoming, resends, stage, processed>>
  BY DEF WriteConfirm
<1>3. Grows
  BY <1>1, <1>2, Steady
<1>4. PICK n \in Nat : n = Head(writes[p]).seq /\ n < processed[Other(p)]
  BY <1>1 DEF QuerySound
<1>5. stored' = [stored EXCEPT ![p] = {s \in stored[p] : s > n}] /\ DOMAIN stored = Peers
  BY <1>4 DEF WriteConfirm, Inv, Functions
<1>6. /\ stored'[p] = {s \in stored[p] : s > n} /\ DOMAIN stored' = Peers
      /\ \A q \in Peers \ {p} : stored'[q] = stored[q]
  BY <1>5
<1>7. Functions' /\ \A q \in Peers \ {p} : Same(q)
  BY <1>1, <1>2, <1>6 DEF Inv, Functions, Same
<1>8. KeptUntilProcessed'
  <2> SUFFICES ASSUME NEW q \in Peers, NEW x \in 0 .. Len(outgoing[q]) - 1, x \notin stored'[q]
               PROVE  x < processed[Other(q)]
    BY <1>1, <1>2 DEF KeptUntilProcessed
  <2>1. CASE x \notin stored[q]
    BY <2>1 DEF Inv, KeptUntilProcessed
  <2>2. CASE x \in stored[q]
    <3>1. q = p /\ ~(x > n)
      BY <1>6, <2>2
    <3>2. PICK b \in Nat : b = processed[Other(p)]
      BY OtherEnd DEF Inv, Functions
    <3>3. x <= n /\ n < b
      BY <1>4, <3>1, <3>2
    <3> QED BY <3>1, <3>2, <3>3
  <2> QED BY <2>1, <2>2
<1>9. /\ Tables(p)' /\ RequestsSound(p)' /\ OutgoingSound(p)' /\ NetworkSound(p)'
      /\ StageSound(p)' /\ WritesSound(p)'
  BY <1>1, <1>2, <1>3, <1>6, <1>7, TablesKept, RequestsKept, OutgoingKept, NetworkKept,
     StageKept, WritesKept, SoundParts DEF Inv
<1>10. Sound(p)'
  BY <1>9 DEF Sound, Tables, RequestsSound
<1>11. \A q \in Peers \ {p} : Sound(q)'
  BY <1>3, <1>7, SameSound DEF Inv
<1> QED BY <1>7, <1>8, <1>10, <1>11 DEF Inv

(* Copies are made of rows that are there.                                 *)
LEMMA WriteResendInv ==
  ASSUME Inv, NEW p \in Peers, WriteResend(p)
  PROVE  Inv'
<1>1. /\ UNCHANGED <<outgoing, requests, network>>
      /\ writes[p] # <<>> /\ writes'[p] = Tail(writes[p]) /\ DOMAIN writes' = Peers
      /\ \A q \in Peers \ {p} : writes'[q] = writes[q]
  BY WritesStep DEF WriteResend
<1>2. UNCHANGED <<stored, seqIn, incoming, processed>>
  BY DEF WriteResend
<1>3. Grows
  BY <1>1, <1>2, Steady
<1> DEFINE found == stored[p] \cap (Head(writes[p]).from .. Head(writes[p]).to)
           Rank(seq) == Cardinality({s \in found : s <= seq})
<1>4. PICK copies :
        copies = {[id |-> lastId[p].resend + Rank(seq), seq |-> seq] : seq \in found}
  OBVIOUS
<1>5. resends' = [resends EXCEPT ![p] = resends[p] \cup copies] /\ DOMAIN resends = Peers
  BY <1>4 DEF WriteResend, Inv, Functions
<1>6. ASSUME NEW x \in copies PROVE x.seq \in stored[p]
  <2>1. PICK seq \in found : x = [id |-> lastId[p].resend + Rank(seq), seq |-> seq]
    BY <1>4, <1>6
  <2> QED BY <2>1
<1> HIDE DEF found, Rank
<1>7. \A x \in resends'[p] : x \in resends[p] \/ x.seq \in Numbers(p)
  BY <1>5, <1>6 DEF Inv, Sound
<1>8. stage' = [stage EXCEPT ![p] = stage[p] \o <<PollOutgoing>>] /\ DOMAIN stage = Peers
  BY DEF WriteResend, Post, Inv, Functions
<1>9. StageSound(p)'
  <2>1. PICK T, new : T = {PollOutgoing} /\ new = <<PollOutgoing>>
    OBVIOUS
  <2>2. new \in Seq(T) /\ \A x \in T : BlockSound(p, x)'
    BY <2>1 DEF BlockSound, PollOutgoing
  <2>3. stage'[p] = stage[p] \o new /\ StageSound(p)
    BY <1>8, <2>1 DEF Inv, Sound
  <2> QED BY <1>3, <2>2, <2>3, StagePosted
<1>10. Functions' /\ \A q \in Peers \ {p} : Same(q)
  BY <1>1, <1>2, <1>5, <1>8 DEF Inv, Functions, Same
<1>11. Tables(p)' /\ RequestsSound(p)' /\ NetworkSound(p)' /\ WritesSound(p)'
  BY <1>1, <1>2, <1>3, <1>7, <1>10, TablesKept, RequestsKept, NetworkKept, WritesKept,
     SoundParts DEF Inv
<1> QED BY <1>1, <1>2, <1>9, <1>10, <1>11, StepSound

LEMMA DatabaseInv ==
  ASSUME Inv, NEW p \in Peers, DatabaseStep(p)
  PROVE  Inv'
BY WriteLessInv, WritePollInv, WriteSeqInInv, WriteConfirmInv, WriteResendInv
    DEF DatabaseStep

(* A crash leaves the tables and what the server has.                      *)
LEMMA RestartInv ==
  ASSUME Inv, NEW p \in Peers, Restart(p)
  PROVE  Inv'
<1>1. UNCHANGED <<outgoing, stored, seqIn, incoming, resends, network, processed>>
  BY DEF Restart, persistent
<1>2. Grows
  BY <1>1, Steady
<1>3. PICK first, second, none :
        /\ first = IF stored[p] # {} \/ resends[p] # {} THEN <<PollOutgoing>> ELSE <<>>
        /\ second = IF incoming[p] # {} THEN <<PollIncoming>> ELSE <<>>
        /\ none = <<>>
  OBVIOUS
<1>4. stage' = [stage EXCEPT ![p] = first \o second]
  BY <1>3 DEF Restart
<1>5. /\ requests' = [requests EXCEPT ![p] = {}] /\ writes' = [writes EXCEPT ![p] = none]
      /\ DOMAIN requests = Peers /\ DOMAIN writes = Peers /\ DOMAIN stage = Peers
  BY <1>3 DEF Restart, Inv, Functions
<1>6. Functions' /\ \A q \in Peers \ {p} : Same(q)
  BY <1>1, <1>4, <1>5 DEF Inv, Functions, Same
<1>7. StageSound(p)'
  <2>1. PICK T : T = {PollOutgoing, PollIncoming}
    OBVIOUS
  <2>2. first \in Seq(T) /\ second \in Seq(T)
    <3>1. <<>> \in Seq(T)
      OBVIOUS
    <3>2. \A b \in T : <<b>> \in Seq(T)
      OBVIOUS
    <3>3. <<PollOutgoing>> \in Seq(T) /\ <<PollIncoming>> \in Seq(T)
      BY <2>1, <3>2
    <3>4. /\ first = <<>> \/ first = <<PollOutgoing>>
          /\ second = <<>> \/ second = <<PollIncoming>>
      BY <1>3
    <3> QED BY <3>1, <3>3, <3>4
  <2>3. \A b \in T : BlockSound(p, b)'
    BY <2>1 DEF BlockSound, PollOutgoing, PollIncoming
  <2>4. stage'[p] \in Seq(T)
    BY <1>4, <1>5, <2>2, ConcatProperties
  <2> QED BY <2>3, <2>4 DEF StageSound
<1>8. WritesSound(p)'
  <2>1. PICK T : T = {}
    OBVIOUS
  <2>2. writes'[p] \in Seq(T) /\ \A q \in T : QuerySound(p, q)'
    BY <1>3, <1>5, <2>1
  <2> QED BY <2>2 DEF WritesSound
<1>9. RequestsSound(p)'
  BY <1>5 DEF RequestsSound
<1>10. Tables(p)' /\ NetworkSound(p)'
  BY <1>1, <1>2, <1>6, TablesKept, NetworkKept, SoundParts DEF Inv
<1> QED BY <1>1, <1>6, <1>7, <1>8, <1>9, <1>10, StepSound

LEMMA StutterInv ==
  ASSUME Inv, UNCHANGED vars
  PROVE  Inv'
<1>1. /\ UNCHANGED <<outgoing, stored, seqIn, incoming, resends, requests, stage, writes>>
      /\ UNCHANGED <<network, processed>>
  BY DEF vars, persistent, volatile, history
<1>2. Grows /\ Functions' /\ KeptUntilProcessed'
  BY <1>1, Steady, KeptKept DEF Inv, Functions
<1>3. \A q \in Peers : Same(q)
  BY <1>1 DEF Same
<1>4. \A q \in Peers : Sound(q)'
  BY <1>2, <1>3, SameSound DEF Inv
<1> QED BY <1>2, <1>4 DEF Inv

LEMMA NextInv == Inv /\ [Next]_vars => Inv'
<1> SUFFICES ASSUME Inv, [Next]_vars PROVE Inv'
  OBVIOUS
<1>1. CASE UNCHANGED vars
  BY <1>1, StutterInv
<1>2. CASE Next
  <2>1. PICK p \in Peers :
          \/ Send(p) \/ StageStep(p) \/ DatabaseStep(p)
          \/ Accept(p) \/ Complete(p) \/ Fail(p) \/ Receive(p) \/ Restart(p)
    BY <1>2 DEF Next
  <2>2. CASE StageStep(p)
    BY <2>2, RunPollOutgoingInv, RunOutgoingInv, RunPollIncomingInv, RunIncomingInv
       DEF StageStep
  <2> QED BY <2>1, <2>2, SendInv, DatabaseInv, AcceptInv, AnswerInv, ReceiveInv,
      RestartInv
<1> QED BY <1>1, <1>2

(* A row leaves the outgoing table only when the peer has processed it,    *)
(* for any number of messages, refusals, crashes and copies, although the  *)
(* number a client expects may go back.                                    *)
THEOREM KeptSafe == Spec => []KeptUntilProcessed
<1>1. Inv => KeptUntilProcessed
  BY DEF Inv
<1> QED BY InitInv, NextInv, <1>1, PTL DEF Spec

(* D says for each element of a finite set which ones are not behind it,   *)
(* and orders them.                                                        *)
Orders(S, D) ==
  /\ IsFiniteSet(S) /\ D \in [S -> SUBSET S]
  /\ \A x \in S : x \in D[x]
  /\ \A x, y \in S : x # y =>
       \/ D[x] \subseteq D[y] /\ y \notin D[x]
       \/ D[y] \subseteq D[x] /\ x \notin D[y]

(* Then every rank is that of one element.                                 *)
LEMMA RankHits ==
  ASSUME NEW S, NEW D, Orders(S, D)
  PROVE  /\ \A i \in 1 .. Cardinality(S) : \E x \in S : Cardinality(D[x]) = i
         /\ \A x, y \in S : Cardinality(D[x]) = Cardinality(D[y]) => x = y
         /\ \A x \in S : Cardinality(D[x]) \in 1 .. Cardinality(S)
<1> USE DEF Orders
<1> DEFINE c == Cardinality(S)
           rank == [x \in S |-> Cardinality(D[x])]
<1>1. c \in Nat
  BY FS_CardinalityType
<1>2. \A x \in S : /\ D[x] \in SUBSET S /\ IsFiniteSet(D[x])
                   /\ Cardinality(D[x]) \in Nat /\ Cardinality(D[x]) <= c
  BY FS_Subset, FS_CardinalityType
<1>3. \A x \in S : Cardinality(D[x]) # 0
  BY <1>2, FS_EmptySet
<1>4. \A x \in S : Cardinality(D[x]) \in 1 .. c
  <2> HIDE DEF c
  <2> QED BY <1>1, <1>2, <1>3
<1>5. \A x, y \in S : D[x] \subseteq D[y] /\ Cardinality(D[x]) = Cardinality(D[y]) => D[x] = D[y]
  BY <1>2, FS_Subset
<1>6. \A x, y \in S : Cardinality(D[x]) = Cardinality(D[y]) => x = y
  BY <1>5
<1>7. rank \in Injection(S, 1 .. c)
  BY <1>4, <1>6 DEF Injection, IsInjective
<1>8. IsFiniteSet(1 .. c) /\ Cardinality(1 .. c) = c
  <2> HIDE DEF c
  <2> QED BY <1>1, FS_Interval
<1>9. rank \in Surjection(S, 1 .. c)
  <2> HIDE DEF rank
  <2> QED BY <1>7, <1>8, FS_Injection
<1>10. \A i \in 1 .. c : \E x \in S : rank[x] = i
  <2> HIDE DEF rank
  <2> QED BY <1>9 DEF Surjection
<1> QED BY <1>4, <1>6, <1>10

(* Numbers are ordered by their size.                                      *)
LEMMA NumbersOrdered ==
  ASSUME NEW S, IsFiniteSet(S), S \subseteq Int
  PROVE  Orders(S, [x \in S |-> {y \in S : y <= x}])
<1> DEFINE Upto(x) == {y \in S : y <= x}
           D == [x \in S |-> Upto(x)]
<1>1. D \in [S -> SUBSET S] /\ \A x \in S : x \in D[x]
  OBVIOUS
<1>0. \A x, y \in S : (y \in D[x]) <=> (y <= x)
  OBVIOUS
<1>2. \A x, y \in S : x # y =>
         (\/ D[x] \subseteq D[y] /\ y \notin D[x]
          \/ D[y] \subseteq D[x] /\ x \notin D[y])
  <2> SUFFICES ASSUME NEW x \in S, NEW y \in S, x # y
               PROVE  \/ D[x] \subseteq D[y] /\ y \notin D[x]
                      \/ D[y] \subseteq D[x] /\ x \notin D[y]
    OBVIOUS
  <2>0. D[x] \subseteq S /\ D[y] \subseteq S
    OBVIOUS
  <2> HIDE DEF D
  <2>1. CASE x < y
    <3>1. y \notin D[x]
      <4>1. x \in Int /\ y \in Int
        OBVIOUS
      <4>2. ~(y <= x)
        BY <2>1, <4>1
      <4> QED BY <1>0, <4>2, Zenon
    <3>2. ASSUME NEW z \in D[x] PROVE z \in D[y]
      <4>1. z \in S /\ z \in Int /\ x \in Int /\ y \in Int
        BY <2>0
      <4>2. z <= x
        BY <1>0, <3>2, <4>1
      <4>3. z <= y
        BY <2>1, <4>1, <4>2
      <4> QED BY <1>0, <4>1, <4>3
    <3> QED BY <3>1, <3>2
  <2>2. CASE y < x
    <3>1. x \notin D[y]
      <4>1. x \in Int /\ y \in Int
        OBVIOUS
      <4>2. ~(x <= y)
        BY <2>2, <4>1
      <4> QED BY <1>0, <4>2, Zenon
    <3>2. ASSUME NEW z \in D[y] PROVE z \in D[x]
      <4>1. z \in S /\ z \in Int /\ y \in Int /\ x \in Int
        BY <2>0
      <4>2. z <= y
        BY <1>0, <3>2, <4>1
      <4>3. z <= x
        BY <2>2, <4>1, <4>2
      <4> QED BY <1>0, <4>1, <4>3
    <3> QED BY <3>1, <3>2
  <2> QED BY <2>1, <2>2
<1> QED BY <1>1, <1>2 DEF Orders

(* A finite set of numbers is listed once and in order.                    *)
LEMMA AscendingList ==
  ASSUME NEW S, IsFiniteSet(S), S \subseteq Int
  PROVE  /\ Ascending(S) \in Seq(S)
         /\ \A i, j \in DOMAIN Ascending(S) : i # j => Ascending(S)[i] # Ascending(S)[j]
<1> DEFINE Upto(x) == {y \in S : y <= x}
           D == [x \in S |-> Upto(x)]
           c == Cardinality(S)
           P(x, i) == Cardinality({y \in S : y <= x}) = i
           a == [i \in 1 .. c |-> CHOOSE x \in S : P(x, i)]
<1>3. \A i \in 1 .. c : \E x \in S : Cardinality(D[x]) = i
  <2>1. Orders(S, D)
    BY NumbersOrdered
  <2>2. PICK E : E = D
    OBVIOUS
  <2>3. Orders(S, E)
    BY <2>1, <2>2, Zenon
  <2> HIDE DEF D
  <2>4. /\ \A i \in 1 .. Cardinality(S) : \E x \in S : Cardinality(E[x]) = i
        /\ \A x, y \in S : Cardinality(E[x]) = Cardinality(E[y]) => x = y
        /\ \A x \in S : Cardinality(E[x]) \in 1 .. Cardinality(S)
    BY ONLY <2>3, RankHits, Zenon
  <2> QED BY <2>2, <2>4
<1>4. \A i \in 1 .. c : \E x \in S : P(x, i)
  BY <1>3
<1>5. Ascending(S) = a
  BY DEF Ascending
<1>6. c \in Nat
  BY FS_CardinalityType
<1>7. \A x, i, j : P(x, i) /\ P(x, j) => i = j
  OBVIOUS
<1> HIDE DEF P, c
<1>8. \A i \in 1 .. c : a[i] \in S /\ P(a[i], i)
  BY <1>4
<1>9. a \in Seq(S) /\ DOMAIN a = 1 .. c
  BY <1>6, <1>8
<1>10. \A i, j \in 1 .. c : a[i] = a[j] => i = j
  BY <1>7, <1>8
<1> QED BY <1>5, <1>9, <1>10

Once(s) == \A i, j \in DOMAIN s : i # j => s[i] # s[j]

LEMMA WithoutList ==
  ASSUME NEW T, NEW s \in Seq(T), NEW S
  PROVE  /\ Without(s, S) \in Seq(T)
         /\ Once(s) => Once(Without(s, S))
         /\ \A i \in DOMAIN Without(s, S) : Without(s, S)[i] \notin S
<1> DEFINE I == {i \in DOMAIN s : s[i] \notin S}
           left == Ascending(I)
           w == [i \in DOMAIN left |-> s[left[i]]]
<1>1. Len(s) \in Nat /\ DOMAIN s = 1 .. Len(s) /\ I \in SUBSET (1 .. Len(s))
  OBVIOUS
<1>2. IsFiniteSet(1 .. Len(s))
  BY <1>1, FS_Interval
<1>3. IsFiniteSet(I) /\ I \subseteq Int
  BY <1>1, <1>2, FS_Subset
<1>4. left \in Seq(I) /\ \A i, j \in DOMAIN left : i # j => left[i] # left[j]
  BY <1>3, AscendingList
<1>5. Without(s, S) = w
  BY DEF Without
<1>6. \A i \in I : s[i] \in T /\ s[i] \notin S /\ i \in DOMAIN s
  BY ElementOfSeq
<1> HIDE DEF left, I
<1>7. \A i \in DOMAIN left : left[i] \in I
  BY <1>4
<1>8. Len(left) \in Nat /\ DOMAIN left = 1 .. Len(left)
  BY <1>4
<1>9. \A i \in 1 .. Len(left) : w[i] \in T
  BY <1>6, <1>7, <1>8
<1>10. w \in Seq(T)
  BY <1>8, <1>9
<1>11. \A i \in DOMAIN w : w[i] \notin S
  BY <1>6, <1>7
<1>12. Once(s) => Once(w)
  BY <1>4, <1>6, <1>7 DEF Once
<1> QED BY <1>5, <1>10, <1>11, <1>12

(* Rows with different ids are listed whole.                               *)
OwnIds(rows) == \A r, x \in rows : r.id = x.id => r = x
LEMMA SortedList ==
  ASSUME NEW rows, IsFiniteSet(rows), OwnIds(rows),
         \A r \in rows : r.id \in Int /\ r.seq \in Int
  PROVE  Sorted(rows) \in Seq(rows)
<1> DEFINE D == [r \in rows |-> UpTo(rows, r)]
           c == Cardinality(rows)
           P(r, i) == Cardinality(UpTo(rows, r)) = i
           a == [i \in 1 .. c |-> CHOOSE r \in rows : P(r, i)]
<1>1. D \in [rows -> SUBSET rows] /\ \A r \in rows : r \in D[r]
  BY DEF UpTo
<1>2. \A x, y \in rows : x # y =>
         (\/ D[x] \subseteq D[y] /\ y \notin D[x]
          \/ D[y] \subseteq D[x] /\ x \notin D[y])
  BY DEF UpTo, OwnIds
<1>3. \A i \in 1 .. c : \E r \in rows : Cardinality(D[r]) = i
  <2>1. Orders(rows, D)
    BY <1>1, <1>2 DEF Orders
  <2> HIDE DEF D
  <2> QED BY <2>1, RankHits
<1>4. \A i \in 1 .. c : \E r \in rows : P(r, i)
  BY <1>3
<1>5. Sorted(rows) = a
  BY DEF Sorted
<1>6. c \in Nat
  BY FS_CardinalityType
<1> HIDE DEF P, c
<1>7. \A i \in 1 .. c : a[i] \in rows
  BY <1>4
<1>8. a \in Seq(rows)
  BY <1>6, <1>7
<1> QED BY <1>5, <1>8

-----------------------------------------------------------------------------
(* Types.  Rows that were received have ids of their own, in the table and *)
(* in the snapshots, and what is to be added is listed once.               *)

OutRows == [seqIn : Nat, body : Contents]
TypedBlocks == {b \in Blocks : b.type = "incoming" => OwnIds(b.rows)}
TypedQueries == {q \in Queries : q.type = "add" => Once(q.seqs)}

Typed(p) ==
  /\ outgoing[p] \in Seq(OutRows)
  /\ sentSeqOut[p] \in Int
  /\ incoming[p] \subseteq Rows /\ OwnIds(incoming[p])
  /\ \A r \in incoming[p] : r.id <= lastId[p].incoming
  /\ resends[p] \subseteq Resends
  /\ lastId[p] \in [incoming : Nat, resend : Int] /\ lastId[p].resend >= -1
  /\ shown[p] \in Seq(Int) /\ Once(shown[p])
  /\ delivered[p] \subseteq Nat /\ lost[p] \subseteq Int
  /\ executing[p] \subseteq Nat
  /\ requests[p] \subseteq Requests
  /\ waiting[p] \subseteq {OutgoingId(n) : n \in Nat}
  /\ stage[p] \in Seq(TypedBlocks)
  /\ writes[p] \in Seq(TypedQueries)
  /\ network[p] \in Seq(Messages)
  /\ failures[p] \in Nat /\ restarts[p] \in Nat

Whole(f) == f = [p \in Peers |-> f[p]]
Domains ==
  /\ Whole(outgoing) /\ Whole(sentSeqOut) /\ Whole(lastId) /\ Whole(shown)
  /\ Whole(stage) /\ Whole(writes) /\ Whole(network)
  /\ Whole(failures) /\ Whole(restarts)
  /\ DOMAIN delivered = Peers /\ DOMAIN lost = Peers
  /\ DOMAIN executing = Peers /\ DOMAIN waiting = Peers

Types == Domains /\ (\A p \in Peers : Typed(p)) /\ discarded \in BOOLEAN
TypeInv == Inv /\ Types

LEMMA WholeFunction ==
  ASSUME NEW f, NEW S, Whole(f), \A p \in Peers : f[p] \in S
  PROVE  f \in [Peers -> S]
BY DEF Whole

LEMMA WholeUpdate ==
  ASSUME NEW f, NEW p \in Peers, NEW v, Whole(f)
  PROVE  /\ DOMAIN f = Peers /\ Whole([f EXCEPT ![p] = v])
         /\ [f EXCEPT ![p] = v][p] = v
         /\ \A q \in Peers \ {p} : [f EXCEPT ![p] = v][q] = f[q]
BY DEF Whole

LEMMA TypesEnough == TypeInv => TypeOK
<1> SUFFICES ASSUME TypeInv PROVE TypeOK
  OBVIOUS
<1>1. Functions /\ Domains /\ discarded \in BOOLEAN
  BY DEF TypeInv, Types, Inv
<1>2. \A p \in Peers : Typed(p) /\ stored[p] \subseteq Numbers(p)
  BY DEF TypeInv, Types, Inv, Sound
<1>3. /\ outgoing \in [Peers -> Seq(OutRows)]
      /\ sentSeqOut \in [Peers -> Int]
      /\ lastId \in [Peers -> [incoming : Nat, resend : Int]]
      /\ shown \in [Peers -> Seq(Int)]
      /\ network \in [Peers -> Seq(Messages)]
      /\ failures \in [Peers -> Nat] /\ restarts \in [Peers -> Nat]
  BY <1>1, <1>2, WholeFunction DEF Domains, Typed
<1>4. \A S, T : S \subseteq T => Seq(S) \subseteq Seq(T)
  BY SeqMonotonic
<1>5. TypedBlocks \subseteq Blocks /\ TypedQueries \subseteq Queries
  BY DEF TypedBlocks, TypedQueries
<1>6. \A p \in Peers : stage[p] \in Seq(Blocks) /\ writes[p] \in Seq(Queries)
  BY <1>2, <1>4, <1>5 DEF Typed
<1>7. stage \in [Peers -> Seq(Blocks)] /\ writes \in [Peers -> Seq(Queries)]
  BY <1>1, <1>6, WholeFunction DEF Domains
<1>8. \A p \in Peers : waiting[p] \subseteq Nat
  <2>1. \A n \in Nat : OutgoingId(n) \in Nat
    BY PeersAssumption DEF OutgoingId
  <2>2. \A p \in Peers : waiting[p] \subseteq {OutgoingId(n) : n \in Nat}
    BY <1>2 DEF Typed
  <2> QED BY <2>1, <2>2
<1> QED BY <1>1, <1>2, <1>3, <1>7, <1>8 DEF TypeOK, Functions, Typed, Numbers, OutRows

LEMMA TypesInit == Init => Types
<1> SUFFICES ASSUME Init PROVE Types
  OBVIOUS
<1>1. \A S : <<>> \in Seq(S)
  OBVIOUS
<1>2. Once(<<>>) /\ OwnIds({})
  BY DEF Once, OwnIds
<1>3. Domains
  BY DEF Init, Domains, Whole
<1>4. ASSUME NEW p \in Peers PROVE Typed(p)
  <2>1. /\ outgoing[p] = <<>> /\ shown[p] = <<>> /\ stage[p] = <<>> /\ writes[p] = <<>>
        /\ network[p] = <<>>
    BY DEF Init
  <2>2. /\ incoming[p] = {} /\ resends[p] = {} /\ delivered[p] = {} /\ lost[p] = {}
        /\ executing[p] = {} /\ requests[p] = {} /\ waiting[p] = {}
    BY DEF Init
  <2>3. /\ sentSeqOut[p] \in Int /\ failures[p] \in Nat /\ restarts[p] \in Nat
        /\ lastId[p] \in [incoming : Nat, resend : Int] /\ lastId[p].resend >= -1
    BY PeersAssumption DEF Init
  <2> QED BY <1>1, <1>2, <2>1, <2>2, <2>3 DEF Typed
<1> QED BY <1>3, <1>4 DEF Types, Init

Untouched(p) ==
  /\ outgoing'[p] = outgoing[p] /\ sentSeqOut'[p] = sentSeqOut[p]
  /\ incoming'[p] = incoming[p] /\ lastId'[p] = lastId[p] /\ resends'[p] = resends[p]
  /\ shown'[p] = shown[p] /\ delivered'[p] = delivered[p] /\ lost'[p] = lost[p]
  /\ executing'[p] = executing[p] /\ requests'[p] = requests[p]
  /\ waiting'[p] = waiting[p] /\ stage'[p] = stage[p] /\ writes'[p] = writes[p]
  /\ network'[p] = network[p] /\ failures'[p] = failures[p]
  /\ restarts'[p] = restarts[p]

LEMMA UntouchedTyped ==
  ASSUME NEW p, Typed(p), Untouched(p)
  PROVE  Typed(p)'
BY DEF Typed, Untouched

(* One client acts.                                                        *)
LEMMA StepTyped ==
  ASSUME TypeInv, NEW p \in Peers, Domains', discarded' \in BOOLEAN, Typed(p)',
         \A q \in Peers \ {p} : Untouched(q)
  PROVE  Types'
<1>1. \A q \in Peers : Typed(q)'
  BY UntouchedTyped DEF TypeInv, Types
<1> QED BY <1>1 DEF Types

LEMMA BlockTypes ==
  /\ [type |-> "pollOutgoing"] \in TypedBlocks /\ [type |-> "pollIncoming"] \in TypedBlocks
  /\ \A rows \in SUBSET Nat, again \in SUBSET Resends :
       [type |-> "outgoing", rows |-> rows, resends |-> again] \in TypedBlocks
  /\ \A rows \in SUBSET Rows, next \in Nat :
       OwnIds(rows) => [type |-> "incoming", rows |-> rows, next |-> next] \in TypedBlocks
  /\ \A b \in TypedBlocks :
       /\ b.type = "outgoing" => b.rows \subseteq Nat /\ b.resends \subseteq Resends
       /\ b.type = "incoming" => b.rows \subseteq Rows /\ b.next \in Nat /\ OwnIds(b.rows)
<1>1. \A b \in TypedBlocks :
        \/ b \in [type : {"pollOutgoing", "pollIncoming"}]
        \/ b \in [type : {"outgoing"}, rows : SUBSET Nat, resends : SUBSET Resends]
        \/ b \in [type : {"incoming"}, rows : SUBSET Rows, next : Nat] /\ OwnIds(b.rows)
  BY DEF TypedBlocks, Blocks
<1>2. ASSUME NEW b \in TypedBlocks
      PROVE  /\ b.type = "outgoing" => b.rows \subseteq Nat /\ b.resends \subseteq Resends
             /\ b.type = "incoming" => b.rows \subseteq Rows /\ b.next \in Nat /\ OwnIds(b.rows)
  <2>1. CASE b \in [type : {"pollOutgoing", "pollIncoming"}]
    BY <2>1
  <2>2. CASE b \in [type : {"outgoing"}, rows : SUBSET Nat, resends : SUBSET Resends]
    BY <2>2
  <2>3. CASE b \in [type : {"incoming"}, rows : SUBSET Rows, next : Nat] /\ OwnIds(b.rows)
    BY <2>3
  <2> QED BY <1>1, <2>1, <2>2, <2>3
<1>3. [type |-> "pollOutgoing"] \in TypedBlocks /\ [type |-> "pollIncoming"] \in TypedBlocks
  BY DEF TypedBlocks, Blocks
<1>4. ASSUME NEW rows \in SUBSET Nat, NEW again \in SUBSET Resends
      PROVE  [type |-> "outgoing", rows |-> rows, resends |-> again] \in TypedBlocks
  BY DEF TypedBlocks, Blocks
<1>5. ASSUME NEW rows \in SUBSET Rows, NEW next \in Nat, OwnIds(rows)
      PROVE  [type |-> "incoming", rows |-> rows, next |-> next] \in TypedBlocks
  BY <1>5 DEF TypedBlocks, Blocks
<1> QED BY <1>2, <1>3, <1>4, <1>5

LEMMA QueryTypes ==
  /\ [type |-> "poll"] \in TypedQueries
  /\ \A ids \in SUBSET Nat : [type |-> "delete", ids |-> ids] \in TypedQueries
  /\ \A n \in Nat : /\ [type |-> "seqIn", seq |-> n] \in TypedQueries
                    /\ [type |-> "confirm", seq |-> n] \in TypedQueries
  /\ \A m, n \in Int : [type |-> "resend", from |-> m, to |-> n] \in TypedQueries
  /\ \A s \in Seq(Int) : Once(s) => [type |-> "add", seqs |-> s] \in TypedQueries
  /\ \A S \in SUBSET Int : [type |-> "remove", seqs |-> S] \in TypedQueries
<1>1. [type |-> "poll"] \in TypedQueries
  BY DEF TypedQueries, Queries
<1>2. ASSUME NEW ids \in SUBSET Nat PROVE [type |-> "delete", ids |-> ids] \in TypedQueries
  BY DEF TypedQueries, Queries
<1>3. ASSUME NEW n \in Nat
      PROVE  /\ [type |-> "seqIn", seq |-> n] \in TypedQueries
             /\ [type |-> "confirm", seq |-> n] \in TypedQueries
  BY DEF TypedQueries, Queries
<1>4. ASSUME NEW m \in Int, NEW n \in Int
      PROVE  [type |-> "resend", from |-> m, to |-> n] \in TypedQueries
  BY DEF TypedQueries, Queries
<1>5. ASSUME NEW s \in Seq(Int), Once(s)
      PROVE  [type |-> "add", seqs |-> s] \in TypedQueries
  BY <1>5 DEF TypedQueries, Queries
<1>6. ASSUME NEW S \in SUBSET Int PROVE [type |-> "remove", seqs |-> S] \in TypedQueries
  BY DEF TypedQueries, Queries
<1> QED BY <1>1, <1>2, <1>3, <1>4, <1>5, <1>6

LEMMA QueryFields ==
  ASSUME NEW q \in TypedQueries
  PROVE  /\ q.type = "seqIn" => q.seq \in Nat
         /\ q.type = "resend" => q.from \in Int /\ q.to \in Int
         /\ q.type = "add" => q.seqs \in Seq(Int) /\ Once(q.seqs)
<1>1. \/ q \in [type : {"poll"}]
      \/ q \in [type : {"delete"}, ids : SUBSET Nat]
      \/ q \in [type : {"seqIn", "confirm"}, seq : Nat]
      \/ q \in [type : {"resend"}, from : Int, to : Int]
      \/ q \in [type : {"add"}, seqs : Seq(Int)] /\ Once(q.seqs)
      \/ q \in [type : {"remove"}, seqs : SUBSET Int]
  BY DEF TypedQueries, Queries
<1>2. CASE q \in [type : {"poll"}]
  BY <1>2
<1>3. CASE q \in [type : {"delete"}, ids : SUBSET Nat]
  BY <1>3
<1>4. CASE q \in [type : {"seqIn", "confirm"}, seq : Nat]
  BY <1>4
<1>5. CASE q \in [type : {"resend"}, from : Int, to : Int]
  BY <1>5
<1>6. CASE q \in [type : {"add"}, seqs : Seq(Int)] /\ Once(q.seqs)
  BY <1>6
<1>7. CASE q \in [type : {"remove"}, seqs : SUBSET Int]
  BY <1>7
<1> QED BY <1>1, <1>2, <1>3, <1>4, <1>5, <1>6, <1>7

(* The rest of TypeInv after a step is Inv', which NextInv gives.          *)

LEMMA PollTyped ==
  ASSUME TypeInv, NEW p \in Peers, NEW rows, rows \subseteq Nat
  PROVE  OutgoingBlock(p, rows) \in TypedBlocks
<1>1. Unsent(p, rows) \in SUBSET Nat /\ resends[p] \in SUBSET Resends
  BY DEF Unsent, TypeInv, Types, Typed
<1> QED BY <1>1, BlockTypes DEF OutgoingBlock

LEMMA StoredNat ==
  ASSUME TypeInv, NEW p \in Peers
  PROVE  stored[p] \subseteq Nat /\ Len(outgoing[p]) \in Nat
<1>1. stored[p] \subseteq Numbers(p) /\ outgoing[p] \in Seq(OutRows)
  BY DEF TypeInv, Inv, Sound, Types, Typed
<1>2. Len(outgoing[p]) \in Nat
  BY <1>1, LenProperties
<1> QED BY <1>1, <1>2 DEF Numbers

LEMMA EnqueueTyped ==
  ASSUME TypeInv, NEW p \in Peers, NEW body \in Contents, Enqueue(p, body)
  PROVE  /\ outgoing'[p] \in Seq(OutRows) /\ Whole(outgoing')
         /\ \A q \in Peers \ {p} : outgoing'[q] = outgoing[q]
<1>1. PICK row : row = [seqIn |-> seqIn[p], body |-> body]
  OBVIOUS
<1>2. row \in OutRows
  BY <1>1 DEF OutRows, TypeInv, Inv, Functions
<1>3. PICK s : s = Append(outgoing[p], row)
  OBVIOUS
<1>4. s \in Seq(OutRows)
  BY <1>2, <1>3, AppendProperties DEF TypeInv, Types, Typed
<1>5. outgoing' = [outgoing EXCEPT ![p] = s] /\ Whole(outgoing)
  BY <1>1, <1>3 DEF Enqueue, TypeInv, Types, Domains
<1> QED BY <1>4, <1>5, WholeUpdate

LEMMA SendTyped ==
  ASSUME TypeInv, NEW p \in Peers, Send(p)
  PROVE  Types'
<1>1. /\ Enqueue(p, Text)
      /\ UNCHANGED <<sentSeqOut, incoming, resends, lastId, shown, delivered>>
      /\ UNCHANGED <<executing, requests, writes, network, discarded, lost, failures,
                     restarts>>
  BY DEF Send, history
<1>2. /\ outgoing'[p] \in Seq(OutRows) /\ Whole(outgoing')
      /\ \A q \in Peers \ {p} : outgoing'[q] = outgoing[q]
  BY <1>1, EnqueueTyped DEF Contents
<1>3. PICK n \in Nat : n = Len(outgoing[p])
  BY StoredNat
<1>4. PICK b : b = OutgoingBlock(p, stored[p] \cup {n})
  OBVIOUS
<1>5. b \in TypedBlocks
  BY <1>4, StoredNat, PollTyped
<1>6. PICK s : s = stage[p] \o <<b, b>>
  OBVIOUS
<1>7. s \in Seq(TypedBlocks)
  <2>1. <<b, b>> \in Seq(TypedBlocks)
    BY <1>5
  <2> QED BY <1>6, <2>1, ConcatProperties DEF TypeInv, Types, Typed
<1>8. stage' = [stage EXCEPT ![p] = s] /\ Whole(stage)
  BY <1>3, <1>4, <1>6 DEF Send, Post, TypeInv, Types, Domains
<1>9. /\ stage'[p] = s /\ Whole(stage')
      /\ \A q \in Peers \ {p} : stage'[q] = stage[q]
  BY <1>8, WholeUpdate
<1>10. waiting' = [waiting EXCEPT ![p] = waiting[p] \cup {OutgoingId(n)}] /\ DOMAIN waiting = Peers
  BY <1>3 DEF Send, TypeInv, Types, Domains
<1>11. Domains'
  BY <1>1, <1>2, <1>9, <1>10 DEF TypeInv, Types, Domains
<1>12. \A q \in Peers \ {p} : Untouched(q)
  BY <1>1, <1>2, <1>9, <1>10 DEF Untouched
<1>13. waiting'[p] \subseteq {OutgoingId(k) : k \in Nat}
  BY <1>3, <1>10 DEF TypeInv, Types, Typed
<1>14. Typed(p)'
  BY <1>1, <1>2, <1>7, <1>9, <1>13 DEF TypeInv, Types, Typed
<1> QED BY <1>1, <1>11, <1>12, <1>14, StepTyped DEF TypeInv, Types

(* A block that only posts another one.                                    *)
LEMMA RunPollTyped ==
  ASSUME TypeInv, NEW p \in Peers, RunPollOutgoing(p) \/ RunPollIncoming(p)
  PROVE  Types'
<1>1. /\ UNCHANGED <<outgoing, sentSeqOut, incoming, resends, lastId, shown, delivered>>
      /\ UNCHANGED <<executing, requests, waiting, writes, network, discarded, lost,
                     failures, restarts>>
      /\ stage[p] # <<>>
  BY DEF RunPollOutgoing, RunPollIncoming, Runs, persistent, history
<1>2. PICK b : /\ b = OutgoingBlock(p, stored[p]) \/ b = IncomingBlock(incoming[p], seqIn[p])
               /\ stage' = [stage EXCEPT ![p] = Append(Tail(stage[p]), b)]
  BY DEF RunPollOutgoing, RunPollIncoming
<1>3. OutgoingBlock(p, stored[p]) \in TypedBlocks
  BY StoredNat, PollTyped
<1>4. IncomingBlock(incoming[p], seqIn[p]) \in TypedBlocks
  BY BlockTypes DEF IncomingBlock, TypeInv, Types, Typed, Inv, Functions
<1>5. PICK s : s = Append(Tail(stage[p]), b)
  OBVIOUS
<1>6. s \in Seq(TypedBlocks)
  BY <1>1, <1>2, <1>3, <1>4, <1>5, SeqRest, AppendProperties DEF TypeInv, Types, Typed
<1>7. /\ stage'[p] = s /\ Whole(stage') /\ \A q \in Peers \ {p} : stage'[q] = stage[q]
  BY <1>2, <1>5, WholeUpdate DEF TypeInv, Types, Domains
<1>8. Domains'
  BY <1>1, <1>7 DEF TypeInv, Types, Domains
<1>9. \A q \in Peers \ {p} : Untouched(q)
  BY <1>1, <1>7 DEF Untouched
<1>10. Typed(p)'
  BY <1>1, <1>6, <1>7 DEF TypeInv, Types, Typed
<1> QED BY <1>1, <1>8, <1>9, <1>10, StepTyped DEF TypeInv, Types

LEMMA WireType ==
  ASSUME NEW n \in Int, NEW b
  PROVE  Wire(n, b) \in Int /\ Halved(n) \in Int
<1>1. Bit(b) \in {0, 1}
  BY DEF Bit
<1>2. n \div 2 \in Int /\ (-n) \div 2 \in Int
  OBVIOUS
<1> QED BY <1>1, <1>2 DEF Wire, Halved

LEMMA MessageTyped ==
  ASSUME TypeInv, NEW p \in Peers, NEW seq \in Numbers(p), NEW id
  PROVE  Message(p, seq, Content(p, id, seq)) \in Messages
<1>1. outgoing[p] \in Seq(OutRows)
  BY DEF TypeInv, Types, Typed
<1>2. seq \in Nat /\ seq + 1 \in 1 .. Len(outgoing[p])
  BY <1>1, LenProperties DEF Numbers
<1>3. PICK row \in OutRows : row = outgoing[p][seq + 1]
  BY <1>1, <1>2, ElementOfSeq
<1>4. row.seqIn \in Nat /\ row.body \in Contents /\ Deletion \in Contents
  BY DEF OutRows, Contents
<1>5. PICK c \in Contents : c = Content(p, id, seq)
  BY <1>3, <1>4 DEF Content
<1>6. PICK m \in Int, n \in Int : m = Wire(seq, p = Creator) /\ n = Wire(row.seqIn, p # Creator)
  BY <1>2, <1>4, WireType
<1>7. Message(p, seq, c) = [seqOut |-> m, seqIn |-> n, content |-> c]
  BY <1>3, <1>6 DEF Message
<1> QED BY <1>5, <1>7 DEF Messages

LEMMA RunOutgoingTyped ==
  ASSUME TypeInv, NEW p \in Peers, RunOutgoing(p)
  PROVE  Types'
<1>1. /\ UNCHANGED <<outgoing, sentSeqOut, incoming, resends, lastId, shown, delivered>>
      /\ UNCHANGED <<waiting, writes, network, discarded, lost, failures, restarts>>
      /\ stage[p] # <<>> /\ Head(stage[p]).type = "outgoing"
  BY DEF RunOutgoing, Runs, persistent, history
<1>2. PICK b : b = Head(stage[p])
  OBVIOUS
<1>3. /\ b \in TypedBlocks /\ b.type = "outgoing"
      /\ b.rows \subseteq Nat /\ b.resends \subseteq Resends
  BY <1>1, <1>2, SeqRest, BlockTypes DEF TypeInv, Types, Typed
<1>4. PICK new : new = NewRows(p, b)
  OBVIOUS
<1>5. \A r \in new : r \in [id : Nat, seq : Nat, resend : BOOLEAN]
  <2>1. ASSUME NEW r \in new
        PROVE  \/ \E n \in b.rows : r = [id |-> OutgoingId(n), seq |-> n, resend |-> FALSE]
               \/ \E x \in b.resends : r = [id |-> x.id, seq |-> x.seq, resend |-> TRUE]
    BY <1>4, <2>1 DEF NewRows
  <2>2. \A n \in Nat : OutgoingId(n) \in Nat
    BY PeersAssumption DEF OutgoingId
  <2>3. \A x \in Resends : x.id \in Nat /\ x.seq \in Nat
    BY DEF Resends
  <2> SUFFICES ASSUME NEW r \in new PROVE r \in [id : Nat, seq : Nat, resend : BOOLEAN]
    OBVIOUS
  <2>4. CASE \E n \in b.rows : r = [id |-> OutgoingId(n), seq |-> n, resend |-> FALSE]
    <3>1. PICK n \in b.rows : r = [id |-> OutgoingId(n), seq |-> n, resend |-> FALSE]
      BY <2>4
    <3>2. n \in Nat /\ OutgoingId(n) \in Nat
      BY <1>3, <2>2
    <3> QED BY <3>1, <3>2
  <2>5. CASE \E x \in b.resends : r = [id |-> x.id, seq |-> x.seq, resend |-> TRUE]
    BY <1>3, <2>3, <2>5
  <2> QED BY <2>1, <2>4, <2>5
<1>6. \A r \in new : r.seq \in Numbers(p)
  <2>1. BlockSound(p, b)
    BY <1>1, <1>2, BlockRun DEF TypeInv, Inv, Sound
  <2>2. b.rows \subseteq Numbers(p) /\ \A x \in b.resends : x.seq \in Numbers(p)
    BY <1>3, <2>1 DEF BlockSound
  <2>3. ASSUME NEW r \in new
        PROVE  \/ \E n \in b.rows : r = [id |-> OutgoingId(n), seq |-> n, resend |-> FALSE]
               \/ \E x \in b.resends : r = [id |-> x.id, seq |-> x.seq, resend |-> TRUE]
    BY <1>4, <2>3 DEF NewRows
  <2> QED BY <2>2, <2>3
<1>7. \A n : Before(p, new, n) \subseteq Nat
  <2>1. \A y \in requests[p] : y.row.seq \in Nat
    BY DEF TypeInv, Types, Typed, Requests
  <2>2. \A r \in new : r.seq \in Nat
    BY <1>5
  <2> QED BY <2>1, <2>2 DEF Before
<1>8. PICK made : made =
        {[row |-> r, accepted |-> FALSE, after |-> Before(p, new, r.seq),
          message |-> Message(p, r.seq, Content(p, r.id, r.seq))] : r \in new}
  OBVIOUS
<1>9. \A r \in new : Message(p, r.seq, Content(p, r.id, r.seq)) \in Messages
  BY <1>6, MessageTyped
<1>10. made \subseteq Requests
  <2> SUFFICES ASSUME NEW x \in made PROVE x \in Requests
    OBVIOUS
  <2>1. PICK r \in new :
          x = [row |-> r, accepted |-> FALSE, after |-> Before(p, new, r.seq),
               message |-> Message(p, r.seq, Content(p, r.id, r.seq))]
    BY <1>8
  <2>2. PICK a, m : a = Before(p, new, r.seq) /\ m = Message(p, r.seq, Content(p, r.id, r.seq))
    OBVIOUS
  <2>3. a \in SUBSET Nat /\ m \in Messages /\ r \in [id : Nat, seq : Nat, resend : BOOLEAN]
    BY <1>5, <1>7, <1>9, <2>2
  <2>4. x = [row |-> r, accepted |-> FALSE, after |-> a, message |-> m]
    BY <2>1, <2>2
  <2> QED BY <2>3, <2>4 DEF Requests
<1>11. PICK ids : ids = {r.id : r \in new}
  OBVIOUS
<1>12. ids \subseteq Nat
  BY <1>5, <1>11
<1>13. /\ requests' = [requests EXCEPT ![p] = requests[p] \cup made]
       /\ executing' = [executing EXCEPT ![p] = executing[p] \cup ids]
       /\ stage' = [stage EXCEPT ![p] = Tail(stage[p])]
       /\ DOMAIN requests = Peers /\ DOMAIN executing = Peers /\ Whole(stage)
  BY <1>2, <1>4, <1>8, <1>11 DEF RunOutgoing, TypeInv, Types, Domains, Inv, Functions
<1>14. PICK s : s = Tail(stage[p])
  OBVIOUS
<1>15. s \in Seq(TypedBlocks)
  BY <1>1, <1>14, SeqRest DEF TypeInv, Types, Typed
<1>16. /\ stage'[p] = s /\ Whole(stage') /\ \A q \in Peers \ {p} : stage'[q] = stage[q]
  BY <1>13, <1>14, WholeUpdate
<1>17. Domains'
  BY <1>1, <1>13, <1>16 DEF TypeInv, Types, Domains
<1>18. \A q \in Peers \ {p} : Untouched(q)
  BY <1>1, <1>13, <1>16 DEF Untouched
<1>19. requests'[p] \subseteq Requests /\ executing'[p] \subseteq Nat
  BY <1>10, <1>12, <1>13 DEF TypeInv, Types, Typed
<1>20. Typed(p)'
  BY <1>1, <1>15, <1>16, <1>19 DEF TypeInv, Types, Typed
<1> QED BY <1>1, <1>17, <1>18, <1>20, StepTyped DEF TypeInv, Types

LEMMA AcceptTyped ==
  ASSUME TypeInv, NEW p \in Peers, Accept(p)
  PROVE  Types'
<1>1. /\ UNCHANGED <<outgoing, sentSeqOut, incoming, resends, lastId, shown, delivered>>
      /\ UNCHANGED <<executing, waiting, stage, writes, discarded, lost, failures,
                     restarts>>
  BY DEF Accept, persistent, history
<1>2. PICK o \in Peers : o = Other(p) /\ o # p
  BY OtherEnd
<1>3. PICK r \in requests[p] :
        /\ requests' = [requests EXCEPT ![p] =
                          (requests[p] \ {r}) \cup {[r EXCEPT !.accepted = TRUE]}]
        /\ network' = [network EXCEPT ![o] = Append(network[o], r.message)]
  BY <1>2 DEF Accept
<1>4. r \in Requests /\ [r EXCEPT !.accepted = TRUE] \in Requests /\ r.message \in Messages
  <2>1. r \in Requests
    BY DEF TypeInv, Types, Typed
  <2>2. [r EXCEPT !.accepted = TRUE] \in Requests
    BY <2>1 DEF Requests
  <2>3. r.message \in Messages
    BY <2>1 DEF Requests
  <2> QED BY <2>1, <2>2, <2>3
<1>5. PICK s : s = Append(network[o], r.message)
  OBVIOUS
<1>6. s \in Seq(Messages)
  BY <1>4, <1>5, AppendProperties DEF TypeInv, Types, Typed
<1>7. /\ network'[o] = s /\ Whole(network')
      /\ \A q \in Peers \ {o} : network'[q] = network[q]
  BY <1>3, <1>5, WholeUpdate DEF TypeInv, Types, Domains
<1>8. DOMAIN requests = Peers
  BY DEF TypeInv, Inv, Functions
<1>9. requests'[p] \subseteq Requests /\ \A q \in Peers \ {p} : requests'[q] = requests[q]
  BY <1>3, <1>4, <1>8 DEF TypeInv, Types, Typed
<1>10. \A q \in Peers : network'[q] \in Seq(Messages) /\ requests'[q] \subseteq Requests
  BY <1>6, <1>7, <1>9 DEF TypeInv, Types, Typed
<1>11. \A q \in Peers : Typed(q)'
  BY <1>1, <1>10 DEF TypeInv, Types, Typed
<1>12. Domains'
  BY <1>1, <1>7 DEF TypeInv, Types, Domains
<1> QED BY <1>1, <1>11, <1>12 DEF TypeInv, Types

LEMMA CompleteTyped ==
  ASSUME TypeInv, NEW p \in Peers, Complete(p)
  PROVE  Types'
<1>1. /\ UNCHANGED <<outgoing, incoming, lastId, shown>>
      /\ UNCHANGED <<executing, stage, writes, network, discarded, lost, failures,
                     restarts>>
  BY DEF Complete, history
<1>2. PICK r \in requests[p] :
        /\ requests' = [requests EXCEPT ![p] = @ \ {r}]
        /\ \/ /\ resends' = [resends EXCEPT ![p] = {x \in @ : x.id # r.row.id}]
              /\ UNCHANGED sentSeqOut
           \/ /\ sentSeqOut' = [sentSeqOut EXCEPT ![p] = r.row.seq]
              /\ UNCHANGED resends
        /\ waiting' = [waiting EXCEPT ![p] = @ \ {r.row.id}]
        /\ delivered' = [delivered EXCEPT ![p] = @ \cup
             {id - FirstOutgoingId : id \in waiting[p] \cap {r.row.id}}]
  BY DEF Complete
<1>3. r.row.seq \in Nat
  BY DEF TypeInv, Types, Typed, Requests
<1>4. PICK D : D = {id - FirstOutgoingId : id \in waiting[p] \cap {r.row.id}}
  OBVIOUS
<1>5. D \subseteq Nat
  <2>1. \A n \in Nat : OutgoingId(n) - FirstOutgoingId = n
    BY PeersAssumption DEF OutgoingId
  <2>2. \A id \in waiting[p] : \E n \in Nat : id = OutgoingId(n)
    BY DEF TypeInv, Types, Typed
  <2> QED BY <1>4, <2>1, <2>2
<1>6. /\ DOMAIN requests = Peers /\ DOMAIN resends = Peers /\ DOMAIN waiting = Peers
      /\ DOMAIN delivered = Peers /\ Whole(sentSeqOut)
  BY DEF TypeInv, Types, Domains, Inv, Functions
<1>7. /\ requests'[p] \subseteq requests[p] /\ resends'[p] \subseteq resends[p]
      /\ waiting'[p] \subseteq waiting[p] /\ delivered'[p] = delivered[p] \cup D
      /\ DOMAIN waiting' = Peers /\ DOMAIN delivered' = Peers
  BY <1>2, <1>4, <1>6
<1>8. \A q \in Peers \ {p} :
        /\ requests'[q] = requests[q] /\ resends'[q] = resends[q]
        /\ waiting'[q] = waiting[q] /\ delivered'[q] = delivered[q]
  BY <1>2, <1>6
<1>9. PICK n : n = r.row.seq
  OBVIOUS
<1>10. /\ sentSeqOut'[p] \in Int /\ Whole(sentSeqOut')
       /\ \A q \in Peers \ {p} : sentSeqOut'[q] = sentSeqOut[q]
  <2>1. CASE UNCHANGED sentSeqOut
    BY <2>1 DEF TypeInv, Types, Typed, Domains
  <2>2. CASE sentSeqOut' = [sentSeqOut EXCEPT ![p] = n]
    <3>1. n \in Int
      BY <1>3, <1>9
    <3>2. /\ sentSeqOut'[p] = n /\ Whole(sentSeqOut')
          /\ \A q \in Peers \ {p} : sentSeqOut'[q] = sentSeqOut[q]
      BY <1>6, <2>2, WholeUpdate
    <3> QED BY <3>1, <3>2
  <2> QED BY <1>2, <1>9, <2>1, <2>2
<1>11. Domains'
  BY <1>1, <1>7, <1>10 DEF TypeInv, Types, Domains
<1>12. \A q \in Peers \ {p} : Untouched(q)
  BY <1>1, <1>8, <1>10 DEF Untouched
<1>13. /\ requests'[p] \subseteq Requests /\ resends'[p] \subseteq Resends
       /\ waiting'[p] \subseteq {OutgoingId(k) : k \in Nat} /\ delivered'[p] \subseteq Nat
  BY <1>5, <1>7 DEF TypeInv, Types, Typed
<1>14. Typed(p)'
  BY <1>1, <1>10, <1>13 DEF TypeInv, Types, Typed
<1> QED BY <1>1, <1>11, <1>12, <1>14, StepTyped DEF TypeInv, Types

LEMMA FailTyped ==
  ASSUME TypeInv, NEW p \in Peers, Fail(p)
  PROVE  Types'
<1>1. /\ UNCHANGED <<outgoing, sentSeqOut, incoming, resends, lastId, shown, delivered>>
      /\ UNCHANGED <<waiting, stage, writes, network, discarded, lost, restarts>>
  BY DEF Fail, persistent, history
<1>2. /\ DOMAIN requests = Peers /\ DOMAIN executing = Peers /\ Whole(failures)
      /\ failures[p] \in Nat
  BY DEF TypeInv, Types, Domains, Inv, Functions, Typed
<1>3. PICK r \in requests[p] :
        /\ requests' = [requests EXCEPT ![p] = requests[p] \ {r}]
        /\ executing' = [executing EXCEPT ![p] = executing[p] \ {r.row.id}]
  BY DEF Fail
<1>4. PICK n \in Nat : n = failures[p] + 1
  BY <1>2
<1>5. failures' = [failures EXCEPT ![p] = n]
  BY <1>4 DEF Fail
<1>6. /\ failures'[p] = n /\ Whole(failures')
      /\ \A q \in Peers \ {p} : failures'[q] = failures[q]
  BY <1>2, <1>5, WholeUpdate
<1>7. Domains'
  BY <1>1, <1>2, <1>3, <1>6 DEF TypeInv, Types, Domains
<1>8. \A q \in Peers \ {p} : Untouched(q)
  BY <1>1, <1>2, <1>3, <1>6 DEF Untouched
<1>9. requests'[p] \subseteq Requests /\ executing'[p] \subseteq Nat
  BY <1>2, <1>3 DEF TypeInv, Types, Typed
<1>10. Typed(p)'
  BY <1>1, <1>6, <1>9 DEF TypeInv, Types, Typed
<1> QED BY <1>1, <1>7, <1>8, <1>10, StepTyped DEF TypeInv, Types

(* New rows have ids after all that were given before.                     *)
LEMMA ReceivedTyped ==
  ASSUME TypeInv, NEW p \in Peers, NEW k \in 1 .. Len(network[p])
  PROVE  /\ incoming[p] \cup NewIncoming(p, k) \subseteq Rows
         /\ OwnIds(incoming[p] \cup NewIncoming(p, k))
         /\ \A r \in incoming[p] \cup NewIncoming(p, k) : r.id <= lastId[p].incoming + k
<1>1. PICK l \in Nat : l = lastId[p].incoming
  BY DEF TypeInv, Types, Typed
<1>2. network[p] \in Seq(Messages) /\ Len(network[p]) \in Nat
  BY LenProperties DEF TypeInv, Types, Typed
<1> DEFINE J == {j \in 1 .. k : Genuine(p, network[p][j])}
           row(i) == [id |-> l + i, seq |-> Halved(network[p][i].seqOut),
                      seqIn |-> Halved(network[p][i].seqIn), content |-> network[p][i].content]
<1>3. NewIncoming(p, k) = {row(i) : i \in J}
  BY <1>1 DEF NewIncoming
<1>4. \A i \in J : i \in 1 .. k /\ i \in 1 .. Len(network[p])
  BY <1>2
<1>5. ASSUME NEW i \in J PROVE row(i) \in Rows
  <2>1. network[p][i] \in Messages
    BY <1>2, <1>4, ElementOfSeq
  <2>2. PICK m \in Messages : m = network[p][i]
    BY <2>1
  <2>3. Halved(m.seqOut) \in Int /\ Halved(m.seqIn) \in Int /\ m.content \in Contents
    BY WireType DEF Messages
  <2>4. l + i \in Nat
    BY <1>4
  <2> QED BY <2>2, <2>3, <2>4 DEF Rows
<1>6. \A i \in J : row(i).id = l + i
  OBVIOUS
<1> HIDE DEF row, J
<1>7. \A r \in NewIncoming(p, k) : \E i \in 1 .. k : r = row(i) /\ r.id = l + i
  BY <1>3, <1>4, <1>6
<1>8. \A r \in incoming[p] : r.id \in Nat /\ r.id <= l
  BY <1>1 DEF TypeInv, Types, Typed, Rows
<1>9. ASSUME NEW r \in incoming[p] \cup NewIncoming(p, k),
             NEW x \in incoming[p] \cup NewIncoming(p, k), r.id = x.id
      PROVE  r = x
  <2>1. CASE r \in incoming[p] /\ x \in incoming[p]
    BY <1>9, <2>1 DEF TypeInv, Types, Typed, OwnIds
  <2>2. CASE r \in NewIncoming(p, k) /\ x \in NewIncoming(p, k)
    <3>1. PICK i \in 1 .. k : r = row(i) /\ r.id = l + i
      BY <1>7, <2>2
    <3>2. PICK j \in 1 .. k : x = row(j) /\ x.id = l + j
      BY <1>7, <2>2
    <3>3. i = j
      BY <1>9, <3>1, <3>2
    <3> QED BY <3>1, <3>2, <3>3
  <2>3. CASE r \in incoming[p] /\ x \in NewIncoming(p, k)
    <3>1. PICK j \in 1 .. k : x.id = l + j
      BY <1>7, <2>3
    <3> QED BY <1>8, <1>9, <2>3, <3>1
  <2>4. CASE r \in NewIncoming(p, k) /\ x \in incoming[p]
    <3>1. PICK j \in 1 .. k : r.id = l + j
      BY <1>7, <2>4
    <3>2. PICK n \in Nat : n = x.id /\ n <= l
      BY <1>8, <2>4
    <3>3. n = l + j
      BY <1>9, <3>1, <3>2
    <3> QED BY <3>2, <3>3
  <2> QED BY <2>1, <2>2, <2>3, <2>4
<1>10. OwnIds(incoming[p] \cup NewIncoming(p, k))
  BY <1>9 DEF OwnIds
<1>11. incoming[p] \cup NewIncoming(p, k) \subseteq Rows
  BY <1>3, <1>5 DEF TypeInv, Types, Typed
<1>12. \A r \in incoming[p] \cup NewIncoming(p, k) : r.id <= l + k
  <2>1. \A r \in incoming[p] : r.id <= l + k
    BY <1>8
  <2>2. ASSUME NEW r \in NewIncoming(p, k) PROVE r.id <= l + k
    <3>1. PICK i \in 1 .. k : r.id = l + i
      BY <1>7
    <3> QED BY <3>1
  <2> QED BY <2>1, <2>2
<1> QED BY <1>1, <1>10, <1>11, <1>12

LEMMA ReceiveTyped ==
  ASSUME TypeInv, NEW p \in Peers, Receive(p)
  PROVE  Types'
<1>1. /\ UNCHANGED <<outgoing, sentSeqOut, resends, shown, delivered>>
      /\ UNCHANGED <<executing, requests, waiting, writes, discarded, lost, failures,
                     restarts>>
  BY DEF Receive, history
<1>2. PICK k \in 1 .. Len(network[p]) :
        /\ incoming' = [incoming EXCEPT ![p] = incoming[p] \cup NewIncoming(p, k)]
        /\ Post(p, <<IncomingBlock(incoming[p] \cup NewIncoming(p, k), seqIn[p])>>)
        /\ lastId' = [lastId EXCEPT ![p].incoming = @ + k]
        /\ network' = [network EXCEPT ![p] = SubSeq(network[p], k + 1, Len(network[p]))]
  BY DEF Receive
<1>3. PICK rows : rows = incoming[p] \cup NewIncoming(p, k)
  OBVIOUS
<1>4. PICK l \in Nat : l = lastId[p].incoming
  BY DEF TypeInv, Types, Typed
<1>5. rows \subseteq Rows /\ OwnIds(rows) /\ \A r \in rows : r.id <= l + k
  BY <1>3, <1>4, ReceivedTyped
<1>6. PICK b : b = IncomingBlock(rows, seqIn[p])
  OBVIOUS
<1>7. b \in TypedBlocks
  BY <1>5, <1>6, BlockTypes DEF IncomingBlock, TypeInv, Inv, Functions
<1>8. PICK s, t : s = stage[p] \o <<b>> /\ t = SubSeq(network[p], k + 1, Len(network[p]))
  OBVIOUS
<1>9. s \in Seq(TypedBlocks)
  <2>1. <<b>> \in Seq(TypedBlocks)
    BY <1>7
  <2> QED BY <1>8, <2>1, ConcatProperties DEF TypeInv, Types, Typed
<1>10. network[p] \in Seq(Messages) /\ Len(network[p]) \in Nat
  BY LenProperties DEF TypeInv, Types, Typed
<1>11. t \in Seq(Messages)
  <2>1. \A i \in k + 1 .. Len(network[p]) : network[p][i] \in Messages
    BY <1>10, ElementOfSeq
  <2> QED BY <1>8, <1>10, <2>1, SubSeqProperties
<1>12. /\ stage' = [stage EXCEPT ![p] = s] /\ network' = [network EXCEPT ![p] = t]
       /\ incoming' = [incoming EXCEPT ![p] = rows] /\ DOMAIN incoming = Peers
  BY <1>2, <1>3, <1>6, <1>8 DEF Post, TypeInv, Inv, Functions
<1>13. /\ stage'[p] = s /\ Whole(stage') /\ network'[p] = t /\ Whole(network')
       /\ \A q \in Peers \ {p} : stage'[q] = stage[q] /\ network'[q] = network[q]
  BY <1>12, WholeUpdate DEF TypeInv, Types, Domains
<1>14. PICK id : id = [lastId[p] EXCEPT !.incoming = l + k]
  OBVIOUS
<1>15. /\ id \in [incoming : Nat, resend : Int] /\ id.incoming = l + k
       /\ id.resend = lastId[p].resend
  <2>1. PICK d \in [incoming : Nat, resend : Int] : d = lastId[p]
    BY DEF TypeInv, Types, Typed
  <2>2. l + k \in Nat /\ id = [d EXCEPT !.incoming = l + k]
    BY <1>10, <1>14, <2>1
  <2> QED BY <2>1, <2>2
<1>16. lastId' = [lastId EXCEPT ![p] = id]
  BY <1>2, <1>4, <1>14
<1>17. /\ lastId'[p] = id /\ Whole(lastId') /\ \A q \in Peers \ {p} : lastId'[q] = lastId[q]
  BY <1>16, WholeUpdate DEF TypeInv, Types, Domains
<1>18. Domains'
  BY <1>1, <1>13, <1>17 DEF TypeInv, Types, Domains
<1>19. \A q \in Peers \ {p} : Untouched(q)
  BY <1>1, <1>12, <1>13, <1>17 DEF Untouched
<1>20. incoming'[p] = rows
  BY <1>12
<1>21. /\ incoming'[p] \subseteq Rows /\ OwnIds(incoming'[p])
       /\ \A r \in incoming'[p] : r.id <= lastId'[p].incoming
  BY <1>5, <1>15, <1>17, <1>20
<1>22. lastId'[p] \in [incoming : Nat, resend : Int] /\ lastId'[p].resend >= -1
  BY <1>15, <1>17 DEF TypeInv, Types, Typed
<1>23. stage'[p] \in Seq(TypedBlocks) /\ network'[p] \in Seq(Messages)
  BY <1>9, <1>11, <1>13
<1>24. Typed(p)'
  <2>1. Typed(p)
    BY DEF TypeInv, Types
  <2> QED BY <1>1, <1>21, <1>22, <1>23, <2>1, Zenon DEF Typed
<1> QED BY <1>1, <1>18, <1>19, <1>24, StepTyped DEF TypeInv, Types

LEMMA QueriesTyped ==
  ASSUME NEW s \in Seq(TypedQueries), NEW t \in Seq(TypedQueries)
  PROVE  s \o t \in Seq(TypedQueries)
BY ConcatProperties

LEMMA ResendContent ==
  ASSUME NEW r \in Rows, r.content.type = "resend"
  PROVE  r.content.from \in Int /\ r.content.to \in Int
<1>1. PICK c \in Contents : c = r.content
  BY DEF Rows
<1>2. c = Text \/ c = Deletion \/ c \in [type : {"resend"}, from : Int, to : Int]
  BY DEF Contents
<1> QED BY <1>1, <1>2 DEF Text, Deletion

LEMMA SeqsFinite ==
  ASSUME NEW rows, IsFiniteSet(rows)
  PROVE  IsFiniteSet(Seqs(rows))
<1> DEFINE f == [r \in rows |-> r.seq]
<1>1. f \in Surjection(rows, Seqs(rows))
  BY DEF Surjection, Seqs
<1> HIDE DEF f
<1> QED BY <1>1, FS_Surjection

LEMMA BlockWritesTyped ==
  ASSUME NEW rows, NEW next \in Nat, IsFiniteSet(rows), rows \subseteq Rows, OwnIds(rows),
         NEW b \in Nat, \A r \in rows : r.seq \in Nat /\ r.seqIn \in 0 .. b
  PROVE  BlockWrites(rows, next) \in Seq(TypedQueries)
<1> DEFINE process == ToProcess(rows, next)
           again   == OfType(process, "resend")
           asked   == Sorted(again)
           deleted == Seqs(OfType(process, "deletion"))
           T       == Seqs(OfType(process, "text")) \ deleted
           texts   == Ascending(T)
           ids     == {r.id : r \in rows \ Kept(rows, next)}
           d == [type |-> "delete", ids |-> ids]
           n == [type |-> "seqIn", seq |-> NextExpected(rows, next)]
           ask(i) == [type |-> "resend", from |-> Halved(asked[i].content.from),
                      to |-> Halved(asked[i].content.to)]
           resent == [i \in DOMAIN asked |-> ask(i)]
           added == IF texts # <<>> THEN <<[type |-> "add", seqs |-> texts]>> ELSE <<>>
           removed == IF deleted # {} THEN <<[type |-> "remove", seqs |-> deleted]>> ELSE <<>>
<1>1. BlockWrites(rows, next) =
        <<d, n>> \o Confirms(rows, next) \o resent \o added \o removed
  BY DEF BlockWrites
<1>2. process \subseteq rows
  BY DEF ToProcess, InSequence, EarlyResends, TooEarly
<1> HIDE DEF process
<1>3. <<>> \in Seq(TypedQueries) /\ \A q \in TypedQueries : <<q>> \in Seq(TypedQueries)
  OBVIOUS
<1>4. \A type : OfType(process, type) \in SUBSET rows
  BY <1>2 DEF OfType
<1>5. \A type : IsFiniteSet(OfType(process, type))
  BY <1>4, FS_Subset
<1>6. \A type : Seqs(OfType(process, type)) \subseteq Int
  BY <1>4 DEF Seqs
<1>7. <<d, n>> \in Seq(TypedQueries)
  <2>1. NextExpected(rows, next) \in Nat
    BY NextThere
  <2>2. ids \in SUBSET Nat
    BY DEF Rows
  <2> HIDE DEF ids
  <2>3. d \in TypedQueries /\ n \in TypedQueries
    BY <2>1, <2>2, QueryTypes
  <2> HIDE DEF d, n
  <2> QED BY <2>3
<1>8. Confirms(rows, next) \in Seq(TypedQueries)
  <2>1. PICK M : M = {r.seqIn : r \in InSequence(rows, next)} \cup {-1}
    OBVIOUS
  <2>2. \A r \in InSequence(rows, next) : r.seqIn \in 0 .. b
    BY DEF InSequence
  <2>3. b \in Int /\ M \subseteq Int /\ M # {} /\ \A x \in M : x <= b
    BY <2>1, <2>2
  <2>4. Max(M) \in M
    BY <2>3, BoundedMax
  <2>5. PICK m \in Int : m = MaxSeqIn(rows, next)
    BY <2>1, <2>3, <2>4 DEF MaxSeqIn
  <2>6. CASE m > 0
    <3>1. m - 1 \in Nat
      BY <2>6
    <3>2. PICK q : q = [type |-> "confirm", seq |-> m - 1]
      OBVIOUS
    <3>3. q \in TypedQueries
      BY <3>1, <3>2, QueryTypes
    <3>4. Confirms(rows, next) = <<q>>
      BY <2>5, <2>6, <3>2 DEF Confirms
    <3> QED BY <1>3, <3>3, <3>4
  <2>7. CASE ~(m > 0)
    BY <1>3, <2>5, <2>7 DEF Confirms
  <2> QED BY <2>6, <2>7
<1>9. resent \in Seq(TypedQueries)
  <2>1. \A r \in again : r \in rows /\ r.content.type = "resend"
    BY <1>4 DEF OfType
  <2>2. IsFiniteSet(again) /\ again \subseteq rows
    BY <1>4, <1>5
  <2> HIDE DEF again
  <2>3. OwnIds(again) /\ \A r \in again : r.id \in Int /\ r.seq \in Int
    BY <2>2 DEF OwnIds, Rows
  <2>4. asked \in Seq(again)
    BY <2>2, <2>3, SortedList
  <2> HIDE DEF asked
  <2>5. Len(asked) \in Nat /\ DOMAIN asked = 1 .. Len(asked)
    BY <2>4
  <2>6. ASSUME NEW i \in 1 .. Len(asked) PROVE ask(i) \in TypedQueries
    <3>1. PICK r \in again : r = asked[i]
      BY <2>4, <2>6, ElementOfSeq
    <3>2. r \in Rows /\ r.content.type = "resend"
      BY <2>1
    <3>3. r.content.from \in Int /\ r.content.to \in Int
      BY <3>2, ResendContent
    <3>4. Halved(r.content.from) \in Int /\ Halved(r.content.to) \in Int
      BY <3>3, WireType
    <3>5. ask(i) = [type |-> "resend", from |-> Halved(r.content.from), to |-> Halved(r.content.to)]
      BY <3>1
    <3> HIDE DEF ask
    <3> QED BY <3>4, <3>5, QueryTypes
  <2> HIDE DEF ask
  <2> QED BY <2>5, <2>6
<1>10. added \in Seq(TypedQueries)
  <2>1. T \in SUBSET Seqs(OfType(process, "text")) /\ T \subseteq Int
    BY <1>6
  <2>2. IsFiniteSet(T)
    <3> HIDE DEF T
    <3>1. IsFiniteSet(Seqs(OfType(process, "text")))
      BY <1>5, SeqsFinite
    <3> QED BY <2>1, <3>1, FS_Subset
  <2> HIDE DEF T
  <2>3. texts \in Seq(T) /\ Once(texts)
    BY <2>1, <2>2, AscendingList DEF Once
  <2> HIDE DEF texts
  <2>4. texts \in Seq(Int)
    BY <2>1, <2>3, SeqMonotonic
  <2>5. [type |-> "add", seqs |-> texts] \in TypedQueries
    BY <2>3, <2>4, QueryTypes
  <2> QED BY <1>3, <2>5
<1>11. removed \in Seq(TypedQueries)
  <2>1. deleted \in SUBSET Int
    BY <1>6
  <2> HIDE DEF deleted
  <2>2. [type |-> "remove", seqs |-> deleted] \in TypedQueries
    BY <2>1, QueryTypes
  <2> QED BY <1>3, <2>2
<1> HIDE DEF d, n, resent, added, removed
<1>12. <<d, n>> \o Confirms(rows, next) \in Seq(TypedQueries)
  BY <1>7, <1>8, QueriesTyped
<1>13. <<d, n>> \o Confirms(rows, next) \o resent \in Seq(TypedQueries)
  BY <1>9, <1>12, QueriesTyped
<1>14. <<d, n>> \o Confirms(rows, next) \o resent \o added \in Seq(TypedQueries)
  BY <1>10, <1>13, QueriesTyped
<1>15. <<d, n>> \o Confirms(rows, next) \o resent \o added \o removed \in Seq(TypedQueries)
  BY <1>11, <1>14, QueriesTyped
<1> QED BY <1>1, <1>15

(* The range that is asked for.                                            *)
LEMMA MissingTyped ==
  ASSUME NEW p, NEW rows, NEW next \in Nat, IsFiniteSet(rows), rows # {},
         \A r \in rows : r.seq \in Nat
  PROVE  Missing(p, rows, next) \in Contents
<1>1. NextExpected(rows, next) \in Nat
  BY NextThere
<1>2. Seqs(rows) \subseteq Nat /\ Seqs(rows) # {}
  BY DEF Seqs
<1>3. PICK S : S = Seqs(rows)
  OBVIOUS
<1>4. PICK m \in S : \A x \in S : m <= x
  BY <1>2, <1>3, NatMin
<1>5. Min(S) \in S
  BY <1>4 DEF Min
<1>6. Min(Seqs(rows)) - 1 \in Int
  BY <1>2, <1>3, <1>5
<1>7. PICK a \in Int, b \in Int : /\ a = Wire(NextExpected(rows, next), p # Creator)
                                  /\ b = Wire(Min(Seqs(rows)) - 1, p # Creator)
  BY <1>1, <1>6, WireType
<1>8. Missing(p, rows, next) = [type |-> "resend", from |-> a, to |-> b]
  BY <1>7 DEF Missing, ResendRequest
<1> QED BY <1>8 DEF Contents

LEMMA RunIncomingTyped ==
  ASSUME TypeInv, NEW p \in Peers, RunIncoming(p)
  PROVE  Types'
<1>1. /\ UNCHANGED <<sentSeqOut, incoming, resends, lastId, shown, delivered>>
      /\ UNCHANGED <<executing, requests, waiting, network, discarded, lost, failures,
                     restarts>>
      /\ stage[p] # <<>> /\ Head(stage[p]).type = "incoming"
      /\ stage' = [stage EXCEPT ![p] = Tail(stage[p])]
  BY DEF RunIncoming, Runs, history
<1>2. PICK rows, next : rows = Head(stage[p]).rows /\ next = Head(stage[p]).next
  OBVIOUS
<1>3. rows \subseteq Rows /\ OwnIds(rows) /\ next \in Nat
  BY <1>1, <1>2, SeqRest, BlockTypes DEF TypeInv, Types, Typed
<1>4. RowsSound(p, rows)
  BY <1>1, <1>2, BlockRun DEF TypeInv, Inv, Sound, BlockSound
<1>5. PICK b \in Nat : b = processed[Other(p)]
  BY OtherEnd DEF TypeInv, Inv, Functions
<1>6. IsFiniteSet(rows) /\ \A r \in rows : r.seq \in Nat /\ r.seqIn \in 0 .. b
  BY <1>4, <1>5 DEF RowsSound, Told
<1>7. PICK w, poll : w = BlockWrites(rows, next) /\ poll = [type |-> "poll"]
  OBVIOUS
<1>8. w \in Seq(TypedQueries)
  BY <1>3, <1>6, <1>7, BlockWritesTyped
<1>9. <<poll>> \in Seq(TypedQueries)
  <2>1. poll \in TypedQueries
    BY <1>7, QueryTypes
  <2> QED BY <2>1
<1>10. <<poll>> \o w \in Seq(TypedQueries)
  BY <1>8, <1>9, QueriesTyped
<1>11. PICK v \in Seq(TypedQueries) :
         /\ writes' = [writes EXCEPT ![p] = v]
         /\ \/ UNCHANGED outgoing
            \/ Kept(rows, next) # {} /\ Enqueue(p, Missing(p, rows, next))
  BY <1>2, <1>7, <1>8, <1>10 DEF RunIncoming
<1>12. /\ writes'[p] = v /\ Whole(writes') /\ \A q \in Peers \ {p} : writes'[q] = writes[q]
  BY <1>11, WholeUpdate DEF TypeInv, Types, Domains
<1>13. /\ outgoing'[p] \in Seq(OutRows) /\ Whole(outgoing')
       /\ \A q \in Peers \ {p} : outgoing'[q] = outgoing[q]
  <2>1. CASE UNCHANGED outgoing
    BY <2>1 DEF TypeInv, Types, Domains, Typed
  <2>2. CASE Kept(rows, next) # {} /\ Enqueue(p, Missing(p, rows, next))
    <3>1. rows # {}
      BY <2>2 DEF Kept, TooEarly
    <3>2. Missing(p, rows, next) \in Contents
      BY <1>3, <1>6, <3>1, MissingTyped
    <3> QED BY <2>2, <3>2, EnqueueTyped
  <2> QED BY <1>11, <2>1, <2>2
<1>14. PICK s : s = Tail(stage[p])
  OBVIOUS
<1>15. s \in Seq(TypedBlocks)
  BY <1>1, <1>14, SeqRest DEF TypeInv, Types, Typed
<1>16. /\ stage'[p] = s /\ Whole(stage') /\ \A q \in Peers \ {p} : stage'[q] = stage[q]
  BY <1>1, <1>14, WholeUpdate DEF TypeInv, Types, Domains
<1>17. Domains'
  BY <1>1, <1>12, <1>13, <1>16 DEF TypeInv, Types, Domains
<1>18. \A q \in Peers \ {p} : Untouched(q)
  BY <1>1, <1>12, <1>13, <1>16 DEF Untouched
<1>19. Typed(p)'
  BY <1>1, <1>12, <1>13, <1>15, <1>16 DEF TypeInv, Types, Typed
<1> QED BY <1>1, <1>17, <1>18, <1>19, StepTyped DEF TypeInv, Types

(* What every query leaves alone, and the rest of the queue.               *)
LEMMA WritesTyped ==
  ASSUME TypeInv, NEW p \in Peers, NEW type, Writes(p, type)
  PROVE  /\ UNCHANGED <<outgoing, sentSeqOut, delivered, executing, requests, waiting>>
         /\ UNCHANGED <<network, lost, failures, restarts>>
         /\ writes[p] # <<>> /\ Head(writes[p]).type = type
         /\ Head(writes[p]) \in TypedQueries
         /\ writes'[p] \in Seq(TypedQueries) /\ Whole(writes')
         /\ \A q \in Peers \ {p} : writes'[q] = writes[q]
<1>1. /\ writes[p] # <<>> /\ Head(writes[p]).type = type
      /\ UNCHANGED <<outgoing, sentSeqOut, delivered, executing, requests, waiting>>
      /\ UNCHANGED <<network, lost, failures, restarts>>
      /\ writes' = [writes EXCEPT ![p] = Tail(writes[p])]
  BY DEF Writes
<1>2. Head(writes[p]) \in TypedQueries /\ Tail(writes[p]) \in Seq(TypedQueries)
  BY <1>1, SeqRest DEF TypeInv, Types, Typed
<1>3. PICK s : s = Tail(writes[p])
  OBVIOUS
<1>4. /\ writes'[p] = s /\ Whole(writes') /\ \A q \in Peers \ {p} : writes'[q] = writes[q]
  BY <1>1, <1>3, WholeUpdate DEF TypeInv, Types, Domains
<1> QED BY <1>1, <1>2, <1>3, <1>4

LEMMA WriteTablesTyped ==
  ASSUME TypeInv, NEW p \in Peers,
         WriteDelete(p) \/ WriteSeqIn(p) \/ WriteConfirm(p)
  PROVE  Types'
<1>1. PICK type : Writes(p, type)
  BY DEF WriteDelete, WriteSeqIn, WriteConfirm
<1>2. /\ UNCHANGED <<outgoing, sentSeqOut, delivered, executing, requests, waiting>>
      /\ UNCHANGED <<network, lost, failures, restarts>>
      /\ writes'[p] \in Seq(TypedQueries) /\ Whole(writes')
      /\ \A q \in Peers \ {p} : writes'[q] = writes[q]
  BY <1>1, WritesTyped
<1>3. UNCHANGED <<resends, lastId, shown, stage, discarded>>
  BY DEF WriteDelete, WriteSeqIn, WriteConfirm
<1>4. DOMAIN incoming = Peers
  BY DEF TypeInv, Inv, Functions
<1>5. incoming'[p] \subseteq incoming[p] /\ \A q \in Peers \ {p} : incoming'[q] = incoming[q]
  BY <1>4 DEF WriteDelete, WriteSeqIn, WriteConfirm
<1>6. Domains'
  BY <1>2, <1>3 DEF TypeInv, Types, Domains
<1>7. \A q \in Peers \ {p} : Untouched(q)
  BY <1>2, <1>3, <1>5 DEF Untouched
<1>8. /\ incoming'[p] \subseteq Rows /\ OwnIds(incoming'[p])
      /\ \A r \in incoming'[p] : r.id <= lastId[p].incoming
  BY <1>5 DEF TypeInv, Types, Typed, OwnIds
<1>9. Typed(p)'
  BY <1>2, <1>3, <1>8 DEF TypeInv, Types, Typed
<1> QED BY <1>3, <1>6, <1>7, <1>9, StepTyped DEF TypeInv, Types

LEMMA WritePollTyped ==
  ASSUME TypeInv, NEW p \in Peers, WritePoll(p)
  PROVE  Types'
<1>1. /\ UNCHANGED <<outgoing, sentSeqOut, delivered, executing, requests, waiting>>
      /\ UNCHANGED <<network, lost, failures, restarts>>
      /\ writes'[p] \in Seq(TypedQueries) /\ Whole(writes')
      /\ \A q \in Peers \ {p} : writes'[q] = writes[q]
  BY WritesTyped DEF WritePoll
<1>2. UNCHANGED <<incoming, resends, lastId, shown, discarded>>
  BY DEF WritePoll
<1>3. PICK b \in TypedBlocks : b = OutgoingBlock(p, stored[p])
  BY StoredNat, PollTyped
<1>4. PICK s : s = stage[p] \o <<b>>
  OBVIOUS
<1>5. s \in Seq(TypedBlocks)
  <2>1. <<b>> \in Seq(TypedBlocks)
    OBVIOUS
  <2> QED BY <1>4, <2>1, ConcatProperties DEF TypeInv, Types, Typed
<1>6. stage' = [stage EXCEPT ![p] = s]
  BY <1>3, <1>4 DEF WritePoll, Post
<1>7. /\ stage'[p] = s /\ Whole(stage') /\ \A q \in Peers \ {p} : stage'[q] = stage[q]
  BY <1>6, WholeUpdate DEF TypeInv, Types, Domains
<1>8. Domains'
  BY <1>1, <1>2, <1>7 DEF TypeInv, Types, Domains
<1>9. \A q \in Peers \ {p} : Untouched(q)
  BY <1>1, <1>2, <1>7 DEF Untouched
<1>10. Typed(p)'
  BY <1>1, <1>2, <1>5, <1>7 DEF TypeInv, Types, Typed
<1> QED BY <1>2, <1>8, <1>9, <1>10, StepTyped DEF TypeInv, Types

LEMMA WriteResendTyped ==
  ASSUME TypeInv, NEW p \in Peers, WriteResend(p)
  PROVE  Types'
<1>1. /\ UNCHANGED <<outgoing, sentSeqOut, delivered, executing, requests, waiting>>
      /\ UNCHANGED <<network, lost, failures, restarts>>
      /\ writes'[p] \in Seq(TypedQueries) /\ Whole(writes')
      /\ \A q \in Peers \ {p} : writes'[q] = writes[q]
  BY WritesTyped DEF WriteResend
<1>2. UNCHANGED <<incoming, shown>>
  BY DEF WriteResend
<1> DEFINE range == Head(writes[p]).from .. Head(writes[p]).to
           found == stored[p] \cap range
           upto(seq) == {s \in found : s <= seq}
           Rank(seq) == Cardinality(upto(seq))
<1>3. PICK copies :
        copies = {[id |-> lastId[p].resend + Rank(seq), seq |-> seq] : seq \in found}
  OBVIOUS
<1>4. PICK c : c = Cardinality(found)
  OBVIOUS
<1>5. /\ resends' = [resends EXCEPT ![p] = resends[p] \cup copies]
      /\ lastId' = [lastId EXCEPT ![p].resend = @ + c]
      /\ discarded' = Discards(p, range)
      /\ DOMAIN resends = Peers
  BY <1>3, <1>4 DEF WriteResend, TypeInv, Inv, Functions
<1>6. found \in SUBSET stored[p]
  OBVIOUS
<1>7. \A seq \in found : upto(seq) \in SUBSET found /\ seq \in upto(seq)
  BY <1>6, StoredNat
<1> HIDE DEF found
<1>8. IsFiniteSet(found)
  <2>1. PICK n \in Nat : n = Len(outgoing[p])
    BY StoredNat
  <2>2. stored[p] \in SUBSET (0 .. n - 1)
    BY <2>1 DEF TypeInv, Inv, Sound, Numbers
  <2>3. IsFiniteSet(0 .. n - 1)
    BY FS_Interval
  <2>4. IsFiniteSet(stored[p])
    BY <2>2, <2>3, FS_Subset
  <2> QED BY <1>6, <2>4, FS_Subset
<1> HIDE DEF upto
<1>9. \A seq \in found : Rank(seq) \in Nat /\ Rank(seq) # 0
  <2>1. \A seq \in found : IsFiniteSet(upto(seq)) /\ upto(seq) # {}
    BY <1>7, <1>8, FS_Subset
  <2> QED BY <2>1, FS_CardinalityType, FS_EmptySet
<1> HIDE DEF Rank
<1>10. c \in Nat
  BY <1>4, <1>8, FS_CardinalityType
<1>11. PICK d \in [incoming : Nat, resend : Int] : d = lastId[p] /\ d.resend >= -1
  BY DEF TypeInv, Types, Typed
<1>12. copies \subseteq Resends
  <2> SUFFICES ASSUME NEW x \in copies PROVE x \in Resends
    OBVIOUS
  <2>1. PICK seq \in found : x = [id |-> d.resend + Rank(seq), seq |-> seq]
    BY <1>3, <1>11
  <2>2. d.resend + Rank(seq) \in Nat
    BY <1>9, <1>11
  <2>3. seq \in Nat
    BY <1>6, StoredNat
  <2> QED BY <2>1, <2>2, <2>3 DEF Resends
<1>13. PICK id : id = [d EXCEPT !.resend = d.resend + c]
  OBVIOUS
<1>14. id \in [incoming : Nat, resend : Int] /\ id.resend >= -1 /\ id.incoming = d.incoming
  <2>1. d.resend + c \in Int /\ d.resend + c >= -1
    BY <1>10, <1>11
  <2> QED BY <1>13, <2>1
<1>15. lastId' = [lastId EXCEPT ![p] = id]
  BY <1>5, <1>11, <1>13
<1>16. /\ lastId'[p] = id /\ Whole(lastId') /\ \A q \in Peers \ {p} : lastId'[q] = lastId[q]
  BY <1>15, WholeUpdate DEF TypeInv, Types, Domains
<1>17. PICK s : s = stage[p] \o <<PollOutgoing>>
  OBVIOUS
<1>18. s \in Seq(TypedBlocks)
  <2>1. PollOutgoing \in TypedBlocks
    BY BlockTypes DEF PollOutgoing
  <2>2. <<PollOutgoing>> \in Seq(TypedBlocks)
    BY <2>1
  <2> QED BY <1>17, <2>2, ConcatProperties DEF TypeInv, Types, Typed
<1>19. stage' = [stage EXCEPT ![p] = s]
  BY <1>17 DEF WriteResend, Post
<1>20. /\ stage'[p] = s /\ Whole(stage') /\ \A q \in Peers \ {p} : stage'[q] = stage[q]
  BY <1>19, WholeUpdate DEF TypeInv, Types, Domains
<1>21. discarded' \in BOOLEAN
  BY <1>5 DEF Discards
<1>22. Domains'
  BY <1>1, <1>2, <1>16, <1>20 DEF TypeInv, Types, Domains
<1>23. \A q \in Peers \ {p} : Untouched(q)
  BY <1>1, <1>2, <1>5, <1>16, <1>20 DEF Untouched
<1>24. resends'[p] \subseteq Resends
  BY <1>5, <1>12 DEF TypeInv, Types, Typed
<1>25. /\ lastId'[p] \in [incoming : Nat, resend : Int] /\ lastId'[p].resend >= -1
       /\ \A r \in incoming'[p] : r.id <= lastId'[p].incoming
  BY <1>2, <1>11, <1>14, <1>16 DEF TypeInv, Types, Typed
<1>26. stage'[p] \in Seq(TypedBlocks)
  BY <1>18, <1>20
<1>27. Typed(p)'
  <2>1. Typed(p)
    BY DEF TypeInv, Types
  <2> QED BY <1>1, <1>2, <1>24, <1>25, <1>26, <2>1 DEF Typed
<1> QED BY <1>21, <1>22, <1>23, <1>27, StepTyped

(* What is added is not there yet.                                         *)
LEMMA OnceConcat ==
  ASSUME NEW S, NEW s \in Seq(S), NEW t \in Seq(S), Once(s), Once(t),
         \A i \in DOMAIN t : t[i] \notin ToSet(s)
  PROVE  s \o t \in Seq(S) /\ Once(s \o t)
<1>1. s \o t \in Seq(S)
  BY ConcatProperties
<1>2. PICK m \in Nat, n \in Nat : m = Len(s) /\ n = Len(t)
  BY LenProperties
<1>3. DOMAIN s = 1 .. m /\ DOMAIN t = 1 .. n /\ DOMAIN (s \o t) = 1 .. m + n
  BY <1>2, LenProperties, ConcatProperties
<1>4. \A i \in 1 .. m + n : (s \o t)[i] = IF i <= m THEN s[i] ELSE t[i - m]
  BY <1>2, ConcatProperties
<1>5. ASSUME NEW i \in 1 .. m + n, NEW j \in 1 .. m + n, i # j, (s \o t)[i] = (s \o t)[j]
      PROVE  FALSE
  <2>1. CASE i <= m /\ j <= m
    <3>1. i \in DOMAIN s /\ j \in DOMAIN s
      BY <1>3, <2>1
    <3> QED BY <1>4, <1>5, <2>1, <3>1 DEF Once
  <2>2. CASE ~(i <= m) /\ ~(j <= m)
    <3>1. i - m \in DOMAIN t /\ j - m \in DOMAIN t /\ i - m # j - m
      BY <1>3, <1>5, <2>2
    <3>2. t[i - m] = t[j - m]
      BY <1>4, <1>5, <2>2
    <3> QED BY <3>1, <3>2 DEF Once
  <2>3. CASE i <= m /\ ~(j <= m)
    <3>1. i \in DOMAIN s /\ j - m \in DOMAIN t
      BY <1>3, <2>3
    <3>2. s[i] = t[j - m]
      BY <1>4, <1>5, <2>3
    <3> QED BY <3>1, <3>2 DEF ToSet
  <2>4. CASE ~(i <= m) /\ j <= m
    <3>1. j \in DOMAIN s /\ i - m \in DOMAIN t
      BY <1>3, <2>4
    <3>2. s[j] = t[i - m]
      BY <1>4, <1>5, <2>4
    <3> QED BY <3>1, <3>2 DEF ToSet
  <2> QED BY <2>1, <2>2, <2>3, <2>4
<1>6. Once(s \o t)
  BY <1>3, <1>5 DEF Once
<1> QED BY <1>1, <1>6

LEMMA WriteShownTyped ==
  ASSUME TypeInv, NEW p \in Peers, WriteAdd(p) \/ WriteRemove(p)
  PROVE  Types'
<1>1. PICK type : Writes(p, type)
  BY DEF WriteAdd, WriteRemove
<1>2. /\ UNCHANGED <<outgoing, sentSeqOut, delivered, executing, requests, waiting>>
      /\ UNCHANGED <<network, lost, failures, restarts>>
      /\ writes'[p] \in Seq(TypedQueries) /\ Whole(writes')
      /\ \A q \in Peers \ {p} : writes'[q] = writes[q]
  BY <1>1, WritesTyped
<1>3. UNCHANGED <<incoming, resends, lastId, stage, discarded>>
  BY DEF WriteAdd, WriteRemove
<1>4. PICK s \in Seq(Int) : s = shown[p] /\ Once(s)
  BY DEF TypeInv, Types, Typed
<1>5. PICK t \in Seq(Int) : Once(t) /\ shown' = [shown EXCEPT ![p] = t]
  <2>1. CASE WriteAdd(p)
    <3>1. Head(writes[p]) \in TypedQueries /\ Head(writes[p]).type = "add"
      BY <2>1, WritesTyped DEF WriteAdd
    <3>2. PICK a \in Seq(Int) : a = Head(writes[p]).seqs /\ Once(a)
      BY <3>1, QueryFields
    <3>3. PICK w : w = Without(a, ToSet(s))
      OBVIOUS
    <3>4. w \in Seq(Int) /\ Once(w) /\ \A i \in DOMAIN w : w[i] \notin ToSet(s)
      BY <3>2, <3>3, WithoutList
    <3>5. s \o w \in Seq(Int) /\ Once(s \o w)
      BY <1>4, <3>4, OnceConcat
    <3>6. shown' = [shown EXCEPT ![p] = s \o w]
      BY <1>4, <2>1, <3>2, <3>3 DEF WriteAdd
    <3> QED BY <3>5, <3>6
  <2>2. CASE WriteRemove(p)
    <3>1. PICK w : w = Without(s, Head(writes[p]).seqs)
      OBVIOUS
    <3>2. w \in Seq(Int) /\ Once(w)
      BY <1>4, <3>1, WithoutList
    <3>3. shown' = [shown EXCEPT ![p] = w]
      BY <1>4, <2>2, <3>1 DEF WriteRemove
    <3> QED BY <3>2, <3>3
  <2> QED BY <2>1, <2>2
<1>6. /\ shown'[p] = t /\ Whole(shown') /\ \A q \in Peers \ {p} : shown'[q] = shown[q]
  BY <1>5, WholeUpdate DEF TypeInv, Types, Domains
<1>7. Domains'
  BY <1>2, <1>3, <1>6 DEF TypeInv, Types, Domains
<1>8. \A q \in Peers \ {p} : Untouched(q)
  BY <1>2, <1>3, <1>6 DEF Untouched
<1>9. Typed(p)'
  BY <1>2, <1>3, <1>5, <1>6 DEF TypeInv, Types, Typed
<1> QED BY <1>3, <1>7, <1>8, <1>9, StepTyped DEF TypeInv, Types

LEMMA RestartTyped ==
  ASSUME TypeInv, NEW p \in Peers, Restart(p)
  PROVE  Types'
<1>1. /\ UNCHANGED <<outgoing, sentSeqOut, incoming, resends, lastId, shown, delivered>>
      /\ UNCHANGED <<network, discarded, failures>>
  BY DEF Restart, persistent
<1>2. PICK first, second, none :
        /\ first = IF stored[p] # {} \/ resends[p] # {} THEN <<PollOutgoing>> ELSE <<>>
        /\ second = IF incoming[p] # {} THEN <<PollIncoming>> ELSE <<>>
        /\ none = <<>>
  OBVIOUS
<1>3. PICK s : s = first \o second
  OBVIOUS
<1>4. s \in Seq(TypedBlocks) /\ none \in Seq(TypedQueries)
  <2>1. PollOutgoing \in TypedBlocks /\ PollIncoming \in TypedBlocks
    BY BlockTypes DEF PollOutgoing, PollIncoming
  <2>2. /\ <<>> \in Seq(TypedBlocks) /\ <<>> \in Seq(TypedQueries)
        /\ \A b \in TypedBlocks : <<b>> \in Seq(TypedBlocks)
    OBVIOUS
  <2>3. first \in Seq(TypedBlocks) /\ second \in Seq(TypedBlocks)
    BY <1>2, <2>1, <2>2
  <2> QED BY <1>2, <1>3, <2>2, <2>3, ConcatProperties
<1>5. stage' = [stage EXCEPT ![p] = s]
  BY <1>2, <1>3 DEF Restart
<1>6. /\ stage'[p] = s /\ Whole(stage') /\ \A q \in Peers \ {p} : stage'[q] = stage[q]
  BY <1>5, WholeUpdate DEF TypeInv, Types, Domains
<1>7. writes' = [writes EXCEPT ![p] = none]
  BY <1>2 DEF Restart
<1>8. /\ writes'[p] = none /\ Whole(writes') /\ \A q \in Peers \ {p} : writes'[q] = writes[q]
  BY <1>7, WholeUpdate DEF TypeInv, Types, Domains
<1>9. PICK n \in Nat : n = restarts[p] + 1
  BY DEF TypeInv, Types, Typed
<1>10. restarts' = [restarts EXCEPT ![p] = n]
  BY <1>9 DEF Restart
<1>11. /\ restarts'[p] = n /\ Whole(restarts') /\ \A q \in Peers \ {p} : restarts'[q] = restarts[q]
  BY <1>10, WholeUpdate DEF TypeInv, Types, Domains
<1>12. PICK cut : cut = CutShort(p)
  OBVIOUS
<1>13. cut \subseteq Int
  <2>1. writes[p] \in Seq(TypedQueries)
    BY DEF TypeInv, Types, Typed
  <2>2. ASSUME NEW i \in DOMAIN writes[p], writes[p][i].type = "add"
        PROVE  ToSet(writes[p][i].seqs) \subseteq Int
    <3>1. PICK q \in TypedQueries : q = writes[p][i]
      BY <2>1, <2>2
    <3>2. PICK t \in Seq(Int) : t = q.seqs
      BY <2>2, <3>1, QueryFields
    <3>3. ToSet(t) \subseteq Int
      BY DEF ToSet
    <3> QED BY <3>1, <3>2, <3>3
  <2>3. \A x \in CutShort(p) : \E i \in DOMAIN writes[p] :
          writes[p][i].type = "add" /\ x \in ToSet(writes[p][i].seqs)
    BY DEF CutShort
  <2> QED BY <1>12, <2>2, <2>3
<1>14. /\ executing' = [executing EXCEPT ![p] = {}] /\ requests' = [requests EXCEPT ![p] = {}]
       /\ waiting' = [waiting EXCEPT ![p] = {}] /\ lost' = [lost EXCEPT ![p] = lost[p] \cup cut]
       /\ DOMAIN executing = Peers /\ DOMAIN requests = Peers /\ DOMAIN waiting = Peers
       /\ DOMAIN lost = Peers
  BY <1>12 DEF Restart, TypeInv, Types, Domains, Inv, Functions
<1>15. Domains'
  BY <1>1, <1>6, <1>8, <1>11, <1>14 DEF TypeInv, Types, Domains
<1>16. \A q \in Peers \ {p} : Untouched(q)
  BY <1>1, <1>6, <1>8, <1>11, <1>14 DEF Untouched
<1>17. /\ executing'[p] \subseteq Nat /\ requests'[p] \subseteq Requests
       /\ waiting'[p] \subseteq {OutgoingId(k) : k \in Nat} /\ lost'[p] \subseteq Int
  BY <1>13, <1>14 DEF TypeInv, Types, Typed
<1>18. stage'[p] \in Seq(TypedBlocks) /\ writes'[p] \in Seq(TypedQueries) /\ restarts'[p] \in Nat
  BY <1>4, <1>6, <1>8, <1>11
<1>19. Typed(p)'
  BY <1>1, <1>17, <1>18 DEF TypeInv, Types, Typed
<1> QED BY <1>1, <1>15, <1>16, <1>19, StepTyped DEF TypeInv, Types

LEMMA TypesNext == TypeInv /\ [Next]_vars => TypeInv'
<1> SUFFICES ASSUME TypeInv, [Next]_vars PROVE Types'
  BY NextInv DEF TypeInv
<1>1. CASE UNCHANGED vars
  <2>1. \A q \in Peers : Untouched(q)
    BY <1>1 DEF Untouched, vars, persistent, volatile, history
  <2>2. Domains' /\ discarded' \in BOOLEAN
    BY <1>1 DEF TypeInv, Types, Domains, vars, persistent, volatile, history
  <2> QED BY <2>1, <2>2, UntouchedTyped DEF TypeInv, Types
<1>2. CASE Next
  <2>1. PICK p \in Peers :
          \/ Send(p) \/ StageStep(p) \/ DatabaseStep(p)
          \/ Accept(p) \/ Complete(p) \/ Fail(p) \/ Receive(p) \/ Restart(p)
    BY <1>2 DEF Next
  <2>2. CASE StageStep(p)
    BY <2>2, RunPollTyped, RunOutgoingTyped, RunIncomingTyped DEF StageStep
  <2>3. CASE DatabaseStep(p)
    BY <2>3, WriteTablesTyped, WritePollTyped, WriteResendTyped, WriteShownTyped
       DEF DatabaseStep
  <2> QED BY <2>1, <2>2, <2>3, SendTyped, AcceptTyped, CompleteTyped, FailTyped,
             ReceiveTyped, RestartTyped
<1> QED BY <1>1, <1>2

(* Every variable keeps its type for any number of messages, refusals and  *)
(* crashes: no number that is applied or confirmed is negative, the ids of *)
(* received rows are distinct, and what a block posts is what the queries  *)
(* of the database thread read.                                            *)
THEOREM TypeSafe == Spec => []TypeOK
<1>1. Init => TypeInv
  BY InitInv, TypesInit DEF TypeInv
<1> QED BY <1>1, TypesNext, TypesEnough, PTL DEF Spec

(* A message is in the conversation at most once: filterExistingRandomIds  *)
(* sees what was added before, however often a row is sent or processed.   *)
(* This is the part of ShownInOrder that holds whatever the server does.   *)
ShownOnce ==
  \A p \in Peers : \A i, j \in DOMAIN shown[p] : i # j => shown[p][i] # shown[p][j]

(* Overlapping polls, repeated requests, refusals and crashes never put a  *)
(* message into the conversation twice.                                    *)
THEOREM ShownOnceSafe == Spec => []ShownOnce
<1>1. Init => TypeInv
  BY InitInv, TypesInit DEF TypeInv
<1>2. TypeInv => ShownOnce
  BY DEF TypeInv, Types, Typed, Once, ShownOnce
<1> QED BY <1>1, <1>2, TypesNext, PTL DEF Spec

-----------------------------------------------------------------------------
(* Copies.  R holds every row of the resend table that a client has read   *)
(* since it started: what is in the table, in the snapshots that wait and  *)
(* behind the ids that are executing.                                      *)

KnownBlocks(R) == {b \in TypedBlocks : b.type = "outgoing" => b.resends \subseteq R}

Copies(p, R) ==
  /\ OwnIds(R) /\ \A x \in R : x.id \in FirstResendId .. lastId[p].resend
  /\ FirstResendId <= lastId[p].resend + 1
  /\ resends[p] \subseteq R
  /\ stage[p] \in Seq(KnownBlocks(R))
  /\ \A id \in executing[p] : \/ \E n \in Numbers(p) : id = OutgoingId(n)
                              \/ \E x \in R : id = x.id

(* A request for this copy is on its way, or a row of the outgoing table   *)
(* has its id.                                                             *)
CopyRequested(p, r) ==
  \E x \in requests[p] : x.row = [id |-> r.id, seq |-> r.seq, resend |-> TRUE]
Alike(p, r) == \E n \in Numbers(p) : r.id = OutgoingId(n)

Exec(p) ==
  \A r \in resends[p] : r.id \in executing[p] => CopyRequested(p, r) \/ Alike(p, r)

CopyInv(p) == (\E R : Copies(p, R)) /\ Exec(p)
ExecInv == TypeInv /\ \A p \in Peers : CopyInv(p)

LEMMA CopiesPosted ==
  ASSUME NEW p \in Peers, NEW R, Copies(p, R),
         lastId'[p].resend = lastId[p].resend, resends'[p] \subseteq resends[p],
         executing'[p] \subseteq executing[p], Numbers(p) \subseteq Numbers(p)',
         NEW s \in Seq(KnownBlocks(R)),
         \/ stage'[p] = stage[p]
         \/ stage'[p] = stage[p] \o s
         \/ stage[p] # <<>> /\ stage'[p] = Tail(stage[p])
         \/ stage[p] # <<>> /\ stage'[p] = Tail(stage[p]) \o s
  PROVE  Copies(p, R)'
<1>1. stage'[p] \in Seq(KnownBlocks(R))
  <2>1. stage[p] \in Seq(KnownBlocks(R))
    BY DEF Copies
  <2>2. stage[p] # <<>> => Tail(stage[p]) \in Seq(KnownBlocks(R))
    BY <2>1, SeqRest
  <2>3. \A t \in Seq(KnownBlocks(R)) : t \o s \in Seq(KnownBlocks(R))
    BY ConcatProperties
  <2> HIDE DEF KnownBlocks
  <2> QED BY <2>1, <2>2, <2>3, Zenon
<1>2. \A id \in executing'[p] : \/ \E n \in Numbers(p)' : id = OutgoingId(n)
                                \/ \E x \in R : id = x.id
  BY Zenon DEF Copies
<1>3. /\ \A x \in R : x.id \in FirstResendId .. lastId'[p].resend
      /\ FirstResendId <= lastId'[p].resend + 1
  BY DEF Copies
<1> QED BY <1>1, <1>2, <1>3 DEF Copies

LEMMA OutgoingKnown ==
  ASSUME TypeInv, NEW p \in Peers, NEW R, Copies(p, R), NEW rows, rows \subseteq Nat
  PROVE  OutgoingBlock(p, rows) \in KnownBlocks(R)
<1>1. OutgoingBlock(p, rows) \in TypedBlocks
  BY PollTyped
<1>2. OutgoingBlock(p, rows).resends = resends[p]
  BY DEF OutgoingBlock
<1> QED BY <1>1, <1>2 DEF KnownBlocks, Copies

LEMMA OthersKnown ==
  ASSUME NEW R, NEW b \in TypedBlocks, b.type # "outgoing"
  PROVE  b \in KnownBlocks(R)
BY DEF KnownBlocks

(* A client nothing happens to, as far as copies are concerned.            *)
CopySame(p) ==
  /\ outgoing'[p] = outgoing[p] /\ lastId'[p].resend = lastId[p].resend
  /\ resends'[p] = resends[p] /\ executing'[p] = executing[p]
  /\ requests'[p] = requests[p]

LEMMA CopySameInv ==
  ASSUME NEW p \in Peers, CopyInv(p), CopySame(p), stage'[p] = stage[p]
  PROVE  CopyInv(p)'
BY DEF CopyInv, CopySame, Copies, Exec, CopyRequested, Alike, Numbers

(* Steps that post blocks, and change nothing else that matters here.      *)
LEMMA CopyPostedInv ==
  ASSUME TypeInv, NEW p \in Peers, CopyInv(p), CopySame(p), NEW b \in TypedBlocks,
         b.type = "outgoing" => b.resends = resends[p],
         \/ stage'[p] = stage[p] \o <<b>>
         \/ stage[p] # <<>> /\ stage'[p] = Tail(stage[p])
         \/ stage[p] # <<>> /\ stage'[p] = Append(Tail(stage[p]), b)
  PROVE  CopyInv(p)'
<1>1. PICK R : Copies(p, R)
  BY DEF CopyInv
<1>2. b \in KnownBlocks(R)
  BY <1>1 DEF KnownBlocks, Copies
<1>3. PICK s : s = <<b>>
  OBVIOUS
<1>4. s \in Seq(KnownBlocks(R))
  BY <1>2, <1>3
<1>5. stage[p] # <<>> => Append(Tail(stage[p]), b) = Tail(stage[p]) \o s
  <2>1. stage[p] \in Seq(TypedBlocks)
    BY DEF TypeInv, Types, Typed
  <2> QED BY <1>3, <2>1, SeqRest, AppendIsConcat
<1>6. Copies(p, R)'
  BY <1>1, <1>3, <1>4, <1>5, CopiesPosted DEF CopySame, Numbers
<1>7. Exec(p)'
  BY DEF CopyInv, CopySame, Exec, CopyRequested, Alike, Numbers
<1> QED BY <1>6, <1>7 DEF CopyInv

LEMMA EnqueueNumbers ==
  ASSUME TypeInv, NEW p \in Peers, NEW body, Enqueue(p, body)
  PROVE  /\ Numbers(p) \subseteq Numbers(p)'
         /\ \A q \in Peers \ {p} : outgoing'[q] = outgoing[q]
<1>1. PICK row : row = [seqIn |-> seqIn[p], body |-> body]
  OBVIOUS
<1>2. outgoing' = [outgoing EXCEPT ![p] = Append(outgoing[p], row)] /\ Whole(outgoing)
  BY <1>1 DEF Enqueue, TypeInv, Types, Domains
<1>3. PICK s : s = Append(outgoing[p], row)
  OBVIOUS
<1>4. outgoing'[p] = s /\ \A q \in Peers \ {p} : outgoing'[q] = outgoing[q]
  BY <1>2, <1>3, WholeUpdate
<1>5. outgoing[p] \in Seq(OutRows) /\ Len(outgoing[p]) \in Nat
  BY LenProperties DEF TypeInv, Types, Typed
<1>6. Len(s) = Len(outgoing[p]) + 1
  <2>1. outgoing[p] \in Seq(OutRows \cup {row}) /\ row \in OutRows \cup {row}
    BY <1>5, SeqMonotonic
  <2> QED BY <1>3, <2>1, AppendProperties
<1>7. PICK n \in Nat : n = Len(outgoing[p]) /\ n + 1 = Len(outgoing'[p])
  BY <1>4, <1>5, <1>6
<1>8. Numbers(p) = 0 .. n - 1 /\ Numbers(p)' = 0 .. n
  BY <1>7 DEF Numbers
<1>9. 0 .. n - 1 \subseteq 0 .. n
  OBVIOUS
<1> QED BY <1>4, <1>8, <1>9

LEMMA SendCopies ==
  ASSUME ExecInv, NEW p \in Peers, Send(p)
  PROVE  \A q \in Peers : CopyInv(q)'
<1>1. /\ Enqueue(p, Text)
      /\ UNCHANGED <<resends, lastId, executing, requests>>
  BY DEF Send
<1>2. TypeInv /\ CopyInv(p)
  BY DEF ExecInv
<1>3. /\ Numbers(p) \subseteq Numbers(p)'
      /\ \A q \in Peers \ {p} : outgoing'[q] = outgoing[q]
  BY <1>1, <1>2, EnqueueNumbers
<1>4. PICK R : Copies(p, R)
  BY <1>2 DEF CopyInv
<1>5. PICK b : b = OutgoingBlock(p, stored[p] \cup {Len(outgoing[p])})
  OBVIOUS
<1>6. b \in KnownBlocks(R)
  BY <1>2, <1>4, <1>5, StoredNat, OutgoingKnown
<1>7. PICK s : s = <<b, b>>
  OBVIOUS
<1>8. s \in Seq(KnownBlocks(R))
  BY <1>6, <1>7
<1>9. stage' = [stage EXCEPT ![p] = stage[p] \o s] /\ DOMAIN stage = Peers
  BY <1>2, <1>5, <1>7 DEF Send, Post, TypeInv, Inv, Functions
<1>10. stage'[p] = stage[p] \o s /\ \A q \in Peers \ {p} : stage'[q] = stage[q]
  BY <1>9
<1>11a. /\ lastId'[p].resend = lastId[p].resend /\ resends'[p] \subseteq resends[p]
       /\ executing'[p] \subseteq executing[p]
  BY <1>1
<1>11b. Copies(p, R)'
  BY <1>3, <1>4, <1>8, <1>10, <1>11a, CopiesPosted
<1>11. Exec(p)'
  BY <1>1, <1>2, <1>3 DEF CopyInv, Exec, CopyRequested, Alike
<1>12. CopyInv(p)'
  BY <1>11b, <1>11 DEF CopyInv
<1>13. \A q \in Peers \ {p} : CopySame(q) /\ stage'[q] = stage[q]
  BY <1>1, <1>3, <1>10 DEF CopySame
<1> QED BY <1>12, <1>13, CopySameInv DEF ExecInv

(* Blocks of polls and of the incoming queue.                              *)
LEMMA RunPollCopies ==
  ASSUME ExecInv, NEW p \in Peers, RunPollOutgoing(p) \/ RunPollIncoming(p)
  PROVE  \A q \in Peers : CopyInv(q)'
<1>1. UNCHANGED <<outgoing, resends, lastId, executing, requests>> /\ stage[p] # <<>>
  BY DEF RunPollOutgoing, RunPollIncoming, Runs, persistent
<1>2. TypeInv /\ DOMAIN stage = Peers
  BY DEF ExecInv, TypeInv, Inv, Functions
<1>3. PICK b : /\ b = OutgoingBlock(p, stored[p]) \/ b = IncomingBlock(incoming[p], seqIn[p])
               /\ stage' = [stage EXCEPT ![p] = Append(Tail(stage[p]), b)]
  BY DEF RunPollOutgoing, RunPollIncoming
<1>4. OutgoingBlock(p, stored[p]) \in TypedBlocks
  BY <1>2, StoredNat, PollTyped
<1>5. IncomingBlock(incoming[p], seqIn[p]) \in TypedBlocks
  BY <1>2, BlockTypes DEF IncomingBlock, TypeInv, Types, Typed, Inv, Functions
<1>6. b \in TypedBlocks /\ (b.type = "outgoing" => b.resends = resends[p])
  BY <1>3, <1>4, <1>5 DEF OutgoingBlock, IncomingBlock
<1>7. \A q \in Peers : CopySame(q)
  BY <1>1 DEF CopySame
<1>8. stage'[p] = Append(Tail(stage[p]), b) /\ \A q \in Peers \ {p} : stage'[q] = stage[q]
  BY <1>2, <1>3
<1>9. CopyInv(p)'
  BY <1>1, <1>2, <1>6, <1>7, <1>8, CopyPostedInv DEF ExecInv
<1> QED BY <1>7, <1>8, <1>9, CopySameInv DEF ExecInv

LEMMA RunIncomingCopies ==
  ASSUME ExecInv, NEW p \in Peers, RunIncoming(p)
  PROVE  \A q \in Peers : CopyInv(q)'
<1>1. UNCHANGED <<resends, lastId, executing, requests>> /\ stage[p] # <<>>
      /\ stage' = [stage EXCEPT ![p] = Tail(stage[p])]
  BY DEF RunIncoming, Runs
<1>2. TypeInv /\ CopyInv(p) /\ DOMAIN stage = Peers
  BY DEF ExecInv, TypeInv, Inv, Functions
<1>3. /\ Numbers(p) \subseteq Numbers(p)'
      /\ \A q \in Peers \ {p} : outgoing'[q] = outgoing[q]
  <2>1. CASE UNCHANGED outgoing
    BY <2>1 DEF Numbers
  <2>2. CASE \E body : Enqueue(p, body)
    BY <1>2, <2>2, EnqueueNumbers
  <2> QED BY <2>1, <2>2 DEF RunIncoming
<1>4. PICK R : Copies(p, R)
  BY <1>2 DEF CopyInv
<1>5. PICK s : s = <<>>
  OBVIOUS
<1>5a. s \in Seq(KnownBlocks(R))
  BY <1>5
<1>5b. /\ lastId'[p].resend = lastId[p].resend /\ resends'[p] \subseteq resends[p]
       /\ executing'[p] \subseteq executing[p] /\ stage'[p] = Tail(stage[p])
       /\ \A q \in Peers \ {p} : stage'[q] = stage[q]
  BY <1>1, <1>2
<1>6. Copies(p, R)'
  BY <1>1, <1>3, <1>4, <1>5a, <1>5b, CopiesPosted
<1>7. Exec(p)'
  BY <1>1, <1>2, <1>3 DEF CopyInv, Exec, CopyRequested, Alike
<1>8. CopyInv(p)'
  BY <1>6, <1>7 DEF CopyInv
<1>9. \A q \in Peers \ {p} : CopySame(q) /\ stage'[q] = stage[q]
  BY <1>1, <1>2, <1>3 DEF CopySame
<1> QED BY <1>8, <1>9, CopySameInv DEF ExecInv

LEMMA RunOutgoingCopies ==
  ASSUME ExecInv, NEW p \in Peers, RunOutgoing(p)
  PROVE  \A q \in Peers : CopyInv(q)'
<1>1. /\ UNCHANGED <<outgoing, resends, lastId>>
      /\ stage[p] # <<>> /\ Head(stage[p]).type = "outgoing"
      /\ stage' = [stage EXCEPT ![p] = Tail(stage[p])]
  BY DEF RunOutgoing, Runs, persistent
<1>2. TypeInv /\ CopyInv(p)
  BY DEF ExecInv
<1>3. DOMAIN stage = Peers /\ DOMAIN requests = Peers /\ DOMAIN executing = Peers
  BY <1>2 DEF TypeInv, Types, Domains, Inv, Functions
<1>4. PICK b : b = Head(stage[p])
  OBVIOUS
<1>5. PICK new : new = NewRows(p, b)
  OBVIOUS
<1>6. PICK made : made =
        {[row |-> r, accepted |-> FALSE, after |-> Before(p, new, r.seq),
          message |-> Message(p, r.seq, Content(p, r.id, r.seq))] : r \in new}
  OBVIOUS
<1>7. /\ requests' = [requests EXCEPT ![p] = requests[p] \cup made]
      /\ executing' = [executing EXCEPT ![p] = executing[p] \cup {r.id : r \in new}]
  BY <1>4, <1>5, <1>6 DEF RunOutgoing
<1>8. \A q \in Peers \ {p} : CopySame(q) /\ stage'[q] = stage[q]
  BY <1>1, <1>3, <1>7 DEF CopySame
<1>9. PICK R : Copies(p, R)
  BY <1>2 DEF CopyInv
<1>10. b \in TypedBlocks /\ b.resends \subseteq R /\ b.rows \subseteq Numbers(p)
  <2>1. b \in KnownBlocks(R)
    BY <1>1, <1>4, <1>9, SeqRest DEF Copies
  <2>2. BlockSound(p, b)
    BY <1>1, <1>2, <1>4, BlockRun DEF TypeInv, Inv, Sound
  <2> QED BY <1>1, <1>4, <2>1, <2>2 DEF KnownBlocks, BlockSound
<1>11. \A r \in new :
         \/ \E n \in Numbers(p) : r = [id |-> OutgoingId(n), seq |-> n, resend |-> FALSE]
         \/ \E x \in R : r = [id |-> x.id, seq |-> x.seq, resend |-> TRUE]
  BY <1>5, <1>10 DEF NewRows
<1>12. stage'[p] = Tail(stage[p]) /\ Tail(stage[p]) \in Seq(KnownBlocks(R))
  BY <1>1, <1>3, <1>9, SeqRest DEF Copies
<1>13. \A id \in executing'[p] : \/ \E n \in Numbers(p) : id = OutgoingId(n)
                                 \/ \E x \in R : id = x.id
  <2>1. \A r \in new : \/ \E n \in Numbers(p) : r.id = OutgoingId(n)
                       \/ \E x \in R : r.id = x.id
    BY <1>11
  <2>2. \A id \in executing'[p] : id \in executing[p] \/ \E r \in new : id = r.id
    BY <1>3, <1>7
  <2> QED BY <1>9, <2>1, <2>2 DEF Copies
<1>14. Copies(p, R)'
  <2>1. Numbers(p)' = Numbers(p)
    BY <1>1 DEF Numbers
  <2> QED BY <1>1, <1>9, <1>12, <1>13, <2>1 DEF Copies
<1>15. Exec(p)'
  <2>1. Exec(p) /\ Numbers(p)' = Numbers(p)
    BY <1>1, <1>2 DEF CopyInv, Numbers
  <2> SUFFICES ASSUME NEW r \in resends[p], r.id \in executing'[p]
               PROVE  \/ \E x \in requests'[p] :
                           x.row = [id |-> r.id, seq |-> r.seq, resend |-> TRUE]
                      \/ \E n \in Numbers(p) : r.id = OutgoingId(n)
    BY <1>1, <2>1 DEF Exec, CopyRequested, Alike
  <2>2. CASE r.id \in executing[p]
    <3>1. requests[p] \subseteq requests'[p]
      BY <1>3, <1>7
    <3> QED BY <2>1, <2>2, <3>1 DEF Exec, CopyRequested, Alike
  <2>3. CASE r.id \notin executing[p]
    <3>1. PICK y \in new : r.id = y.id
      BY <1>3, <1>7, <2>3
    <3>2. CASE \E n \in Numbers(p) : y.id = OutgoingId(n)
      BY <3>1, <3>2
    <3>3. CASE \A n \in Numbers(p) : y.id # OutgoingId(n)
      <4>1. PICK x \in R : y = [id |-> x.id, seq |-> x.seq, resend |-> TRUE]
        <5>1. \A n \in Numbers(p) : y # [id |-> OutgoingId(n), seq |-> n, resend |-> FALSE]
          BY <3>3
        <5> QED BY <1>11, <5>1
      <4>2. x.id = r.id
        BY <3>1, <4>1
      <4>3. x = r
        BY <1>9, <4>2 DEF Copies, OwnIds
      <4>4. PICK z \in made : z.row = y
        <5>1. PICK a, m : /\ a = Before(p, new, y.seq)
                          /\ m = Message(p, y.seq, Content(p, y.id, y.seq))
          OBVIOUS
        <5>2. [row |-> y, accepted |-> FALSE, after |-> a, message |-> m] \in made
          BY <1>6, <5>1
        <5>3. [row |-> y, accepted |-> FALSE, after |-> a, message |-> m].row = y
          OBVIOUS
        <5> QED BY <5>2, <5>3, Zenon
      <4>5. z \in requests'[p]
        BY <1>3, <1>7, <4>4
      <4> QED BY <4>1, <4>3, <4>4, <4>5
    <3> QED BY <3>2, <3>3
  <2> QED BY <2>2, <2>3
<1>16. CopyInv(p)'
  BY <1>14, <1>15 DEF CopyInv
<1> QED BY <1>8, <1>16, CopySameInv DEF ExecInv

(* Steps that answer requests: the client's blocks stay, copies may go.    *)
LEMMA AnswerCopies ==
  ASSUME ExecInv, NEW p \in Peers,
         UNCHANGED outgoing, UNCHANGED lastId, UNCHANGED stage,
         resends'[p] \subseteq resends[p], executing'[p] \subseteq executing[p],
         \A q \in Peers \ {p} : /\ resends'[q] = resends[q] /\ executing'[q] = executing[q]
                                /\ requests'[q] = requests[q],
         Exec(p) => Exec(p)'
  PROVE  \A q \in Peers : CopyInv(q)'
<1>1. \A q \in Peers \ {p} : CopySame(q) /\ stage'[q] = stage[q]
  BY DEF CopySame
<1>2. PICK R : Copies(p, R)
  BY DEF ExecInv, CopyInv
<1>3. Copies(p, R)'
  BY <1>2 DEF Copies, Numbers
<1>4. Exec(p)'
  BY DEF ExecInv, CopyInv
<1>5. CopyInv(p)'
  BY <1>3, <1>4 DEF CopyInv
<1> QED BY <1>1, <1>5, CopySameInv DEF ExecInv

LEMMA AcceptCopies ==
  ASSUME ExecInv, NEW p \in Peers, Accept(p)
  PROVE  \A q \in Peers : CopyInv(q)'
<1>1. UNCHANGED <<outgoing, lastId, stage, resends, executing>>
  BY DEF Accept, persistent
<1>2. TypeInv /\ DOMAIN requests = Peers
  BY DEF ExecInv, TypeInv, Inv, Functions
<1>3. PICK r \in requests[p] :
        requests' = [requests EXCEPT ![p] =
                       (requests[p] \ {r}) \cup {[r EXCEPT !.accepted = TRUE]}]
  BY DEF Accept
<1>4. PICK a : a = [r EXCEPT !.accepted = TRUE]
  OBVIOUS
<1>5. a.row = r.row
  <2>1. r \in Requests
    BY <1>2 DEF TypeInv, Types, Typed
  <2> QED BY <1>4, <2>1 DEF Requests
<1>6. /\ requests'[p] = (requests[p] \ {r}) \cup {a}
      /\ \A q \in Peers \ {p} : requests'[q] = requests[q]
  BY <1>2, <1>3, <1>4
<1>7. \A x \in requests[p] : \E y \in requests'[p] : y.row = x.row
  BY <1>5, <1>6
<1>8. Exec(p) => Exec(p)'
  <2>1. \A r1 \in resends[p] : CopyRequested(p, r1) => CopyRequested(p, r1)'
    BY <1>7 DEF CopyRequested
  <2>2. \A r1 \in resends[p] : Alike(p, r1)' = Alike(p, r1)
    BY <1>1 DEF Alike, Numbers
  <2> QED BY <1>1, <2>1, <2>2 DEF Exec
<1> QED BY <1>1, <1>6, <1>8, AnswerCopies

LEMMA CompleteCopies ==
  ASSUME ExecInv, NEW p \in Peers, Complete(p)
  PROVE  \A q \in Peers : CopyInv(q)'
<1>1. UNCHANGED outgoing /\ UNCHANGED lastId /\ UNCHANGED stage /\ UNCHANGED executing
  BY DEF Complete
<1>2. DOMAIN requests = Peers /\ DOMAIN resends = Peers
  BY DEF ExecInv, TypeInv, Inv, Functions
<1>3. PICK r \in requests[p] :
        /\ requests' = [requests EXCEPT ![p] = requests[p] \ {r}]
        /\ IF r.row.resend
           THEN resends' = [resends EXCEPT ![p] = {x \in resends[p] : x.id # r.row.id}]
           ELSE UNCHANGED resends
  BY DEF Complete
<1>4. /\ requests'[p] = requests[p] \ {r} /\ resends'[p] \subseteq resends[p]
      /\ (r.row.resend => \A x \in resends'[p] : x.id # r.row.id)
      /\ \A q \in Peers \ {p} : requests'[q] = requests[q] /\ resends'[q] = resends[q]
  BY <1>2, <1>3
<1>5. ASSUME Exec(p) PROVE Exec(p)'
  <2> SUFFICES ASSUME NEW x \in resends'[p], x.id \in executing[p],
                      \A n \in Numbers(p) : x.id # OutgoingId(n)
               PROVE  \E y \in requests'[p] :
                        y.row = [id |-> x.id, seq |-> x.seq, resend |-> TRUE]
    BY <1>1 DEF Exec, CopyRequested, Alike, Numbers
  <2>1. PICK y \in requests[p] : y.row = [id |-> x.id, seq |-> x.seq, resend |-> TRUE]
    BY <1>4, <1>5 DEF Exec, CopyRequested, Alike
  <2>2. y.row.resend = TRUE /\ y.row.id = x.id
    BY <2>1
  <2>3. y # r
    BY <1>4, <2>2
  <2> QED BY <1>4, <2>1, <2>3
<1> QED BY <1>1, <1>4, <1>5, AnswerCopies

LEMMA FailCopies ==
  ASSUME ExecInv, NEW p \in Peers, Fail(p)
  PROVE  \A q \in Peers : CopyInv(q)'
<1>1. UNCHANGED outgoing /\ UNCHANGED lastId /\ UNCHANGED stage /\ UNCHANGED resends
  BY DEF Fail, persistent
<1>2. DOMAIN requests = Peers /\ DOMAIN executing = Peers
  BY DEF ExecInv, TypeInv, Types, Domains, Inv, Functions
<1>3. PICK r \in requests[p] :
        /\ requests' = [requests EXCEPT ![p] = requests[p] \ {r}]
        /\ executing' = [executing EXCEPT ![p] = executing[p] \ {r.row.id}]
  BY DEF Fail
<1>4. /\ requests'[p] = requests[p] \ {r} /\ executing'[p] = executing[p] \ {r.row.id}
      /\ \A q \in Peers \ {p} : requests'[q] = requests[q] /\ executing'[q] = executing[q]
  BY <1>2, <1>3
<1>5. ASSUME Exec(p) PROVE Exec(p)'
  <2> SUFFICES ASSUME NEW x \in resends[p], x.id \in executing'[p],
                      \A n \in Numbers(p) : x.id # OutgoingId(n)
               PROVE  \E y \in requests'[p] :
                        y.row = [id |-> x.id, seq |-> x.seq, resend |-> TRUE]
    BY <1>1 DEF Exec, CopyRequested, Alike, Numbers
  <2>1. PICK y \in requests[p] : y.row = [id |-> x.id, seq |-> x.seq, resend |-> TRUE]
    BY <1>4, <1>5 DEF Exec, CopyRequested, Alike
  <2>2. y.row.id = x.id
    BY <2>1
  <2>3. y # r
    BY <1>4, <2>2
  <2> QED BY <1>4, <2>1, <2>3
<1>6. executing'[p] \subseteq executing[p]
  BY <1>4
<1> QED BY <1>1, <1>4, <1>5, <1>6, AnswerCopies

LEMMA ReceiveCopies ==
  ASSUME ExecInv, NEW p \in Peers, Receive(p)
  PROVE  \A q \in Peers : CopyInv(q)'
<1>1. UNCHANGED <<outgoing, resends, executing, requests>>
  BY DEF Receive
<1>2. TypeInv /\ DOMAIN stage = Peers
  BY DEF ExecInv, TypeInv, Inv, Functions
<1>3. PICK k \in 1 .. Len(network[p]) :
        /\ Post(p, <<IncomingBlock(incoming[p] \cup NewIncoming(p, k), seqIn[p])>>)
        /\ lastId' = [lastId EXCEPT ![p].incoming = @ + k]
  BY DEF Receive
<1>4. PICK b : b = IncomingBlock(incoming[p] \cup NewIncoming(p, k), seqIn[p])
  OBVIOUS
<1>5. b \in TypedBlocks
  BY <1>2, <1>4, ReceivedTyped, BlockTypes DEF IncomingBlock, TypeInv, Inv, Functions
<1>6. b.type # "outgoing"
  BY <1>4 DEF IncomingBlock
<1>7. /\ stage'[p] = stage[p] \o <<b>> /\ \A q \in Peers \ {p} : stage'[q] = stage[q]
  BY <1>2, <1>3, <1>4 DEF Post
<1>8. \A q \in Peers : lastId'[q].resend = lastId[q].resend
  <2>1. PICK d : d = lastId[p].incoming + k
    OBVIOUS
  <2>2. lastId' = [lastId EXCEPT ![p] = [lastId[p] EXCEPT !.incoming = d]]
    BY <1>3, <2>1
  <2>3. PICK l \in [incoming : Nat, resend : Int] : l = lastId[p]
    BY <1>2 DEF TypeInv, Types, Typed
  <2>4. PICK e : e = [l EXCEPT !.incoming = d]
    OBVIOUS
  <2>5. e.resend = l.resend
    BY <2>3, <2>4
  <2>6. lastId'[p] = e /\ \A q \in Peers \ {p} : lastId'[q] = lastId[q]
    BY <1>2, <2>2, <2>3, <2>4, WholeUpdate DEF TypeInv, Types, Domains
  <2> QED BY <2>3, <2>5, <2>6
<1>9. \A q \in Peers : CopySame(q)
  BY <1>1, <1>8 DEF CopySame
<1>10. CopyInv(p)'
  BY <1>2, <1>5, <1>6, <1>7, <1>9, CopyPostedInv DEF ExecInv
<1> QED BY <1>7, <1>9, <1>10, CopySameInv DEF ExecInv

LEMMA WritePollCopies ==
  ASSUME ExecInv, NEW p \in Peers, WritePoll(p)
  PROVE  \A q \in Peers : CopyInv(q)'
<1>1. UNCHANGED <<outgoing, resends, lastId, executing, requests>>
  BY DEF WritePoll, Writes
<1>2. TypeInv /\ DOMAIN stage = Peers
  BY DEF ExecInv, TypeInv, Inv, Functions
<1>3. PICK b : b = OutgoingBlock(p, stored[p])
  OBVIOUS
<1>4. b \in TypedBlocks /\ b.resends = resends[p]
  BY <1>2, <1>3, StoredNat, PollTyped DEF OutgoingBlock
<1>5. /\ stage'[p] = stage[p] \o <<b>> /\ \A q \in Peers \ {p} : stage'[q] = stage[q]
  BY <1>2, <1>3 DEF WritePoll, Post
<1>6. \A q \in Peers : CopySame(q)
  BY <1>1 DEF CopySame
<1>7. CopyInv(p)'
  BY <1>2, <1>4, <1>5, <1>6, CopyPostedInv DEF ExecInv
<1> QED BY <1>5, <1>6, <1>7, CopySameInv DEF ExecInv

LEMMA WriteOtherCopies ==
  ASSUME ExecInv, NEW p \in Peers,
         \/ WriteDelete(p) \/ WriteSeqIn(p) \/ WriteConfirm(p)
         \/ WriteAdd(p) \/ WriteRemove(p)
  PROVE  \A q \in Peers : CopyInv(q)'
<1>1. UNCHANGED <<outgoing, resends, lastId, executing, requests, stage>>
  BY DEF WriteDelete, WriteSeqIn, WriteConfirm, WriteAdd, WriteRemove, Writes
<1>2. \A q \in Peers : CopySame(q) /\ stage'[q] = stage[q]
  BY <1>1 DEF CopySame
<1> QED BY <1>2, CopySameInv DEF ExecInv

(* The copies of a range are numbered after all that were made before, and *)
(* each has a number of its own.                                           *)
LEMMA NewCopies ==
  ASSUME TypeInv, NEW p \in Peers, NEW found, found \subseteq stored[p],
         NEW copies,
         copies = {[id |-> lastId[p].resend + Cardinality({s \in found : s <= seq}),
                    seq |-> seq] : seq \in found}
  PROVE  /\ OwnIds(copies) /\ Cardinality(found) \in Nat
         /\ \A x \in copies :
              x.id \in lastId[p].resend + 1 .. lastId[p].resend + Cardinality(found)
<1> DEFINE upto(seq) == {s \in found : s <= seq}
           D == [seq \in found |-> upto(seq)]
<1>1. found \in SUBSET stored[p] /\ found \subseteq Int
  BY StoredNat
<1>2. IsFiniteSet(found)
  <2>1. PICK n \in Nat : n = Len(outgoing[p])
    BY StoredNat
  <2>2. stored[p] \in SUBSET (0 .. n - 1)
    BY <2>1 DEF TypeInv, Inv, Sound, Numbers
  <2>3. IsFiniteSet(0 .. n - 1)
    BY FS_Interval
  <2>4. IsFiniteSet(stored[p])
    BY <2>2, <2>3, FS_Subset
  <2> QED BY <1>1, <2>4, FS_Subset
<1>3. Orders(found, D)
  BY <1>1, <1>2, NumbersOrdered
<1>4. \A seq \in found : D[seq] = {s \in found : s <= seq}
  OBVIOUS
<1> HIDE DEF D
<1>5. PICK f : f = [seq \in found |-> Cardinality(D[seq])]
  OBVIOUS
<1>6. /\ \A x, y \in found : f[x] = f[y] => x = y
      /\ \A x \in found : f[x] \in 1 .. Cardinality(found)
  BY <1>3, <1>5, RankHits
<1>7. PICK c \in Nat : c = Cardinality(found)
  BY <1>2, FS_CardinalityType
<1>8. PICK l \in Int : l = lastId[p].resend
  BY DEF TypeInv, Types, Typed
<1>9. \A x \in copies : \E seq \in found : x = [id |-> l + f[seq], seq |-> seq]
  BY <1>4, <1>5, <1>8
<1>10. \A x \in copies : \E seq \in found :
         x = [id |-> l + f[seq], seq |-> seq] /\ x.id = l + f[seq]
  <2> SUFFICES ASSUME NEW x \in copies
               PROVE  \E seq \in found :
                        x = [id |-> l + f[seq], seq |-> seq] /\ x.id = l + f[seq]
    OBVIOUS
  <2>1. PICK seq \in found : x = [id |-> l + f[seq], seq |-> seq]
    BY <1>9
  <2>2. x.id = l + f[seq]
    BY <2>1
  <2> QED BY <2>1, <2>2
<1>11. \A seq \in found : f[seq] \in Nat /\ f[seq] \in 1 .. c
  BY <1>6, <1>7
<1>12. ASSUME NEW x \in copies PROVE x.id \in l + 1 .. l + c
  <2>1. PICK seq \in found : x.id = l + f[seq]
    BY <1>10
  <2>2. PICK k \in 1 .. c : k = f[seq]
    BY <1>11
  <2>3. l + k \in l + 1 .. l + c
    OBVIOUS
  <2> QED BY <2>1, <2>2, <2>3
<1>13. ASSUME NEW x \in copies, NEW y \in copies, x.id = y.id PROVE x = y
  <2>1. PICK s \in found : x = [id |-> l + f[s], seq |-> s] /\ x.id = l + f[s]
    BY <1>10
  <2>2. PICK t \in found : y = [id |-> l + f[t], seq |-> t] /\ y.id = l + f[t]
    BY <1>10
  <2>3. PICK k \in Nat, m \in Nat : k = f[s] /\ m = f[t]
    BY <1>11
  <2>4. l + k = l + m
    BY <1>13, <2>1, <2>2, <2>3
  <2>5. k = m
    BY <2>4
  <2>6. s = t
    BY <1>6, <2>3, <2>5
  <2> QED BY <2>1, <2>2, <2>6
<1> QED BY <1>7, <1>8, <1>12, <1>13 DEF OwnIds

LEMMA WriteResendCopies ==
  ASSUME ExecInv, NEW p \in Peers, WriteResend(p)
  PROVE  \A q \in Peers : CopyInv(q)'
<1>1. UNCHANGED <<outgoing, executing, requests>>
  BY DEF WriteResend, Writes
<1>2. TypeInv /\ CopyInv(p) /\ DOMAIN stage = Peers /\ DOMAIN resends = Peers
  BY DEF ExecInv, TypeInv, Inv, Functions
<1>3. PICK found : found = stored[p] \cap (Head(writes[p]).from .. Head(writes[p]).to)
  OBVIOUS
<1>4. PICK copies :
        copies = {[id |-> lastId[p].resend + Cardinality({s \in found : s <= seq}),
                   seq |-> seq] : seq \in found}
  OBVIOUS
<1>5. PICK c : c = Cardinality(found)
  OBVIOUS
<1>6. /\ resends' = [resends EXCEPT ![p] = resends[p] \cup copies]
      /\ lastId' = [lastId EXCEPT ![p].resend = @ + c]
  BY <1>3, <1>4, <1>5 DEF WriteResend
<1>7. PICK l \in Int : l = lastId[p].resend
  BY <1>2 DEF TypeInv, Types, Typed
<1>8. c \in Nat /\ OwnIds(copies) /\ \A x \in copies : x.id \in l + 1 .. l + c
  <2>1. found \subseteq stored[p]
    BY <1>3
  <2> QED BY <1>2, <1>4, <1>5, <1>7, <2>1, NewCopies
<1>9. /\ resends'[p] = resends[p] \cup copies
      /\ \A q \in Peers \ {p} : resends'[q] = resends[q]
  BY <1>2, <1>6
<1>10. /\ lastId'[p].resend = l + c
       /\ \A q \in Peers \ {p} : lastId'[q] = lastId[q]
  <2>1. PICK d \in [incoming : Nat, resend : Int] : d = lastId[p]
    BY <1>2 DEF TypeInv, Types, Typed
  <2>2. PICK e : e = [d EXCEPT !.resend = l + c]
    OBVIOUS
  <2>3. lastId' = [lastId EXCEPT ![p] = e]
    BY <1>6, <1>7, <2>1, <2>2
  <2>4. lastId'[p] = e /\ \A q \in Peers \ {p} : lastId'[q] = lastId[q]
    BY <1>2, <2>3, WholeUpdate DEF TypeInv, Types, Domains
  <2>5. e.resend = l + c
    BY <2>1, <2>2
  <2> QED BY <2>4, <2>5
<1>11. /\ stage'[p] = stage[p] \o <<PollOutgoing>>
       /\ \A q \in Peers \ {p} : stage'[q] = stage[q]
  BY <1>2 DEF WriteResend, Post
<1>12. \A q \in Peers \ {p} : CopySame(q) /\ stage'[q] = stage[q]
  BY <1>1, <1>9, <1>10, <1>11 DEF CopySame
<1>13. PICK R : Copies(p, R)
  BY <1>2 DEF CopyInv
<1>14. PICK S : S = R \cup copies
  OBVIOUS
<1>15. /\ \A x \in R : x.id \in FirstResendId .. l
       /\ FirstResendId <= l + 1 /\ FirstResendId \in Nat
  BY <1>7, <1>13, PeersAssumption DEF Copies
<1>16. \A x \in S : x.id \in FirstResendId .. l + c
  <2>1. \A i \in FirstResendId .. l : i \in FirstResendId .. l + c
    BY <1>8, <1>15
  <2>2. \A i \in l + 1 .. l + c : i \in FirstResendId .. l + c
    BY <1>8, <1>15
  <2> QED BY <1>8, <1>14, <1>15, <2>1, <2>2
<1>17. OwnIds(S)
  <2> SUFFICES ASSUME NEW x \in S, NEW y \in S, x.id = y.id PROVE x = y
    BY DEF OwnIds
  <2>1. ASSUME NEW i \in FirstResendId .. l, NEW j \in l + 1 .. l + c PROVE i # j
    BY <1>8, <1>15
  <2>2. \A a \in R, d \in copies : a.id # d.id
    BY <1>8, <1>15, <2>1
  <2>3. OwnIds(R)
    BY <1>13 DEF Copies
  <2> QED BY <1>8, <1>14, <2>2, <2>3 DEF OwnIds
<1>18. stage'[p] \in Seq(KnownBlocks(S))
  <2>1. KnownBlocks(R) \subseteq KnownBlocks(S)
    BY <1>14 DEF KnownBlocks
  <2>2. stage[p] \in Seq(KnownBlocks(S))
    BY <1>13, <2>1, SeqMonotonic DEF Copies
  <2>3. PollOutgoing \in KnownBlocks(S)
    BY BlockTypes DEF PollOutgoing, KnownBlocks
  <2>4. <<PollOutgoing>> \in Seq(KnownBlocks(S))
    BY <2>3
  <2> QED BY <1>11, <2>2, <2>4, ConcatProperties
<1>19. \A id \in executing'[p] : \/ \E n \in Numbers(p)' : id = OutgoingId(n)
                                 \/ \E x \in S : id = x.id
  <2>1. Numbers(p)' = Numbers(p) /\ executing' = executing /\ R \subseteq S
    BY <1>1, <1>14 DEF Numbers
  <2> QED BY <1>13, <2>1, Zenon DEF Copies
<1>20. Copies(p, S)'
  <2>1. resends'[p] \subseteq S
    BY <1>9, <1>13, <1>14 DEF Copies
  <2>2. FirstResendId <= lastId'[p].resend + 1
    BY <1>8, <1>10, <1>15
  <2>3. \A x \in S : x.id \in FirstResendId .. lastId'[p].resend
    BY <1>10, <1>16
  <2> QED BY <1>17, <1>18, <1>19, <2>1, <2>2, <2>3 DEF Copies
<1>21. Exec(p)'
  <2>1. Exec(p) /\ Numbers(p)' = Numbers(p)
    BY <1>1, <1>2 DEF CopyInv, Numbers
  <2> SUFFICES ASSUME NEW r \in resends'[p], r.id \in executing[p]
               PROVE  \/ \E x \in requests[p] :
                           x.row = [id |-> r.id, seq |-> r.seq, resend |-> TRUE]
                      \/ \E n \in Numbers(p) : r.id = OutgoingId(n)
    BY <1>1, <2>1 DEF Exec, CopyRequested, Alike
  <2>2. CASE r \in resends[p]
    BY <2>1, <2>2 DEF Exec, CopyRequested, Alike
  <2>3. CASE r \in copies
    <3>1. PICK i \in l + 1 .. l + c : i = r.id
      BY <1>8, <2>3
    <3>2. ASSUME NEW x \in R PROVE i # x.id
      <4>1. PICK k \in FirstResendId .. l : k = x.id
        BY <1>15
      <4> QED BY <1>8, <1>15, <4>1
    <3>3. \/ \E n \in Numbers(p) : i = OutgoingId(n)
          \/ \E x \in R : i = x.id
      BY <1>13, <3>1 DEF Copies
    <3> QED BY <3>1, <3>2, <3>3
  <2> QED BY <1>9, <2>2, <2>3
<1>22. CopyInv(p)'
  BY <1>20, <1>21 DEF CopyInv
<1> QED BY <1>12, <1>22, CopySameInv DEF ExecInv

LEMMA RestartCopies ==
  ASSUME ExecInv, NEW p \in Peers, Restart(p)
  PROVE  \A q \in Peers : CopyInv(q)'
<1>1. UNCHANGED <<outgoing, resends, lastId>>
  BY DEF Restart, persistent
<1>2. TypeInv /\ CopyInv(p)
  BY DEF ExecInv
<1>3. /\ DOMAIN stage = Peers /\ DOMAIN requests = Peers /\ DOMAIN executing = Peers
  BY <1>2 DEF TypeInv, Types, Domains, Inv, Functions
<1>4. PICK R : Copies(p, R)
  BY <1>2 DEF CopyInv
<1>5. PICK first, second :
        /\ first = IF stored[p] # {} \/ resends[p] # {} THEN <<PollOutgoing>> ELSE <<>>
        /\ second = IF incoming[p] # {} THEN <<PollIncoming>> ELSE <<>>
  OBVIOUS
<1>6. first \o second \in Seq(KnownBlocks(R))
  <2>1. PollOutgoing \in KnownBlocks(R) /\ PollIncoming \in KnownBlocks(R)
    BY BlockTypes DEF PollOutgoing, PollIncoming, KnownBlocks
  <2>2. /\ <<>> \in Seq(KnownBlocks(R))
        /\ \A b \in KnownBlocks(R) : <<b>> \in Seq(KnownBlocks(R))
    OBVIOUS
  <2>3. first \in Seq(KnownBlocks(R)) /\ second \in Seq(KnownBlocks(R))
    BY <1>5, <2>1, <2>2
  <2> QED BY <2>3, ConcatProperties
<1>7. /\ stage' = [stage EXCEPT ![p] = first \o second]
      /\ executing' = [executing EXCEPT ![p] = {}]
      /\ requests' = [requests EXCEPT ![p] = {}]
  BY <1>5 DEF Restart
<1>8. /\ stage'[p] = first \o second /\ executing'[p] = {}
      /\ \A q \in Peers \ {p} : /\ stage'[q] = stage[q] /\ executing'[q] = executing[q]
                                /\ requests'[q] = requests[q]
  BY <1>3, <1>7
<1>9. Copies(p, R)'
  BY <1>1, <1>4, <1>6, <1>8 DEF Copies
<1>10. Exec(p)'
  BY <1>8 DEF Exec
<1>11. CopyInv(p)'
  BY <1>9, <1>10 DEF CopyInv
<1>12. \A q \in Peers \ {p} : CopySame(q) /\ stage'[q] = stage[q]
  BY <1>1, <1>8 DEF CopySame
<1> QED BY <1>11, <1>12, CopySameInv DEF ExecInv

LEMMA ExecInit == Init => ExecInv
<1> SUFFICES ASSUME Init PROVE ExecInv
  OBVIOUS
<1>1. TypeInv
  BY InitInv, TypesInit DEF TypeInv
<1>2. ASSUME NEW p \in Peers PROVE CopyInv(p)
  <2>1. /\ resends[p] = {} /\ stage[p] = <<>> /\ executing[p] = {}
        /\ lastId[p].resend = FirstResendId - 1
    BY DEF Init
  <2>2. OwnIds({}) /\ FirstResendId <= lastId[p].resend + 1
    BY <2>1, PeersAssumption DEF OwnIds
  <2>3. stage[p] \in Seq(KnownBlocks({}))
    BY <2>1
  <2>4. Copies(p, {})
    BY <2>1, <2>2, <2>3 DEF Copies
  <2>5. Exec(p)
    BY <2>1 DEF Exec
  <2> QED BY <2>4, <2>5 DEF CopyInv
<1> QED BY <1>1, <1>2 DEF ExecInv

LEMMA ExecNext == ExecInv /\ [Next]_vars => ExecInv'
<1> SUFFICES ASSUME ExecInv, [Next]_vars PROVE \A q \in Peers : CopyInv(q)'
  BY TypesNext DEF ExecInv
<1>1. CASE UNCHANGED vars
  <2>1. \A q \in Peers : CopySame(q) /\ stage'[q] = stage[q]
    BY <1>1 DEF CopySame, vars, persistent, volatile
  <2> QED BY <2>1, CopySameInv DEF ExecInv
<1>2. CASE Next
  <2>1. PICK p \in Peers :
          \/ Send(p) \/ StageStep(p) \/ DatabaseStep(p)
          \/ Accept(p) \/ Complete(p) \/ Fail(p) \/ Receive(p) \/ Restart(p)
    BY <1>2 DEF Next
  <2>2. CASE StageStep(p)
    BY <2>2, RunPollCopies, RunOutgoingCopies, RunIncomingCopies DEF StageStep
  <2>3. CASE DatabaseStep(p)
    BY <2>3, WritePollCopies, WriteResendCopies, WriteOtherCopies DEF DatabaseStep
  <2> QED BY <2>1, <2>2, <2>3, SendCopies, AcceptCopies, CompleteCopies, FailCopies,
             ReceiveCopies, RestartCopies
<1> QED BY <1>1, <1>2

(* An executing id keeps a copy from being sent only while a request for   *)
(* that copy is on its way, or because a row of the outgoing table has the *)
(* same id: enqueueOutgoingMessagesForPeerIds looks ids of both tables up  *)
(* in one set, and nothing else than that ever stops a copy, for any       *)
(* number of copies, refusals and crashes.                                 *)
THEOREM ExecutingSafe == Spec => []ExecutingIsRequestedOrAlike
<1>1. ExecInv => ExecutingIsRequestedOrAlike
  BY DEF ExecInv, CopyInv, Exec, CopyRequested, Alike, Numbers,
         ExecutingIsRequestedOrAlike
<1> QED BY ExecInit, ExecNext, <1>1, PTL DEF Spec

-----------------------------------------------------------------------------
(* Order.                                                                  *)

Rising(s) == \A i, j \in DOMAIN s : i < j => s[i] < s[j]

(* A finite set of numbers is listed whole and from the smallest up.       *)
LEMMA AscendingRises ==
  ASSUME NEW S, IsFiniteSet(S), S \subseteq Int
  PROVE  Rising(Ascending(S)) /\ ToSet(Ascending(S)) = S
<1> DEFINE Upto(x) == {y \in S : y <= x}
           c == Cardinality(S)
           P(x, i) == Cardinality({y \in S : y <= x}) = i
           a == [i \in 1 .. c |-> CHOOSE x \in S : P(x, i)]
<1>1. PICK D : D = [x \in S |-> Upto(x)]
  OBVIOUS
<1>2. Orders(S, D)
  BY <1>1, NumbersOrdered
<1>3. /\ \A i \in 1 .. Cardinality(S) : \E x \in S : Cardinality(D[x]) = i
      /\ \A x, y \in S : Cardinality(D[x]) = Cardinality(D[y]) => x = y
      /\ \A x \in S : Cardinality(D[x]) \in 1 .. Cardinality(S)
  BY ONLY <1>2, RankHits, Zenon
<1>4. \A x \in S : D[x] = {y \in S : y <= x}
  BY <1>1
<1>5. \A i \in 1 .. c : \E x \in S : P(x, i)
  BY <1>3, <1>4
<1>6. \A x \in S : P(x, Cardinality(D[x])) /\ Cardinality(D[x]) \in 1 .. c
  BY <1>3, <1>4
<1>7. \A x, y \in S : \A i \in 1 .. c : P(x, i) /\ P(y, i) => x = y
  <2>1. \A x \in S, i \in 1 .. c : P(x, i) => Cardinality(D[x]) = i
    BY <1>4
  <2> HIDE DEF P, c
  <2> QED BY <1>3, <2>1
<1>8. ASSUME NEW x \in S, NEW y \in S, y <= x,
             NEW i \in Int, NEW j \in Int, P(x, i), P(y, j)
      PROVE  j <= i
  <2>1. {z \in S : z <= y} \in SUBSET {z \in S : z <= x}
    <3>1. ASSUME NEW z \in S, z <= y PROVE z <= x
      <4>1. x \in Int /\ y \in Int /\ z \in Int
        OBVIOUS
      <4> QED BY ONLY <1>8, <3>1, <4>1
    <3> QED BY <3>1
  <2>2. {z \in S : z <= x} \in SUBSET S
    OBVIOUS
  <2>3. IsFiniteSet({z \in S : z <= x})
    BY <2>2, FS_Subset
  <2>4. PICK X, Y : X = {z \in S : z <= x} /\ Y = {z \in S : z <= y}
    OBVIOUS
  <2>5. IsFiniteSet(X) /\ Y \in SUBSET X
    BY <2>1, <2>3, <2>4
  <2>6. Cardinality(Y) <= Cardinality(X)
    BY ONLY <2>5, FS_Subset
  <2> QED BY <1>8, <2>4, <2>6
<1>9. Ascending(S) = a
  BY DEF Ascending
<1>10. c \in Nat
  BY FS_CardinalityType
<1> HIDE DEF P, c
<1>11. \A i \in 1 .. c : a[i] \in S /\ P(a[i], i)
  BY <1>5
<1>12. DOMAIN a = 1 .. c
  OBVIOUS
<1> HIDE DEF a
<1>13. Rising(a)
  <2> SUFFICES ASSUME NEW i \in 1 .. c, NEW j \in 1 .. c, i < j PROVE a[i] < a[j]
    BY <1>12 DEF Rising
  <2>1. a[i] \in Int /\ a[j] \in Int /\ a[i] \in S /\ a[j] \in S
    BY <1>11
  <2>2. CASE a[j] <= a[i]
    <3>1. i \in Int /\ j \in Int
      BY <1>10
    <3>2. j <= i
      BY <1>8, <1>11, <2>1, <2>2, <3>1
    <3> QED BY <3>1, <3>2
  <2> QED BY <2>1, <2>2
<1>14. ToSet(a) = S
  <2>1. ASSUME NEW x \in S PROVE \E i \in 1 .. c : a[i] = x
    <3>1. PICK i \in 1 .. c : P(x, i)
      BY <1>6
    <3> QED BY <1>7, <1>11, <3>1
  <2> QED BY <1>11, <1>12, <2>1 DEF ToSet
<1> QED BY <1>9, <1>13, <1>14

LEMMA WithoutRises ==
  ASSUME NEW s \in Seq(Int), NEW S
  PROVE  /\ Rising(s) => Rising(Without(s, S))
         /\ ToSet(Without(s, S)) = ToSet(s) \ S
<1> DEFINE I == {i \in DOMAIN s : s[i] \notin S}
           left == Ascending(I)
           w == [i \in DOMAIN left |-> s[left[i]]]
<1>1. Len(s) \in Nat /\ DOMAIN s = 1 .. Len(s) /\ I \in SUBSET (1 .. Len(s))
  OBVIOUS
<1>2. IsFiniteSet(1 .. Len(s))
  BY <1>1, FS_Interval
<1>3. IsFiniteSet(I) /\ I \subseteq Int
  BY <1>1, <1>2, FS_Subset
<1>4. left \in Seq(I) /\ Rising(left) /\ ToSet(left) = I
  BY <1>3, AscendingList, AscendingRises
<1>5. Without(s, S) = w
  BY DEF Without
<1>6. \A i : i \in I <=> (i \in DOMAIN s /\ s[i] \notin S)
  OBVIOUS
<1> HIDE DEF left, I
<1>7. /\ \A i \in DOMAIN left : left[i] \in I
      /\ \A x \in I : \E i \in DOMAIN left : left[i] = x
  BY <1>4 DEF ToSet
<1>8. DOMAIN w = DOMAIN left /\ \A i \in DOMAIN left : w[i] = s[left[i]]
  OBVIOUS
<1> HIDE DEF w
<1>9. Rising(s) => Rising(w)
  <2> SUFFICES ASSUME Rising(s), NEW i \in DOMAIN left, NEW j \in DOMAIN left, i < j
               PROVE  w[i] < w[j]
    BY <1>8 DEF Rising
  <2>1. left[i] < left[j]
    BY <1>4 DEF Rising
  <2>2. s[left[i]] < s[left[j]]
    BY <1>6, <1>7, <2>1 DEF Rising
  <2> QED BY <1>8, <2>2
<1>10. ToSet(w) = ToSet(s) \ S
  <2>1. ASSUME NEW n \in ToSet(w) PROVE n \in ToSet(s) \ S
    <3>1. PICK i \in DOMAIN left : n = w[i]
      BY <1>8, <2>1 DEF ToSet
    <3>2. n = s[left[i]] /\ left[i] \in DOMAIN s /\ s[left[i]] \notin S
      BY <1>6, <1>7, <1>8, <3>1
    <3> QED BY <3>2 DEF ToSet
  <2>2. ASSUME NEW n \in ToSet(s) \ S PROVE n \in ToSet(w)
    <3>1. PICK k \in DOMAIN s : n = s[k]
      BY <2>2 DEF ToSet
    <3>2. k \in I
      BY <1>6, <2>2, <3>1
    <3>3. PICK i \in DOMAIN left : left[i] = k
      BY <1>7, <3>2
    <3>4. i \in DOMAIN w /\ w[i] = n
      BY <1>8, <3>1, <3>3
    <3> QED BY <3>4 DEF ToSet
  <2> QED BY <2>1, <2>2
<1> QED BY <1>5, <1>9, <1>10

(* Larger numbers behind smaller ones.                                     *)
LEMMA RisingConcat ==
  ASSUME NEW s \in Seq(Int), NEW t \in Seq(Int), Rising(s), Rising(t),
         \A m \in ToSet(s), n \in ToSet(t) : m < n
  PROVE  Rising(s \o t) /\ ToSet(s \o t) = ToSet(s) \cup ToSet(t)
<1>1. Len(s) \in Nat /\ Len(t) \in Nat /\ DOMAIN s = 1 .. Len(s) /\ DOMAIN t = 1 .. Len(t)
  OBVIOUS
<1>2. /\ DOMAIN (s \o t) = 1 .. Len(s) + Len(t)
      /\ \A i \in 1 .. Len(s) : (s \o t)[i] = s[i]
      /\ \A i \in Len(s) + 1 .. Len(s) + Len(t) : (s \o t)[i] = t[i - Len(s)]
  OBVIOUS
<1>3. PICK u, l, k : u = s \o t /\ l = Len(s) /\ k = Len(t)
  OBVIOUS
<1>4. /\ l \in Nat /\ k \in Nat /\ DOMAIN s = 1 .. l /\ DOMAIN t = 1 .. k
      /\ DOMAIN u = 1 .. l + k
      /\ \A i \in 1 .. l : u[i] = s[i]
      /\ \A i \in l + 1 .. l + k : u[i] = t[i - l]
  BY <1>1, <1>2, <1>3
<1>5. /\ \A i \in 1 .. l : s[i] \in ToSet(s)
      /\ \A i \in 1 .. k : t[i] \in ToSet(t)
  BY <1>4 DEF ToSet
<1>6. Rising(u)
  <2> SUFFICES ASSUME NEW i \in 1 .. l + k, NEW j \in 1 .. l + k, i < j PROVE u[i] < u[j]
    BY <1>4 DEF Rising
  <2>1. CASE j <= l
    <3>1. i \in 1 .. l /\ j \in 1 .. l
      BY <1>4, <2>1
    <3> QED BY <1>4, <3>1 DEF Rising
  <2>2. CASE i > l
    <3>1. i - l \in 1 .. k /\ j - l \in 1 .. k /\ i - l < j - l
      BY <1>4, <2>2
    <3>2. i \in l + 1 .. l + k /\ j \in l + 1 .. l + k
      BY <1>4, <2>2
    <3> QED BY <1>4, <3>1, <3>2 DEF Rising
  <2>3. CASE i <= l /\ j > l
    <3>1. i \in 1 .. l /\ j \in l + 1 .. l + k /\ j - l \in 1 .. k
      BY <1>4, <2>3
    <3> QED BY <1>4, <1>5, <3>1
  <2> QED BY <1>4, <2>1, <2>2, <2>3
<1>7. ToSet(u) = ToSet(s) \cup ToSet(t)
  <2>1. ASSUME NEW i \in 1 .. l + k PROVE u[i] \in ToSet(s) \cup ToSet(t)
    <3>1. i \in 1 .. l \/ (i \in l + 1 .. l + k /\ i - l \in 1 .. k)
      BY <1>4
    <3> QED BY <1>4, <1>5, <3>1
  <2>2. ASSUME NEW i \in 1 .. l PROVE s[i] \in ToSet(u)
    <3>1. i \in 1 .. l + k
      BY <1>4
    <3> QED BY <1>4, <3>1 DEF ToSet
  <2>3. ASSUME NEW i \in 1 .. k PROVE t[i] \in ToSet(u)
    <3>1. i + l \in 1 .. l + k /\ i + l \in l + 1 .. l + k /\ (i + l) - l = i
      BY <1>4
    <3>2. u[i + l] = t[i]
      BY <1>4, <3>1
    <3> QED BY <1>4, <3>1, <3>2 DEF ToSet
  <2> QED BY <1>4, <2>1, <2>2, <2>3 DEF ToSet
<1> QED BY <1>3, <1>6, <1>7

-----------------------------------------------------------------------------
(* The way from p to its peer while the server refuses no request of p and *)
(* the peer does not crash.  The server has taken the numbers below f, the *)
(* peer has received those below t and will have processed those below e   *)
(* when the queries that wait are done; T has the numbers that were first  *)
(* taken as texts, and a is what the waiting query adds.                   *)

Smooth(p) == failures[p] = 0 /\ restarts[Other(p)] = 0

Number(m) == Halved(m.seqOut)
FromTo(m, n, S) == \A k \in Nat : m <= k /\ k < n => k \in S

(* Requests that the server has not taken wait for all smaller numbers it  *)
(* has not taken, and what a sendSecretMessage actor waits for is a text.  *)
RequestFlow(r, R, X, W, f, T) ==
  /\ r.row.resend = FALSE /\ Number(r.message) = r.row.seq
  /\ r.row.id = OutgoingId(r.row.seq) /\ r.row.id \in X
  /\ r.row.seq >= f =>
       /\ r.accepted = FALSE
       /\ FromTo(f, r.row.seq, r.after)
       /\ FromTo(f, r.row.seq, {x.row.seq : x \in R})
  /\ r.row.id \in W =>
       /\ r.message.content = Text
       /\ r.accepted = FALSE => r.row.seq >= f
       /\ r.accepted = TRUE => r.row.seq \in T

Asks(r) == r.content.type = "resend"
QuietMessages == {m \in Messages : ~Asks(m)}
QuietRows     == {r \in Rows : ~Asks(r)}
QuietOut      == {x \in OutRows : x.body.type # "resend"}
QuietQueries  == {w \in TypedQueries : w.type # "resend"}

FlowBlocks(f) ==
  {b \in TypedBlocks :
     /\ b.type = "outgoing" =>
          b.resends = {} /\ \A n \in b.rows : FromTo(f, n, b.rows)
     /\ b.type = "incoming" => b.rows \subseteq QuietRows}

Sender(p, f, T) ==
  /\ f <= Len(outgoing[p]) /\ T \subseteq 0 .. f - 1
  /\ sentSeqOut[p] < f
  /\ resends[p] = {} /\ delivered[p] \subseteq T
  /\ \A r \in requests[p] :
       RequestFlow(r, requests[p], executing[p], waiting[p], f, T)
  /\ \A x, y \in requests[p] : x.row.seq = y.row.seq => x = y
  /\ \A k \in Nat : OutgoingId(k) \in executing[p] =>
       k < Len(outgoing[p]) /\ (k >= f => k \in {x.row.seq : x \in requests[p]})
  /\ \A n \in Nat : OutgoingId(n) \in waiting[p] =>
       /\ n < Len(outgoing[p]) /\ outgoing[p][n + 1].body = Text
       /\ n < f => OutgoingId(n) \in executing[p]
  /\ stage[p] \in Seq(FlowBlocks(f))

(* The peer asks for nothing.                                              *)
Quiet(p) ==
  /\ outgoing[Other(p)] \in Seq(QuietOut)
  /\ \A r \in requests[Other(p)] : r.message \in QuietMessages
  /\ network[p] \in Seq(QuietMessages)
  /\ incoming[p] \subseteq QuietRows
  /\ writes[p] \in Seq(QuietQueries)

(* What is on its way has no gap, and whether a number is a text is told   *)
(* by the first message that has it.                                       *)
NetBelow(s, f) == \A i \in DOMAIN s : Number(s[i]) < f
NetClosed(s, t) ==
  \A i \in DOMAIN s : \A k \in Nat : t <= k /\ k < Number(s[i]) =>
    \E j \in DOMAIN s : j < i /\ Number(s[j]) = k
NetWhole(s, f, t) ==
  \A k \in Nat : t <= k /\ k < f => \E i \in DOMAIN s : Number(s[i]) = k
NetFirst(s, t, T) ==
  \A i \in DOMAIN s :
    t <= Number(s[i]) /\ (\A j \in DOMAIN s : j < i => Number(s[j]) # Number(s[i])) =>
      (s[i].content.type = "text" <=> Number(s[i]) \in T)
Net(s, f, t, T) ==
  NetBelow(s, f) /\ NetClosed(s, t) /\ NetWhole(s, f, t) /\ NetFirst(s, t, T)

(* The first k messages end at u; rows have been made of them.             *)
Reached(s, k, t, u, T) ==
  /\ \A i \in 1 .. k : Number(s[i]) \in Nat /\ Number(s[i]) < u
  /\ \A n \in Nat : t <= n /\ n < u => \E i \in 1 .. k : Number(s[i]) = n
  /\ \A i \in 1 .. k :
       t <= Number(s[i]) /\ (\A j \in 1 .. k : j < i => Number(s[j]) # Number(s[i])) =>
         (s[i].content.type = "text" <=> Number(s[i]) \in T)
MadeOf(new, s, k, last) ==
  /\ \A r \in new : \E i \in 1 .. k :
       r.id = last + i /\ r.seq = Number(s[i]) /\ r.content = s[i].content
  /\ \A i \in 1 .. k : \E r \in new : r.id = last + i /\ r.seq = Number(s[i])

FirstIs(rows, T, e) ==
  \A r \in rows : r.seq >= e /\ (\A x \in rows : x.seq = r.seq => r.id <= x.id) =>
    (r.content.type = "text" <=> r.seq \in T)

Whence(rows, t, T, e) ==
  /\ \A r \in rows : r.seq < t
  /\ FromTo(e, t, Seqs(rows))
  /\ FirstIs(rows, T, e)

Snapshot(b) == b.type = "incoming"
End(b) == NextExpected(b.rows, b.next)

(* A snapshot that waits ends where the table ended when it was read.      *)
SnapshotFlow(b, rows, last, t, T, e) ==
  /\ b.next <= e /\ e <= End(b) /\ End(b) <= t
  /\ Whence(b.rows, End(b), T, b.next)
  /\ \A r \in b.rows : r.id <= last /\ \A x \in rows : r.id = x.id => r = x

InTurn(s) ==
  \A i, j \in DOMAIN s : i < j /\ Snapshot(s[i]) /\ Snapshot(s[j]) =>
    End(s[i]) <= End(s[j])

StageFlow(s, rows, last, t, T, e) ==
  /\ \A i \in DOMAIN s : Snapshot(s[i]) => SnapshotFlow(s[i], rows, last, t, T, e)
  /\ InTurn(s)

WriteFlow(w, rows, T, e, a) ==
  /\ w.type = "seqIn" => w.seq = e
  /\ w.type = "delete" => \A r \in rows : r.id \in w.ids => r.seq < e
  /\ w.type = "add" => w.seqs = a
  /\ w.type = "remove" => \A n \in w.seqs : n < e /\ n \notin T

Pending(s, type) == \E i \in DOMAIN s : s[i].type = type

WritesFlow(s, n, rows, T, e, a) ==
  /\ \A i \in DOMAIN s : WriteFlow(s[i], rows, T, e, a)
  /\ Pending(s, "seqIn") \/ n = e

(* The conversation c has the texts below e in their order, or lacks the   *)
(* last of them, which wait to be added.                                   *)
Conversation(c, s, T, e, a) ==
  /\ Rising(c) /\ Rising(a) /\ a \in Seq(Int)
  /\ \A n \in ToSet(c) \cup ToSet(a) : n \in T /\ n < e
  /\ \A n \in ToSet(a), m \in ToSet(c) : n \notin ToSet(c) => m < n
  /\ \A n \in T : n < e => n \in ToSet(c) \/ (n \in ToSet(a) /\ Pending(s, "add"))

Receiver(q, t, T, e, a) ==
  /\ seqIn[q] <= e /\ processed[q] <= e /\ e <= t
  /\ Whence(incoming[q], t, T, e)
  /\ StageFlow(stage[q], incoming[q], lastId[q].incoming, t, T, e)
  /\ WritesFlow(writes[q], seqIn[q], incoming[q], T, e, a)
  /\ Conversation(shown[q], writes[q], T, e, a)

Flow(p, f, t, T, e, a) ==
  /\ f \in Nat /\ t \in Nat /\ e \in Nat /\ t <= f
  /\ Sender(p, f, T) /\ Quiet(p)
  /\ Net(network[Other(p)], f, t, T)
  /\ Receiver(Other(p), t, T, e, a)

FlowAt(p) == \E f, t, T, e, a : Flow(p, f, t, T, e, a)
FlowInv == TypeInv /\ \A p \in Peers : Smooth(p) => FlowAt(p)

(* The server takes one more.                                              *)
LEMMA NetTaken ==
  ASSUME NEW s \in Seq(Messages), NEW m \in Messages, NEW f \in Nat, NEW t \in Nat, NEW T,
         t <= f, T \subseteq 0 .. f - 1, \A i \in DOMAIN s : Number(s[i]) \in Nat,
         Net(s, f, t, T), Number(m) \in Nat
  PROVE  /\ Number(m) < f => Net(Append(s, m), f, t, T)
         /\ Number(m) = f =>
              Net(Append(s, m), f + 1, t, IF m.content.type = "text" THEN T \cup {f} ELSE T)
<1>1. PICK u, l, n : u = Append(s, m) /\ l = Len(s) /\ n = Number(m)
  OBVIOUS
<1>2. /\ l \in Nat /\ n \in Nat /\ DOMAIN s = 1 .. l /\ DOMAIN u = 1 .. l + 1
      /\ (\A i \in 1 .. l : u[i] = s[i]) /\ u[l + 1] = m /\ Number(m) = n
  BY <1>1
<1>3. PICK N : N = [i \in 1 .. l |-> Number(s[i])]
  OBVIOUS
<1>4. /\ \A i \in 1 .. l : N[i] \in Nat /\ Number(s[i]) = N[i] /\ Number(u[i]) = N[i]
      /\ \A i \in 1 .. l : N[i] < f
      /\ \A i \in 1 .. l : \A k \in Nat : t <= k /\ k < N[i] => \E j \in 1 .. l : j < i /\ N[j] = k
      /\ \A k \in Nat : t <= k /\ k < f => \E i \in 1 .. l : N[i] = k
      /\ \A i \in 1 .. l : t <= N[i] /\ (\A j \in 1 .. l : j < i => N[j] # N[i]) =>
           (s[i].content.type = "text" <=> N[i] \in T)
  <2>1. \A i \in 1 .. l : N[i] \in Nat /\ Number(s[i]) = N[i] /\ Number(u[i]) = N[i]
    BY <1>2, <1>3
  <2>2. \A i \in 1 .. l : N[i] < f
    BY <1>2, <2>1 DEF Net, NetBelow
  <2>3. \A i \in 1 .. l : \A k \in Nat : t <= k /\ k < N[i] => \E j \in 1 .. l : j < i /\ N[j] = k
    <3> SUFFICES ASSUME NEW i \in 1 .. l, NEW k \in Nat, t <= k, k < N[i]
                 PROVE  \E j \in 1 .. l : j < i /\ N[j] = k
      OBVIOUS
    <3>1. k < Number(s[i]) /\ i \in DOMAIN s
      BY <1>2, <2>1
    <3>2. PICK j \in DOMAIN s : j < i /\ Number(s[j]) = k
      BY <3>1 DEF Net, NetClosed
    <3> QED BY <1>2, <2>1, <3>2
  <2>4. \A k \in Nat : t <= k /\ k < f => \E i \in 1 .. l : N[i] = k
    BY <1>2, <2>1 DEF Net, NetWhole
  <2>5. \A i \in 1 .. l : t <= N[i] /\ (\A j \in 1 .. l : j < i => N[j] # N[i]) =>
           (s[i].content.type = "text" <=> N[i] \in T)
    BY <1>2, <2>1 DEF Net, NetFirst
  <2> QED BY <2>1, <2>2, <2>3, <2>4, <2>5
<1>5. \A i \in 1 .. l + 1 : i \in 1 .. l \/ i = l + 1
  BY <1>2
<1>6. 1 .. l \subseteq 1 .. l + 1 /\ \A i \in 1 .. l : i < l + 1
  BY <1>2
<1>7. Number(u[l + 1]) = n
  BY <1>2
<1>8. CASE n < f
  <2>1. \A i \in 1 .. l + 1 : Number(u[i]) < f
    BY <1>4, <1>5, <1>7, <1>8
  <2>2. ASSUME NEW i \in 1 .. l + 1, NEW k \in Nat, t <= k, k < Number(u[i])
        PROVE  \E j \in 1 .. l + 1 : j < i /\ Number(u[j]) = k
    <3>1. CASE i \in 1 .. l
      <4>1. k < N[i]
        BY <1>4, <2>2, <3>1
      <4>2. PICK j \in 1 .. l : j < i /\ N[j] = k
        BY <1>4, <2>2, <3>1, <4>1
      <4> QED BY <1>4, <1>6, <4>2
    <3>2. CASE i = l + 1
      <4>1. k < f
        BY <1>2, <1>7, <1>8, <2>2, <3>2
      <4>2. PICK j \in 1 .. l : N[j] = k
        BY <1>4, <2>2, <4>1
      <4> QED BY <1>4, <1>6, <3>2, <4>2
    <3> QED BY <1>5, <3>1, <3>2
  <2>3. ASSUME NEW k \in Nat, t <= k, k < f PROVE \E i \in 1 .. l + 1 : Number(u[i]) = k
    BY <1>4, <1>6, <2>3
  <2>4. ASSUME NEW i \in 1 .. l + 1, t <= Number(u[i]),
               \A j \in 1 .. l + 1 : j < i => Number(u[j]) # Number(u[i])
        PROVE  u[i].content.type = "text" <=> Number(u[i]) \in T
    <3>1. CASE i \in 1 .. l
      <4>1. \A j \in 1 .. l : j < i => N[j] # N[i]
        BY <1>4, <1>6, <2>4, <3>1
      <4> QED BY <1>2, <1>4, <2>4, <3>1, <4>1
    <3>2. CASE i = l + 1
      <4>1. t <= n /\ n < f
        BY <1>7, <1>8, <2>4, <3>2
      <4>2. PICK j \in 1 .. l : N[j] = n
        BY <1>2, <1>4, <4>1
      <4>3. j \in 1 .. l + 1 /\ j < i /\ Number(u[j]) = Number(u[i])
        BY <1>4, <1>6, <1>7, <3>2, <4>2
      <4> QED BY <2>4, <4>3
    <3> QED BY <1>5, <3>1, <3>2
  <2>5. NetBelow(u, f) /\ NetClosed(u, t)
    BY <1>2, <2>1, <2>2 DEF NetBelow, NetClosed
  <2>6. NetWhole(u, f, t) /\ NetFirst(u, t, T)
    BY <1>2, <2>3, <2>4 DEF NetWhole, NetFirst
  <2>7. Net(u, f, t, T)
    BY <2>5, <2>6 DEF Net
  <2> QED BY <1>1, <1>8, <2>7
<1>9. CASE n = f
  <2>0. PICK U : U = IF m.content.type = "text" THEN T \cup {f} ELSE T
    OBVIOUS
  <2>1. \A i \in 1 .. l + 1 : Number(u[i]) < f + 1
    BY <1>4, <1>5, <1>7, <1>9
  <2>2. ASSUME NEW i \in 1 .. l + 1, NEW k \in Nat, t <= k, k < Number(u[i])
        PROVE  \E j \in 1 .. l + 1 : j < i /\ Number(u[j]) = k
    <3>1. CASE i \in 1 .. l
      <4>1. k < N[i]
        BY <1>4, <2>2, <3>1
      <4>2. PICK j \in 1 .. l : j < i /\ N[j] = k
        BY <1>4, <2>2, <3>1, <4>1
      <4> QED BY <1>4, <1>6, <4>2
    <3>2. CASE i = l + 1
      <4>1. k < f
        BY <1>2, <1>7, <1>9, <2>2, <3>2
      <4>2. PICK j \in 1 .. l : N[j] = k
        BY <1>4, <2>2, <4>1
      <4> QED BY <1>4, <1>6, <3>2, <4>2
    <3> QED BY <1>5, <3>1, <3>2
  <2>3. ASSUME NEW k \in Nat, t <= k, k < f + 1 PROVE \E i \in 1 .. l + 1 : Number(u[i]) = k
    <3>1. CASE k < f
      BY <1>4, <1>6, <2>3, <3>1
    <3>2. CASE k = f
      <4>1. l + 1 \in 1 .. l + 1
        BY <1>2
      <4> QED BY <1>7, <1>9, <3>2, <4>1
    <3> QED BY <2>3, <3>1, <3>2
  <2>4. ASSUME NEW i \in 1 .. l + 1, t <= Number(u[i]),
               \A j \in 1 .. l + 1 : j < i => Number(u[j]) # Number(u[i])
        PROVE  u[i].content.type = "text" <=> Number(u[i]) \in U
    <3>1. CASE i \in 1 .. l
      <4>1. \A j \in 1 .. l : j < i => N[j] # N[i]
        BY <1>4, <1>6, <2>4, <3>1
      <4>2. N[i] # f
        BY <1>4, <3>1
      <4>3. N[i] \in U <=> N[i] \in T
        BY <2>0, <4>2
      <4> QED BY <1>2, <1>4, <2>4, <3>1, <4>1, <4>3
    <3>2. CASE i = l + 1
      <4>1. f \notin T
        OBVIOUS
      <4> QED BY <1>2, <1>7, <1>9, <2>0, <3>2, <4>1
    <3> QED BY <1>5, <3>1, <3>2
  <2>5. NetBelow(u, f + 1) /\ NetClosed(u, t)
    BY <1>2, <2>1, <2>2 DEF NetBelow, NetClosed
  <2>6. NetWhole(u, f + 1, t) /\ NetFirst(u, t, U)
    BY <1>2, <2>3, <2>4 DEF NetWhole, NetFirst
  <2>7. Net(u, f + 1, t, U)
    BY <2>5, <2>6 DEF Net
  <2> QED BY <1>1, <1>9, <2>0, <2>7
<1> QED BY <1>1, <1>8, <1>9

(* The peer receives the first k.                                          *)
LEMMA NetReceived ==
  ASSUME NEW s \in Seq(Messages), NEW f \in Nat, NEW t \in Nat, NEW T, NEW k \in 1 .. Len(s),
         t <= f, \A i \in DOMAIN s : Number(s[i]) \in Nat, Net(s, f, t, T)
  PROVE  \E u \in Nat :
           /\ t <= u /\ u <= f
           /\ Net(SubSeq(s, k + 1, Len(s)), f, u, T)
           /\ Reached(s, k, t, u, T)
<1>1. PICK l : l = Len(s)
  OBVIOUS
<1>2. l \in Nat /\ DOMAIN s = 1 .. l /\ k \in Nat /\ k >= 1 /\ k <= l
  BY <1>1
<1>3. PICK N : N = [i \in 1 .. l |-> Number(s[i])]
  OBVIOUS
<1>4. /\ \A i \in 1 .. l : N[i] \in Nat /\ Number(s[i]) = N[i]
      /\ \A i \in 1 .. l : N[i] < f
      /\ \A i \in 1 .. l : \A n \in Nat : t <= n /\ n < N[i] => \E j \in 1 .. l : j < i /\ N[j] = n
      /\ \A n \in Nat : t <= n /\ n < f => \E i \in 1 .. l : N[i] = n
      /\ \A i \in 1 .. l : t <= N[i] /\ (\A j \in 1 .. l : j < i => N[j] # N[i]) =>
           (s[i].content.type = "text" <=> N[i] \in T)
  <2>1. \A i \in 1 .. l : N[i] \in Nat /\ Number(s[i]) = N[i]
    BY <1>2, <1>3
  <2>2. \A i \in 1 .. l : N[i] < f
    BY <1>2, <2>1 DEF Net, NetBelow
  <2>3. \A i \in 1 .. l : \A n \in Nat : t <= n /\ n < N[i] => \E j \in 1 .. l : j < i /\ N[j] = n
    <3> SUFFICES ASSUME NEW i \in 1 .. l, NEW n \in Nat, t <= n, n < N[i]
                 PROVE  \E j \in 1 .. l : j < i /\ N[j] = n
      OBVIOUS
    <3>1. n < Number(s[i]) /\ i \in DOMAIN s
      BY <1>2, <2>1
    <3>2. PICK j \in DOMAIN s : j < i /\ Number(s[j]) = n
      BY <3>1 DEF Net, NetClosed
    <3> QED BY <1>2, <2>1, <3>2
  <2>4. \A n \in Nat : t <= n /\ n < f => \E i \in 1 .. l : N[i] = n
    BY <1>2, <2>1 DEF Net, NetWhole
  <2>5. \A i \in 1 .. l : t <= N[i] /\ (\A j \in 1 .. l : j < i => N[j] # N[i]) =>
           (s[i].content.type = "text" <=> N[i] \in T)
    BY <1>2, <2>1 DEF Net, NetFirst
  <2> QED BY <2>1, <2>2, <2>3, <2>4, <2>5
<1> DEFINE M == {t - 1} \cup {N[i] : i \in 1 .. k}
<1>5. 1 .. k \subseteq 1 .. l
  BY <1>2
<1>6. M \subseteq Int /\ M # {} /\ \A x \in M : x <= f
  <2>1. \A i \in 1 .. k : N[i] \in Nat /\ N[i] < f
    BY <1>4, <1>5
  <2>2. ASSUME NEW x \in M PROVE x \in Int /\ x <= f
    <3>1. x = t - 1 \/ \E i \in 1 .. k : x = N[i]
      BY ONLY <2>2
    <3> QED BY ONLY <2>1, <3>1, f \in Nat, t \in Nat, t <= f
  <2> QED BY ONLY <2>2
<1>7. Max(M) \in M /\ \A x \in M : Max(M) >= x
  <2>1. f \in Int
    OBVIOUS
  <2> HIDE DEF M
  <2> QED BY ONLY <1>6, <2>1, BoundedMax
<1>8. PICK u : u = Max(M) + 1
  OBVIOUS
<1>9. /\ u \in Nat /\ t <= u /\ u <= f
      /\ \A i \in 1 .. k : N[i] < u
      /\ u = t \/ \E i \in 1 .. k : N[i] = u - 1
  <2>1. PICK x \in M : x = Max(M)
    BY <1>7
  <2>2. x \in Int /\ u = x + 1 /\ t - 1 <= x /\ \A i \in 1 .. k : N[i] <= x
    BY <1>6, <1>7, <1>8, <2>1
  <2>3. x = t - 1 \/ \E i \in 1 .. k : N[i] = x
    OBVIOUS
  <2> HIDE DEF M
  <2>4. x < f
    BY <1>4, <1>5, <2>2, <2>3
  <2> QED BY <1>4, <1>5, <2>2, <2>3, <2>4
<1> HIDE DEF M
<1>10. ASSUME NEW n \in Nat, t <= n, n < u PROVE \E i \in 1 .. k : N[i] = n
  <2>1. PICK i \in 1 .. k : N[i] = u - 1
    BY <1>9, <1>10
  <2>2. CASE n = u - 1
    BY <2>1, <2>2
  <2>3. CASE n < u - 1
    <3>1. PICK j \in 1 .. l : j < i /\ N[j] = n
      BY <1>4, <1>5, <1>10, <2>1, <2>3
    <3>2. j \in 1 .. k
      BY <3>1
    <3> QED BY <3>1, <3>2
  <2> QED BY <1>9, <1>10, <2>2, <2>3
<1>11. PICK r : r = SubSeq(s, k + 1, Len(s))
  OBVIOUS
<1>12. DOMAIN r = 1 .. l - k /\ \A i \in 1 .. l - k : r[i] = s[i + k]
  BY <1>1, <1>2, <1>11
<1>13. \A i \in 1 .. l - k : i + k \in 1 .. l /\ Number(r[i]) = N[i + k]
  BY <1>2, <1>4, <1>12
<1>14. ASSUME NEW j \in 1 .. l, N[j] >= u PROVE j - k \in 1 .. l - k /\ (j - k) + k = j
  <2>1. j \notin 1 .. k
    BY <1>4, <1>9, <1>14
  <2> QED BY <1>2, <2>1
<1>15. \A i \in 1 .. l - k : Number(r[i]) < f
  BY <1>4, <1>13
<1>16. ASSUME NEW i \in 1 .. l - k, NEW n \in Nat, u <= n, n < Number(r[i])
       PROVE  \E j \in 1 .. l - k : j < i /\ Number(r[j]) = n
  <2>1. t <= n
    BY <1>9, <1>16
  <2>2. PICK j \in 1 .. l : j < i + k /\ N[j] = n
    BY <1>4, <1>13, <1>16, <2>1
  <2>3. j - k \in 1 .. l - k /\ (j - k) + k = j
    BY <1>14, <1>16, <2>2
  <2>4. j - k < i
    BY <1>2, <2>2, <2>3
  <2> QED BY <1>13, <2>2, <2>3, <2>4
<1>17. ASSUME NEW n \in Nat, u <= n, n < f PROVE \E i \in 1 .. l - k : Number(r[i]) = n
  <2>0. t <= n
    BY <1>9, <1>17
  <2>1. PICK j \in 1 .. l : N[j] = n
    BY ONLY <1>4, <1>17, <2>0
  <2>2. j - k \in 1 .. l - k /\ (j - k) + k = j
    BY <1>14, <1>17, <2>1
  <2> QED BY <1>13, <2>1, <2>2
<1>18. ASSUME NEW i \in 1 .. l - k, u <= Number(r[i]),
              \A j \in 1 .. l - k : j < i => Number(r[j]) # Number(r[i])
       PROVE  r[i].content.type = "text" <=> Number(r[i]) \in T
  <2>1. i + k \in 1 .. l /\ Number(r[i]) = N[i + k] /\ r[i] = s[i + k]
    BY <1>12, <1>13
  <2>2. t <= N[i + k]
    BY <1>4, <1>9, <1>18, <2>1
  <2>3. ASSUME NEW j \in 1 .. l, j < i + k, N[j] = N[i + k] PROVE FALSE
    <3>1. N[j] >= u
      BY <1>18, <2>1, <2>3
    <3>2. j - k \in 1 .. l - k /\ (j - k) + k = j
      BY <1>14, <3>1
    <3>3. j - k < i
      BY <1>2, <2>3, <3>2
    <3>4. Number(r[j - k]) = N[j]
      BY <1>13, <3>2
    <3> QED BY <1>18, <2>1, <2>3, <3>2, <3>3, <3>4
  <2> QED BY <1>4, <2>1, <2>2, <2>3
<1>19. Net(r, f, u, T)
  <2>1. NetBelow(r, f) /\ NetClosed(r, u)
    BY <1>12, <1>15, <1>16 DEF NetBelow, NetClosed
  <2>2. NetWhole(r, f, u) /\ NetFirst(r, u, T)
    BY <1>12, <1>17, <1>18 DEF NetWhole, NetFirst
  <2> QED BY <2>1, <2>2 DEF Net
<1>20. \A i \in 1 .. k : Number(s[i]) < u
  BY <1>4, <1>5, <1>9
<1>21. \A n \in Nat : t <= n /\ n < u => \E i \in 1 .. k : Number(s[i]) = n
  BY <1>4, <1>5, <1>10
<1>22. Net(SubSeq(s, k + 1, Len(s)), f, u, T)
  BY <1>11, <1>19
<1>23. ASSUME NEW i \in 1 .. k, t <= Number(s[i]),
              \A j \in 1 .. k : j < i => Number(s[j]) # Number(s[i])
       PROVE  s[i].content.type = "text" <=> Number(s[i]) \in T
  <2>1. i \in 1 .. l /\ \A j \in 1 .. l : j < i => j \in 1 .. k
    BY <1>2
  <2> QED BY <1>4, <1>23, <2>1
<1>24. \A i \in 1 .. k : Number(s[i]) \in Nat
  BY <1>2
<1>25. Reached(s, k, t, u, T)
  BY <1>20, <1>21, <1>23, <1>24 DEF Reached
<1> QED BY <1>9, <1>22, <1>25

(* Without a gap the number expected is the one after the last.            *)
LEMMA EndsWhole ==
  ASSUME NEW rows, IsFiniteSet(rows), \A r \in rows : r.seq \in Nat,
         NEW next \in Nat, NEW u \in Nat, next <= u,
         \A r \in rows : r.seq < u, FromTo(next, u, Seqs(rows))
  PROVE  NextExpected(rows, next) = u
<1>1. PICK n : n = NextExpected(rows, next)
  OBVIOUS
<1>2. n \in Nat /\ n >= next /\ n \notin Seqs(rows) /\ next .. n - 1 \subseteq Seqs(rows)
  BY <1>1, NextThere
<1>3. u \notin Seqs(rows)
  <2> SUFFICES ASSUME u \in Seqs(rows) PROVE FALSE
    OBVIOUS
  <2>1. PICK r \in rows : r.seq = u
    BY DEF Seqs
  <2>2. u < u
    BY <2>1
  <2> QED BY <2>2
<1>4. ~(n < u)
  BY <1>2 DEF FromTo
<1>5. ~(u < n)
  <2> SUFFICES ASSUME u < n PROVE FALSE
    OBVIOUS
  <2>1. u \in next .. n - 1
    BY <1>2
  <2> QED BY <1>2, <1>3, <2>1
<1> QED BY <1>1, <1>2, <1>4, <1>5

(* Rows that come are numbered on from the last id.                        *)
LEMMA WhenceGrows ==
  ASSUME NEW rows, NEW new, NEW s, NEW k \in Nat, NEW last \in Nat,
         NEW t \in Nat, NEW u \in Nat, NEW e \in Nat, NEW T, t <= u,
         \A r \in rows : r.seq \in Nat /\ r.id \in Nat /\ r.id <= last,
         MadeOf(new, s, k, last), Reached(s, k, t, u, T),
         Whence(rows, t, T, e)
  PROVE  Whence(rows \cup new, u, T, e)
<1> USE DEF MadeOf, Reached
<1>1. \A r \in rows : r.seq < t
  BY DEF Whence
<1>2. \A r \in rows \cup new : r.seq < u
  <2>1. ASSUME NEW r \in rows PROVE r.seq < u
    BY <1>1
  <2>2. ASSUME NEW r \in new PROVE r.seq < u
    OBVIOUS
  <2> QED BY <2>1, <2>2
<1>3. FromTo(e, u, Seqs(rows \cup new))
  <2> SUFFICES ASSUME NEW n \in Nat, e <= n, n < u PROVE \E r \in rows \cup new : r.seq = n
    BY DEF FromTo, Seqs
  <2>1. CASE n < t
    <3>1. n \in Seqs(rows)
      BY <2>1 DEF Whence, FromTo
    <3> QED BY <3>1 DEF Seqs
  <2>2. CASE t <= n
    <3>1. PICK i \in 1 .. k : Number(s[i]) = n
      BY <2>2
    <3> QED BY <3>1
  <2> QED BY <2>1, <2>2
<1>4. ASSUME NEW r \in rows \cup new, r.seq >= e, \A x \in rows \cup new : x.seq = r.seq => r.id <= x.id
      PROVE  r.content.type = "text" <=> r.seq \in T
  <2>1. CASE r.seq < t
    <3>1. r.seq \in Nat
      <4>1. CASE r \in rows
        BY <4>1
      <4>2. CASE r \in new
        BY <4>2
      <4> QED BY <4>1, <4>2
    <3>2. r.seq \in Seqs(rows)
      BY <1>4, <2>1, <3>1 DEF Whence, FromTo
    <3>3. PICK x \in rows : x.seq = r.seq
      BY <3>2 DEF Seqs
    <3>4. r.id <= x.id /\ x.id <= last /\ x.id \in Nat
      BY <1>4, <3>3
    <3>5. r \in rows
      <4> SUFFICES ASSUME r \in new PROVE FALSE
        OBVIOUS
      <4>1. PICK i \in 1 .. k : r.id = last + i
        OBVIOUS
      <4>2. last + i <= last
        BY <3>4, <4>1
      <4> QED BY <4>2
    <3> QED BY <1>4, <3>5 DEF Whence, FirstIs
  <2>2. CASE ~(r.seq < t)
    <3>1. r \in new
      BY <1>1, <2>2
    <3>2. PICK i \in 1 .. k : r.id = last + i /\ r.seq = Number(s[i]) /\ r.content = s[i].content
      BY <3>1
    <3>3. ASSUME NEW j \in 1 .. k, j < i, Number(s[j]) = Number(s[i]) PROVE FALSE
      <4>1. PICK x \in new : x.id = last + j /\ x.seq = Number(s[j])
        OBVIOUS
      <4>2. last + i <= last + j
        BY <1>4, <3>2, <3>3, <4>1
      <4> QED BY <3>3, <4>2
    <3>4. t <= Number(s[i])
      BY <2>2, <3>2
    <3>5. s[i].content.type = "text" <=> Number(s[i]) \in T
      BY <3>3, <3>4
    <3> QED BY <3>2, <3>5
  <2> QED BY <2>1, <2>2
<1>5. FirstIs(rows \cup new, T, e)
  BY <1>4 DEF FirstIs
<1> QED BY <1>2, <1>3, <1>5 DEF Whence

(* What the wire brings has the bits of the peer.                          *)
LEMMA SoundGenuine ==
  ASSUME NEW q \in Peers, NEW m, MessageSound(Other(q), m)
  PROVE  Genuine(q, m) /\ Number(m) \in Nat
<1>1. PICK n \in Nat, x \in Told(Other(q)) :
        m.seqOut = Wire(n, Other(q) = Creator) /\ m.seqIn = Wire(x, Other(q) # Creator)
  BY DEF MessageSound
<1>2. (Other(q) = Creator) = (q # Creator) /\ (Other(q) # Creator) = (q = Creator)
  BY OtherEnd, PeersAssumption
<1>3. ASSUME NEW k \in Int, NEW b PROVE Wire(k, b) % 2 = Bit(b)
  <2>1. Bit(b) \in {0, 1}
    BY DEF Bit
  <2>2. \A c \in {0, 1} : (k * 2 + c) % 2 = c
    OBVIOUS
  <2> QED BY <2>1, <2>2 DEF Wire
<1>4. x \in Int
  BY <1>1 DEF Told
<1>5. m.seqOut = Wire(n, q # Creator) /\ m.seqIn = Wire(x, q = Creator)
  BY <1>1, <1>2
<1>6. Genuine(q, m)
  BY <1>3, <1>4, <1>5 DEF Genuine
<1>7. Number(m) = n
  BY <1>5, Halves DEF Number
<1> QED BY <1>6, <1>7

LEMMA InTurnRest ==
  ASSUME NEW S, NEW s \in Seq(S), s # <<>>, InTurn(s)
  PROVE  InTurn(Tail(s))
<1>1. PICK r, l : r = Tail(s) /\ l = Len(s)
  OBVIOUS
<1>2. l \in Nat /\ DOMAIN s = 1 .. l /\ DOMAIN r = 1 .. l - 1 /\ \A i \in 1 .. l - 1 : r[i] = s[i + 1]
  BY <1>1
<1>3. ASSUME NEW i \in 1 .. l - 1, NEW j \in 1 .. l - 1, i < j, Snapshot(r[i]), Snapshot(r[j])
      PROVE  End(r[i]) <= End(r[j])
  <2>1. i + 1 \in 1 .. l /\ j + 1 \in 1 .. l /\ i + 1 < j + 1
    BY <1>2, <1>3
  <2>2. r[i] = s[i + 1] /\ r[j] = s[j + 1]
    BY <1>2
  <2>3. End(s[i + 1]) <= End(s[j + 1])
    BY <1>2, <1>3, <2>1, <2>2 DEF InTurn
  <2> QED BY <2>2, <2>3
<1> QED BY <1>1, <1>2, <1>3 DEF InTurn

LEMMA InTurnMore ==
  ASSUME NEW S, NEW s \in Seq(S), NEW b, InTurn(s),
         Snapshot(b) => \A i \in DOMAIN s : Snapshot(s[i]) => End(s[i]) <= End(b)
  PROVE  InTurn(Append(s, b))
<1>1. PICK r, l : r = Append(s, b) /\ l = Len(s)
  OBVIOUS
<1>2. /\ l \in Nat /\ DOMAIN s = 1 .. l /\ DOMAIN r = 1 .. l + 1
      /\ (\A i \in 1 .. l : r[i] = s[i]) /\ r[l + 1] = b
  BY <1>1
<1>3. ASSUME NEW i \in 1 .. l + 1, NEW j \in 1 .. l + 1, i < j, Snapshot(r[i]), Snapshot(r[j])
      PROVE  End(r[i]) <= End(r[j])
  <2>1. i \in 1 .. l
    BY <1>2, <1>3
  <2>2. CASE j \in 1 .. l
    BY <1>2, <1>3, <2>1, <2>2 DEF InTurn
  <2>3. CASE j = l + 1
    BY <1>2, <1>3, <2>1, <2>3
  <2> QED BY <1>2, <2>2, <2>3
<1> QED BY <1>1, <1>2, <1>3 DEF InTurn

LEMMA StageFlowRest ==
  ASSUME NEW s \in Seq(TypedBlocks), s # <<>>, NEW rows, NEW last, NEW t, NEW T, NEW e,
         StageFlow(s, rows, last, t, T, e)
  PROVE  StageFlow(Tail(s), rows, last, t, T, e)
<1>1. InTurn(Tail(s))
  BY InTurnRest DEF StageFlow
<1>2. ASSUME NEW i \in DOMAIN Tail(s), Snapshot(Tail(s)[i])
      PROVE  SnapshotFlow(Tail(s)[i], rows, last, t, T, e)
  <2>1. i + 1 \in DOMAIN s /\ Tail(s)[i] = s[i + 1]
    OBVIOUS
  <2> QED BY <1>2, <2>1 DEF StageFlow
<1> QED BY <1>1, <1>2 DEF StageFlow

LEMMA StageFlowMore ==
  ASSUME NEW s \in Seq(TypedBlocks), NEW b, NEW rows, NEW last, NEW t, NEW T, NEW e,
         StageFlow(s, rows, last, t, T, e),
         Snapshot(b) => /\ SnapshotFlow(b, rows, last, t, T, e)
                        /\ \A i \in DOMAIN s : Snapshot(s[i]) => End(s[i]) <= End(b)
  PROVE  StageFlow(Append(s, b), rows, last, t, T, e)
<1>1. InTurn(Append(s, b))
  BY InTurnMore DEF StageFlow
<1>2. ASSUME NEW i \in DOMAIN Append(s, b), Snapshot(Append(s, b)[i])
      PROVE  SnapshotFlow(Append(s, b)[i], rows, last, t, T, e)
  <2>1. CASE i \in DOMAIN s
    <3>1. Append(s, b)[i] = s[i]
      BY <2>1
    <3> QED BY <1>2, <2>1, <3>1 DEF StageFlow
  <2>2. CASE i = Len(s) + 1
    <3>1. Append(s, b)[i] = b
      BY <2>2
    <3> QED BY <1>2, <3>1
  <2>3. i \in DOMAIN s \/ i = Len(s) + 1
    OBVIOUS
  <2> QED BY <2>1, <2>2, <2>3
<1> QED BY <1>1, <1>2 DEF StageFlow

LEMMA PendingRest ==
  ASSUME NEW S, NEW s \in Seq(S), s # <<>>, NEW type
  PROVE  Pending(Tail(s), type) => Pending(s, type)
<1> SUFFICES ASSUME Pending(Tail(s), type) PROVE Pending(s, type)
  OBVIOUS
<1>1. PICK i \in DOMAIN Tail(s) : Tail(s)[i].type = type
  BY DEF Pending
<1>2. i + 1 \in DOMAIN s /\ Tail(s)[i] = s[i + 1]
  OBVIOUS
<1> QED BY <1>1, <1>2 DEF Pending

LEMMA PendingStill ==
  ASSUME NEW S, NEW s \in Seq(S), s # <<>>, NEW type, Head(s).type # type, Pending(s, type)
  PROVE  Pending(Tail(s), type)
<1>1. PICK i \in DOMAIN s : s[i].type = type
  BY DEF Pending
<1>2. i # 1
  BY <1>1
<1>3. i - 1 \in DOMAIN Tail(s) /\ Tail(s)[i - 1] = s[i]
  BY <1>2
<1> QED BY <1>1, <1>3 DEF Pending

LEMMA WritesFlowRest ==
  ASSUME NEW s \in Seq(TypedQueries), s # <<>>, NEW n, NEW m, NEW rows, NEW R, NEW T, NEW e, NEW a,
         WritesFlow(s, n, rows, T, e, a), R \subseteq rows,
         m = IF Head(s).type = "seqIn" THEN Head(s).seq ELSE n
  PROVE  WritesFlow(Tail(s), m, R, T, e, a)
<1>1. ASSUME NEW i \in DOMAIN Tail(s) PROVE WriteFlow(Tail(s)[i], R, T, e, a)
  <2>1. i + 1 \in DOMAIN s /\ Tail(s)[i] = s[i + 1]
    OBVIOUS
  <2>2. WriteFlow(s[i + 1], rows, T, e, a)
    BY <2>1 DEF WritesFlow
  <2> QED BY <2>1, <2>2 DEF WriteFlow
<1>2. CASE Head(s).type = "seqIn"
  <2>1. 1 \in DOMAIN s /\ Head(s) = s[1]
    OBVIOUS
  <2>2. m = e
    BY <1>2, <2>1 DEF WritesFlow, WriteFlow
  <2> QED BY <1>1, <2>2 DEF WritesFlow
<1>3. CASE Head(s).type # "seqIn"
  <2>1. Pending(s, "seqIn") => Pending(Tail(s), "seqIn")
    BY <1>3, PendingStill
  <2> QED BY <1>1, <1>3, <2>1 DEF WritesFlow
<1> QED BY <1>2, <1>3

LEMMA ConversationRest ==
  ASSUME NEW s \in Seq(TypedQueries), s # <<>>, Head(s).type # "add",
         NEW c, NEW T, NEW e, NEW a, Conversation(c, s, T, e, a)
  PROVE  Conversation(c, Tail(s), T, e, a)
<1>1. Pending(s, "add") => Pending(Tail(s), "add")
  BY PendingStill
<1> QED BY <1>1 DEF Conversation

LEMMA ConversationAdds ==
  ASSUME NEW c \in Seq(Int), NEW s, NEW r, NEW T, NEW e, NEW a, Conversation(c, s, T, e, a)
  PROVE  Conversation(c \o Without(a, ToSet(c)), r, T, e, a)
<1>1. PICK w : w = Without(a, ToSet(c))
  OBVIOUS
<1>2. a \in Seq(Int) /\ Rising(a) /\ Rising(c)
  BY DEF Conversation
<1>3. w \in Seq(Int) /\ Rising(w) /\ ToSet(w) = ToSet(a) \ ToSet(c)
  BY <1>1, <1>2, WithoutList, WithoutRises
<1>4. \A m \in ToSet(c), n \in ToSet(w) : m < n
  BY <1>3 DEF Conversation
<1>5. Rising(c \o w) /\ ToSet(c \o w) = ToSet(c) \cup ToSet(w)
  BY <1>2, <1>3, <1>4, RisingConcat
<1>6. ToSet(c \o w) = ToSet(c) \cup ToSet(a)
  BY <1>3, <1>5
<1>7. PICK d : d = c \o w
  OBVIOUS
<1>8. Rising(d) /\ ToSet(d) = ToSet(c) \cup ToSet(a)
  BY <1>5, <1>6, <1>7
<1>9. Conversation(d, r, T, e, a)
  BY <1>2, <1>8 DEF Conversation
<1> QED BY <1>1, <1>7, <1>9

LEMMA ConversationRemoves ==
  ASSUME NEW c \in Seq(Int), NEW s, NEW T, NEW e, NEW a, Conversation(c, s, T, e, a),
         NEW S, S \cap T = {}
  PROVE  Conversation(Without(c, S), s, T, e, a)
<1>1. PICK d : d = Without(c, S)
  OBVIOUS
<1>2. Rising(d) /\ ToSet(d) = ToSet(c) \ S
  BY <1>1, WithoutRises DEF Conversation
<1>3. ToSet(d) = ToSet(c)
  BY <1>2 DEF Conversation
<1>4. Conversation(d, s, T, e, a)
  BY <1>2, <1>3 DEF Conversation
<1> QED BY <1>1, <1>4

(* Rows that are deleted were processed.                                   *)
LEMMA WhenceLess ==
  ASSUME NEW rows, NEW R, NEW t, NEW T, NEW e, Whence(rows, t, T, e), R \subseteq rows,
         \A r \in rows : r.seq \in Nat, e \in Nat, \A r \in rows : r \notin R => r.seq < e
  PROVE  Whence(R, t, T, e)
<1>1. \A r \in R : r.seq < t
  BY DEF Whence
<1>2. FromTo(e, t, Seqs(R))
  <2> SUFFICES ASSUME NEW n \in Nat, e <= n, n < t PROVE n \in Seqs(R)
    BY DEF FromTo
  <2>1. n \in Seqs(rows)
    BY DEF Whence, FromTo
  <2>2. PICK r \in rows : r.seq = n
    BY <2>1 DEF Seqs
  <2>3. r \in R
    BY <2>2
  <2> QED BY <2>2, <2>3 DEF Seqs
<1>3. FirstIs(R, T, e)
  <2> SUFFICES ASSUME NEW r \in R, r.seq >= e, \A x \in R : x.seq = r.seq => r.id <= x.id
               PROVE  r.content.type = "text" <=> r.seq \in T
    BY DEF FirstIs
  <2>1. \A x \in rows : x.seq = r.seq => x \in R
    OBVIOUS
  <2> QED BY <2>1 DEF Whence, FirstIs
<1> QED BY <1>1, <1>2, <1>3 DEF Whence

(* Later numbers are described alike.                                      *)
LEMMA WhenceLater ==
  ASSUME NEW rows, NEW t, NEW T, NEW e \in Nat, NEW n \in Nat, e <= n,
         \A r \in rows : r.seq \in Nat, Whence(rows, t, T, e)
  PROVE  Whence(rows, t, T, n)
<1>1. FromTo(n, t, Seqs(rows))
  BY DEF Whence, FromTo
<1>2. FirstIs(rows, T, n)
  BY DEF Whence, FirstIs
<1> QED BY <1>1, <1>2 DEF Whence

LEMMA PendingConcat ==
  ASSUME NEW S, NEW s \in Seq(S), NEW t \in Seq(S), NEW type
  PROVE  Pending(s, type) \/ Pending(t, type) => Pending(s \o t, type)
<1>1. ASSUME NEW i \in DOMAIN s, s[i].type = type PROVE Pending(s \o t, type)
  <2>1. i \in DOMAIN (s \o t) /\ (s \o t)[i] = s[i]
    OBVIOUS
  <2> QED BY <1>1, <2>1 DEF Pending
<1>2. ASSUME NEW i \in DOMAIN t, t[i].type = type PROVE Pending(s \o t, type)
  <2>1. Len(s) + i \in DOMAIN (s \o t) /\ (s \o t)[Len(s) + i] = t[i]
    OBVIOUS
  <2> QED BY <1>2, <2>1 DEF Pending
<1> QED BY <1>1, <1>2 DEF Pending

(* What a block may post, from the rows it processes.                      *)
TextsOf(rows, next) ==
  Seqs(OfType(ToProcess(rows, next), "text")) \ Seqs(OfType(ToProcess(rows, next), "deletion"))
Made(rows, next, x) ==
  \/ x.type = "delete" /\ x.ids = {r.id : r \in rows \ Kept(rows, next)}
  \/ x.type = "seqIn" /\ x.seq = NextExpected(rows, next)
  \/ x.type = "confirm"
  \/ x.type = "resend" /\ OfType(ToProcess(rows, next), "resend") # {}
  \/ x.type = "add" /\ x.seqs = Ascending(TextsOf(rows, next))
  \/ x.type = "remove" /\ x.seqs = Seqs(OfType(ToProcess(rows, next), "deletion"))

LEMMA BlockPosts ==
  ASSUME NEW rows, NEW next, IsFiniteSet(rows)
  PROVE  /\ \E S : BlockWrites(rows, next) \in Seq(S) /\ \A x \in S : Made(rows, next, x)
         /\ Pending(BlockWrites(rows, next), "seqIn")
         /\ Ascending(TextsOf(rows, next)) # <<>> => Pending(BlockWrites(rows, next), "add")
<1> DEFINE process == ToProcess(rows, next)
           asked   == Sorted(OfType(process, "resend"))
           deleted == Seqs(OfType(process, "deletion"))
           texts   == Ascending(Seqs(OfType(process, "text")) \ deleted)
           d == [type |-> "delete", ids |-> {r.id : r \in rows \ Kept(rows, next)}]
           n == [type |-> "seqIn", seq |-> NextExpected(rows, next)]
           ask(i) == [type |-> "resend", from |-> Halved(asked[i].content.from),
                      to |-> Halved(asked[i].content.to)]
           resent == [i \in DOMAIN asked |-> ask(i)]
           c == [type |-> "confirm", seq |-> MaxSeqIn(rows, next) - 1]
           ad == [type |-> "add", seqs |-> texts]
           rm == [type |-> "remove", seqs |-> deleted]
           added == IF texts # <<>> THEN <<ad>> ELSE <<>>
           removed == IF deleted # {} THEN <<rm>> ELSE <<>>
<1>1. BlockWrites(rows, next) =
        <<d, n>> \o Confirms(rows, next) \o resent \o added \o removed
  BY DEF BlockWrites
<1>2. Made(rows, next, d) /\ Made(rows, next, n) /\ Made(rows, next, c)
  BY DEF Made
<1>3. Made(rows, next, ad) /\ Made(rows, next, rm)
  BY DEF Made, TextsOf
<1>4. \E R : resent \in Seq(R) /\ \A x \in R : Made(rows, next, x)
  <2>1. OfType(process, "resend") \in SUBSET rows
    BY DEF OfType, ToProcess, InSequence, EarlyResends, TooEarly
  <2>2. IsFiniteSet(OfType(process, "resend"))
    BY <2>1, FS_Subset
  <2>3. /\ Cardinality(OfType(process, "resend")) \in Nat
        /\ DOMAIN asked = 1 .. Cardinality(OfType(process, "resend"))
    BY <2>2, SortedSeq
  <2>4. PICK k \in Nat : DOMAIN asked = 1 .. k /\ (k # 0 => OfType(process, "resend") # {})
    BY <2>3, FS_EmptySet
  <2>5. PICK R : R = {ask(i) : i \in 1 .. k}
    OBVIOUS
  <2>6. \A x \in R : x.type = "resend" /\ k # 0
    BY <2>4, <2>5
  <2>7. \A x \in R : Made(rows, next, x)
    BY <2>4, <2>6 DEF Made
  <2>8. \A i \in 1 .. k : ask(i) \in R
    BY <2>5
  <2> HIDE DEF ask, asked, process
  <2>9. resent \in Seq(R)
    BY <2>4, <2>8
  <2> HIDE DEF resent
  <2> QED BY <2>7, <2>9
<1>5. PICK R : resent \in Seq(R) /\ \A x \in R : Made(rows, next, x)
  BY <1>4
<1>6. PICK S : S = {d, n, c, ad, rm} \cup R
  OBVIOUS
<1>7. \A x \in S : Made(rows, next, x)
  BY <1>2, <1>3, <1>5, <1>6
<1>8. n.type = "seqIn" /\ ad.type = "add"
  OBVIOUS
<1>9. TextsOf(rows, next) = Seqs(OfType(process, "text")) \ deleted
  BY DEF TextsOf
<1>10. Ascending(TextsOf(rows, next)) # <<>> => added = <<ad>>
  BY <1>9
<1>11. Confirms(rows, next) \in {<<c>>, <<>>} /\ added \in {<<ad>>, <<>>} /\ removed \in {<<rm>>, <<>>}
  BY DEF Confirms
<1> HIDE DEF d, n, c, ad, rm, resent, added, removed
<1>12. <<d, n>> \in Seq(S) /\ Confirms(rows, next) \in Seq(S) /\ added \in Seq(S) /\ removed \in Seq(S)
  <2>1. d \in S /\ n \in S /\ c \in S /\ ad \in S /\ rm \in S
    BY <1>6
  <2>2. <<d, n>> \in Seq(S) /\ <<c>> \in Seq(S) /\ <<ad>> \in Seq(S) /\ <<rm>> \in Seq(S)
    BY <2>1
  <2>3. <<>> \in Seq(S)
    OBVIOUS
  <2> QED BY <1>11, <2>2, <2>3, Zenon
<1>13. resent \in Seq(S)
  <2>1. R \subseteq S
    BY <1>6
  <2> QED BY <1>5, <2>1, SeqMonotonic
<1>14. PICK s1 : s1 = <<d, n>> \o Confirms(rows, next)
  OBVIOUS
<1>15. PICK s2 : s2 = s1 \o resent
  OBVIOUS
<1>16. PICK s3 : s3 = s2 \o added
  OBVIOUS
<1>17. s1 \in Seq(S)
  BY <1>12, <1>14, ConcatProperties
<1>18. s2 \in Seq(S)
  BY <1>13, <1>15, <1>17, ConcatProperties
<1>19. s3 \in Seq(S)
  BY <1>12, <1>16, <1>18, ConcatProperties
<1>20. BlockWrites(rows, next) = s3 \o removed
  BY <1>1, <1>14, <1>15, <1>16
<1>21. s3 \o removed \in Seq(S)
  BY <1>12, <1>19, ConcatProperties
<1>22. Pending(<<d, n>>, "seqIn")
  <2>1. 2 \in DOMAIN <<d, n>> /\ <<d, n>>[2] = n
    OBVIOUS
  <2> QED BY <1>8, <2>1 DEF Pending
<1>23. Pending(s3 \o removed, "seqIn")
  <2>1. Pending(s1, "seqIn")
    BY <1>12, <1>14, <1>22, PendingConcat
  <2>2. Pending(s2, "seqIn")
    BY <1>13, <1>15, <1>17, <2>1, PendingConcat
  <2>3. Pending(s3, "seqIn")
    BY <1>12, <1>16, <1>18, <2>2, PendingConcat
  <2> QED BY <1>12, <1>19, <2>3, PendingConcat
<1>24. ASSUME Ascending(TextsOf(rows, next)) # <<>> PROVE Pending(s3 \o removed, "add")
  <2>1. added = <<ad>>
    BY <1>10, <1>24
  <2>2. 1 \in DOMAIN <<ad>> /\ <<ad>>[1] = ad
    OBVIOUS
  <2>3. Pending(added, "add")
    BY <1>8, <2>1, <2>2 DEF Pending
  <2>4. Pending(s3, "add")
    BY <1>12, <1>16, <1>18, <2>3, PendingConcat
  <2> QED BY <1>12, <1>19, <2>4, PendingConcat
<1> QED BY <1>7, <1>20, <1>21, <1>23, <1>24

(* A block whose snapshot has no gap processes each number once, in its    *)
(* first form, and keeps nothing.                                          *)
LEMMA WholeBlock ==
  ASSUME NEW rows, NEW next \in Nat, NEW n, NEW T, IsFiniteSet(rows), OwnIds(rows),
         \A r \in rows : r.seq \in Nat /\ r.id \in Nat,
         n = NextExpected(rows, next), Whence(rows, n, T, next)
  PROVE  /\ n \in Nat /\ next <= n
         /\ Kept(rows, next) = {} /\ ToProcess(rows, next) = InSequence(rows, next)
         /\ TextsOf(rows, next) = {m \in T \cap Nat : next <= m /\ m < n}
         /\ \A m \in Seqs(OfType(ToProcess(rows, next), "deletion")) : m < n /\ m \notin T
         /\ IsFiniteSet(TextsOf(rows, next)) /\ TextsOf(rows, next) \subseteq Int
<1>1. n \in Nat /\ next <= n
  BY NextThere
<1>2. \A r \in rows : r.seq < n
  BY DEF Whence
<1>3. TooEarly(rows, next) = {}
  <2> SUFFICES ASSUME NEW r \in rows, r.seq > n PROVE FALSE
    BY DEF TooEarly
  <2>1. r.seq \in Nat /\ r.seq < n
    BY <1>2
  <2> QED BY <1>1, <2>1
<1>4. Kept(rows, next) = {} /\ EarlyResends(rows, next) = {}
  BY <1>3 DEF Kept, EarlyResends
<1>5. ToProcess(rows, next) = InSequence(rows, next)
  BY <1>4 DEF ToProcess
<1>6. PICK P : P = InSequence(rows, next)
  OBVIOUS
<1>7. \A r : r \in P <=> /\ r \in rows /\ next <= r.seq /\ r.seq < n
                         /\ \A x \in rows : x.seq = r.seq => r.id <= x.id
  <2>1. \A r \in rows : r.seq \in next .. n - 1 <=> (next <= r.seq /\ r.seq < n)
    BY <1>1
  <2> QED BY <1>6, <2>1 DEF InSequence
<1>8. \A r \in P : r.content.type = "text" <=> r.seq \in T
  BY <1>7 DEF Whence, FirstIs
<1>9. \A r, x \in P : r.seq = x.seq => r = x
  <2> SUFFICES ASSUME NEW r \in P, NEW x \in P, r.seq = x.seq PROVE r = x
    OBVIOUS
  <2>1. r \in rows /\ x \in rows /\ r.id <= x.id /\ x.id <= r.id
    BY <1>7
  <2>2. r.id = x.id
    BY <2>1
  <2> QED BY <2>1, <2>2 DEF OwnIds
<1>10. ASSUME NEW m \in Nat, next <= m, m < n PROVE \E r \in P : r.seq = m
  <2>1. m \in Seqs(rows)
    BY <1>10 DEF Whence, FromTo
  <2> DEFINE I == {r.id : r \in {x \in rows : x.seq = m}}
  <2>2. I \subseteq Nat /\ I # {}
    BY <2>1 DEF Seqs
  <2>3. PICK i \in I : \A j \in I : i <= j
    BY <2>2, NatMin
  <2>4. PICK r \in rows : r.seq = m /\ r.id = i
    OBVIOUS
  <2>5. \A x \in rows : x.seq = m => r.id <= x.id
    BY <2>3, <2>4
  <2>6. r \in P
    BY <1>7, <1>10, <2>4, <2>5
  <2> QED BY <2>4, <2>6
<1>11. PICK D : D = Seqs(OfType(P, "deletion"))
  OBVIOUS
<1>12. \A m \in D : m < n /\ m \notin T
  <2> SUFFICES ASSUME NEW m \in D PROVE m < n /\ m \notin T
    OBVIOUS
  <2>1. PICK r \in P : r.content.type = "deletion" /\ r.seq = m
    BY <1>11 DEF Seqs, OfType
  <2>2. r.content.type # "text"
    BY <2>1
  <2> QED BY <1>7, <1>8, <2>1, <2>2
<1>13. PICK X : X = Seqs(OfType(P, "text"))
  OBVIOUS
<1>14. \A m : m \in X <=> \E r \in P : r.content.type = "text" /\ r.seq = m
  BY <1>13 DEF Seqs, OfType
<1>15. X \ D = {m \in T \cap Nat : next <= m /\ m < n}
  <2>1. ASSUME NEW m \in X \ D PROVE m \in T /\ m \in Nat /\ next <= m /\ m < n
    <3>1. PICK r \in P : r.content.type = "text" /\ r.seq = m
      BY <1>14, <2>1
    <3> QED BY <1>7, <1>8, <3>1
  <2>2. ASSUME NEW m \in T \cap Nat, next <= m, m < n PROVE m \in X \ D
    <3>1. PICK r \in P : r.seq = m
      BY <1>10, <2>2
    <3>2. r.content.type = "text"
      BY <1>8, <3>1
    <3>3. m \notin D
      BY <1>12
    <3> QED BY <1>14, <3>1, <3>2, <3>3
  <2> QED BY <2>1, <2>2
<1>16. TextsOf(rows, next) = X \ D
  BY <1>5, <1>6, <1>11, <1>13 DEF TextsOf
<1>17. Seqs(OfType(ToProcess(rows, next), "deletion")) = D
  BY <1>5, <1>6, <1>11
<1>18. TextsOf(rows, next) \in SUBSET (next .. n)
  BY <1>1, <1>15, <1>16
<1>19. IsFiniteSet(next .. n)
  BY <1>1, FS_Interval
<1>20. IsFiniteSet(TextsOf(rows, next)) /\ TextsOf(rows, next) \subseteq Int
  <2>1. PICK Y, Z : Y = TextsOf(rows, next) /\ Z = next .. n
    OBVIOUS
  <2>2. IsFiniteSet(Z) /\ Y \in SUBSET Z
    BY <1>18, <1>19, <2>1
  <2>3. IsFiniteSet(Y)
    BY ONLY <2>2, FS_Subset
  <2> QED BY <1>1, <1>18, <2>1, <2>3
<1> QED BY <1>1, <1>4, <1>5, <1>12, <1>15, <1>16, <1>17, <1>20

(* What the types say of one client.                                       *)
LEMMA ClientFacts ==
  ASSUME TypeInv, NEW q \in Peers
  PROVE  /\ stage[q] \in Seq(TypedBlocks) /\ writes[q] \in Seq(TypedQueries)
         /\ network[q] \in Seq(Messages) /\ shown[q] \in Seq(Int)
         /\ seqIn[q] \in Nat /\ processed[q] \in Nat /\ lastId[q].incoming \in Nat
         /\ IsFiniteSet(incoming[q]) /\ OwnIds(incoming[q]) /\ incoming[q] \subseteq Rows
         /\ \A r \in incoming[q] : r.seq \in Nat /\ r.id \in Nat /\ r.id <= lastId[q].incoming
<1>1. Typed(q) /\ Sound(q) /\ Functions
  BY DEF TypeInv, Types, Inv
<1>2. RowsSound(q, incoming[q])
  BY <1>1 DEF Sound
<1>3. lastId[q].incoming \in Nat
  BY <1>1 DEF Typed
<1>4. \A r \in Rows : r.id \in Nat
  BY DEF Rows
<1> QED BY <1>1, <1>2, <1>3, <1>4 DEF Typed, RowsSound, Functions

LEMMA NetFacts ==
  ASSUME TypeInv, NEW q \in Peers, NEW i \in DOMAIN network[q]
  PROVE  Genuine(q, network[q][i]) /\ Number(network[q][i]) \in Nat
<1>1. PICK S : network[q] \in Seq(S) /\ \A m \in S : MessageSound(Other(q), m)
  BY DEF TypeInv, Inv, Sound, NetworkSound
<1>2. MessageSound(Other(q), network[q][i])
  BY <1>1
<1> QED BY <1>2, SoundGenuine

LEMMA BlockFacts ==
  ASSUME TypeInv, NEW q \in Peers, NEW i \in DOMAIN stage[q], Snapshot(stage[q][i])
  PROVE  LET b == stage[q][i] IN
         /\ b.rows \subseteq Rows /\ IsFiniteSet(b.rows) /\ OwnIds(b.rows) /\ b.next \in Nat
         /\ \A r \in b.rows : r.seq \in Nat /\ r.id \in Nat /\ r.seqIn \in Told(Other(q))
         /\ End(b) \in Nat /\ b.next <= End(b)
<1>1. PICK b : b = stage[q][i]
  OBVIOUS
<1>2. b \in TypedBlocks /\ b.type = "incoming"
  BY <1>1, ElementOfSeq DEF TypeInv, Types, Typed, Snapshot
<1>3. b.rows \subseteq Rows /\ b.next \in Nat /\ OwnIds(b.rows)
  BY <1>2, BlockTypes
<1>4. PICK S : stage[q] \in Seq(S) /\ \A x \in S : BlockSound(q, x)
  BY DEF TypeInv, Inv, Sound, StageSound
<1>5. BlockSound(q, b)
  BY <1>1, <1>4
<1>6. RowsSound(q, b.rows)
  BY <1>2, <1>5 DEF BlockSound
<1>7. \A r \in Rows : r.id \in Nat
  BY DEF Rows
<1>8. IsFiniteSet(b.rows) /\ \A r \in b.rows : r.seq \in Nat /\ r.seqIn \in Told(Other(q))
  BY <1>6 DEF RowsSound
<1>9. End(b) \in Nat /\ b.next <= End(b)
  BY <1>3, <1>8, NextThere DEF End
<1>10. \A r \in b.rows : r.id \in Nat
  BY <1>3, <1>7
<1> QED BY <1>1, <1>3, <1>8, <1>9, <1>10

LEMMA ReceiverStage ==
  ASSUME NEW q \in Peers, NEW t, NEW T, NEW e, NEW a, Receiver(q, t, T, e, a),
         seqIn'[q] = seqIn[q], processed'[q] = processed[q], incoming'[q] = incoming[q],
         lastId'[q].incoming = lastId[q].incoming, writes'[q] = writes[q], shown'[q] = shown[q],
         StageFlow(stage'[q], incoming[q], lastId[q].incoming, t, T, e)
  PROVE  Receiver(q, t, T, e, a)'
BY DEF Receiver

LEMMA ReceiverSame ==
  ASSUME NEW q \in Peers, NEW t, NEW T, NEW e, NEW a, Receiver(q, t, T, e, a),
         seqIn'[q] = seqIn[q], processed'[q] = processed[q], incoming'[q] = incoming[q],
         lastId'[q].incoming = lastId[q].incoming, writes'[q] = writes[q], shown'[q] = shown[q],
         stage'[q] = stage[q]
  PROVE  Receiver(q, t, T, e, a)'
BY DEF Receiver

LEMMA ReceiverIdle ==
  ASSUME NEW q \in Peers, NEW t, NEW T, NEW e, NEW a, Receiver(q, t, T, e, a), writes[q] = <<>>
  PROVE  seqIn[q] = e /\ \A n \in T : n < e => n \in ToSet(shown[q])
<1>1. \A type : ~Pending(<<>>, type)
  BY DEF Pending
<1> QED BY <1>1 DEF Receiver, WritesFlow, Conversation

(* A snapshot of a table without a gap.                                    *)
LEMMA SnapshotTaken ==
  ASSUME NEW rows, IsFiniteSet(rows), OwnIds(rows), NEW last, NEW t \in Nat, NEW T, NEW e \in Nat,
         \A r \in rows : r.seq \in Nat /\ r.id <= last,
         e <= t, Whence(rows, t, T, e)
  PROVE  /\ SnapshotFlow(IncomingBlock(rows, e), rows, last, t, T, e)
         /\ End(IncomingBlock(rows, e)) = t
<1>1. PICK b : b = IncomingBlock(rows, e)
  OBVIOUS
<1>2. b.rows = rows /\ b.next = e
  BY <1>1 DEF IncomingBlock
<1>3. End(b) = t
  BY <1>2, EndsWhole DEF End, Whence
<1>4. SnapshotFlow(b, rows, last, t, T, e)
  BY <1>2, <1>3 DEF SnapshotFlow, OwnIds
<1> QED BY <1>1, <1>3, <1>4

LEMMA StageGrows ==
  ASSUME TypeInv, NEW q \in Peers, NEW t \in Nat, NEW u \in Nat, NEW T, NEW e \in Nat, t <= u,
         NEW rows, NEW last \in Nat, NEW l \in Nat, l = lastId[q].incoming, l <= last,
         \A r \in rows : r.id \in Nat /\ (r \in incoming[q] \/ r.id > l),
         StageFlow(stage[q], incoming[q], l, t, T, e)
  PROVE  StageFlow(stage[q], rows, last, u, T, e)
<1>1. ASSUME NEW i \in DOMAIN stage[q], Snapshot(stage[q][i])
      PROVE  SnapshotFlow(stage[q][i], rows, last, u, T, e)
  <2>1. PICK b : b = stage[q][i]
    OBVIOUS
  <2>2. SnapshotFlow(b, incoming[q], l, t, T, e)
    BY <1>1, <2>1 DEF StageFlow
  <2>3. End(b) \in Nat /\ \A r \in b.rows : r.id \in Nat
    BY <1>1, <2>1, BlockFacts
  <2>4. End(b) <= u
    BY <2>2, <2>3 DEF SnapshotFlow
  <2>5. ASSUME NEW r \in b.rows PROVE r.id <= last /\ \A x \in rows : r.id = x.id => r = x
    <3>1. r.id <= l /\ r.id \in Nat
      BY <2>2, <2>3 DEF SnapshotFlow
    <3>2. ASSUME NEW x \in rows, r.id = x.id PROVE r = x
      <4>1. x \in incoming[q]
        BY <3>1, <3>2
      <4> QED BY <2>2, <3>2, <4>1 DEF SnapshotFlow
    <3> QED BY <3>1, <3>2
  <2>6. SnapshotFlow(b, rows, last, u, T, e)
    BY <2>2, <2>4, <2>5 DEF SnapshotFlow
  <2> QED BY <2>1, <2>6
<1> QED BY <1>1 DEF StageFlow

-----------------------------------------------------------------------------
(* A step of one client leaves the other one alone, its mail excepted.     *)

Still(y) ==
  /\ outgoing'[y] = outgoing[y] /\ stored'[y] = stored[y] /\ sentSeqOut'[y] = sentSeqOut[y]
  /\ seqIn'[y] = seqIn[y] /\ incoming'[y] = incoming[y] /\ resends'[y] = resends[y]
  /\ lastId'[y] = lastId[y] /\ shown'[y] = shown[y] /\ delivered'[y] = delivered[y]
  /\ executing'[y] = executing[y] /\ requests'[y] = requests[y] /\ waiting'[y] = waiting[y]
  /\ stage'[y] = stage[y] /\ writes'[y] = writes[y] /\ processed'[y] = processed[y]

AllDomains ==
  /\ DOMAIN outgoing = Peers /\ DOMAIN stored = Peers /\ DOMAIN sentSeqOut = Peers
  /\ DOMAIN seqIn = Peers /\ DOMAIN incoming = Peers /\ DOMAIN resends = Peers
  /\ DOMAIN lastId = Peers /\ DOMAIN shown = Peers /\ DOMAIN delivered = Peers
  /\ DOMAIN executing = Peers /\ DOMAIN requests = Peers /\ DOMAIN waiting = Peers
  /\ DOMAIN stage = Peers /\ DOMAIN writes = Peers /\ DOMAIN processed = Peers
  /\ DOMAIN network = Peers /\ DOMAIN failures = Peers /\ DOMAIN restarts = Peers

LEMMA AllThere == TypeInv => AllDomains
<1>1. \A f : Whole(f) => DOMAIN f = Peers
  BY DEF Whole
<1> QED BY <1>1, Zenon DEF TypeInv, Inv, Functions, Types, Domains, AllDomains

Acts(x) ==
  \/ Send(x) \/ StageStep(x) \/ DatabaseStep(x)
  \/ Accept(x) \/ Complete(x) \/ Fail(x) \/ Receive(x) \/ Restart(x)

LEMMA OthersStill ==
  ASSUME TypeInv, NEW x \in Peers, NEW y \in Peers, y # x, Acts(x)
  PROVE  Still(y)
<1> USE DEF AllDomains, Still
<1>0. AllDomains
  BY AllThere
<1>1. CASE Send(x)
  BY <1>0, <1>1 DEF Send, Enqueue, Post, history
<1>2. CASE StageStep(x)
  <2>1. CASE RunPollOutgoing(x)
    BY <1>0, <2>1 DEF RunPollOutgoing, persistent, history
  <2>2. CASE RunOutgoing(x)
    BY <1>0, <2>2 DEF RunOutgoing, persistent, history
  <2>3. CASE RunPollIncoming(x)
    BY <1>0, <2>3 DEF RunPollIncoming, persistent, history
  <2>4. CASE RunIncoming(x)
    BY <1>0, <2>4 DEF RunIncoming, Enqueue, history
  <2> QED BY <1>2, <2>1, <2>2, <2>3, <2>4 DEF StageStep
<1>3. CASE DatabaseStep(x)
  <2>1. CASE WritePoll(x)
    BY <1>0, <2>1 DEF WritePoll, Writes, Post
  <2>2. CASE WriteDelete(x)
    BY <1>0, <2>2 DEF WriteDelete, Writes
  <2>3. CASE WriteSeqIn(x)
    BY <1>0, <2>3 DEF WriteSeqIn, Writes
  <2>4. CASE WriteConfirm(x)
    BY <1>0, <2>4 DEF WriteConfirm, Writes
  <2>5. CASE WriteResend(x)
    BY <1>0, <2>5 DEF WriteResend, Writes, Post
  <2>6. CASE WriteAdd(x)
    BY <1>0, <2>6 DEF WriteAdd, Writes
  <2>7. CASE WriteRemove(x)
    BY <1>0, <2>7 DEF WriteRemove, Writes
  <2> QED BY <1>3, <2>1, <2>2, <2>3, <2>4, <2>5, <2>6, <2>7 DEF DatabaseStep
<1>4. CASE Accept(x)
  BY <1>0, <1>4 DEF Accept, persistent, history
<1>5. CASE Complete(x)
  BY <1>0, <1>5 DEF Complete, history
<1>6. CASE Fail(x)
  BY <1>0, <1>6 DEF Fail, persistent, history
<1>7. CASE Receive(x)
  BY <1>0, <1>7 DEF Receive, Post, history
<1>8. CASE Restart(x)
  BY <1>0, <1>8 DEF Restart, persistent
<1> QED BY <1>1, <1>2, <1>3, <1>4, <1>5, <1>6, <1>7, <1>8 DEF Acts

(* Faults are not forgotten.                                               *)
LEMMA SmoothBefore ==
  ASSUME TypeInv, NEW x \in Peers, Acts(x), NEW p \in Peers, Smooth(p)'
  PROVE  Smooth(p) /\ ~(x = p /\ Fail(x)) /\ ~(x = Other(p) /\ Restart(x))
<1>0. AllDomains /\ Other(p) \in Peers /\ \A z \in Peers : failures[z] \in Nat /\ restarts[z] \in Nat
  BY AllThere, OtherEnd DEF TypeInv, Types, Typed
<1>1. Fail(x) => /\ failures' = [failures EXCEPT ![x] = @ + 1] /\ restarts' = restarts
  BY DEF Fail
<1>2. Restart(x) => /\ restarts' = [restarts EXCEPT ![x] = @ + 1] /\ failures' = failures
  BY DEF Restart
<1>3. ~Fail(x) /\ ~Restart(x) => failures' = failures /\ restarts' = restarts
  BY DEF Acts, Send, StageStep, RunPollOutgoing, RunOutgoing, RunPollIncoming,
      RunIncoming,
         DatabaseStep, WritePoll, WriteDelete, WriteSeqIn, WriteConfirm, WriteResend,
         WriteAdd, WriteRemove, Writes, Accept, Complete, Receive
<1>4. failures'[p] = 0 /\ restarts'[Other(p)] = 0
  BY DEF Smooth
<1>5. failures[p] = 0 /\ ~(x = p /\ Fail(x))
  BY <1>0, <1>1, <1>2, <1>3, <1>4 DEF AllDomains
<1>6. restarts[Other(p)] = 0 /\ ~(x = Other(p) /\ Restart(x))
  BY <1>0, <1>1, <1>2, <1>3, <1>4 DEF AllDomains
<1> QED BY <1>5, <1>6 DEF Smooth

LEMMA SenderStage ==
  ASSUME NEW p \in Peers, NEW f, NEW T, Sender(p, f, T),
         outgoing'[p] = outgoing[p], sentSeqOut'[p] = sentSeqOut[p], resends'[p] = resends[p],
         delivered'[p] = delivered[p], requests'[p] = requests[p],
         executing'[p] = executing[p], waiting'[p] = waiting[p],
         stage'[p] \in Seq(FlowBlocks(f))
  PROVE  Sender(p, f, T)'
BY DEF Sender

LEMMA SenderStill ==
  ASSUME NEW p \in Peers, NEW f, NEW T, Sender(p, f, T), Still(p)
  PROVE  Sender(p, f, T)'
<1>1. stage[p] \in Seq(FlowBlocks(f))
  BY DEF Sender
<1> QED BY <1>1, SenderStage DEF Still

LEMMA ReceiverStill ==
  ASSUME NEW q \in Peers, NEW t, NEW T, NEW e, NEW a, Receiver(q, t, T, e, a), Still(q)
  PROVE  Receiver(q, t, T, e, a)'
BY ReceiverSame DEF Still

(* What may be asked for, by the two ends.                                 *)
Asked(p) ==
  /\ outgoing[Other(p)] \in Seq(QuietOut)
  /\ \A r \in requests[Other(p)] : r.message \in QuietMessages
Answers(p) == incoming[p] \subseteq QuietRows /\ writes[p] \in Seq(QuietQueries)

LEMMA QuietParts ==
  ASSUME NEW p
  PROVE  Quiet(p) <=> Asked(p) /\ network[p] \in Seq(QuietMessages) /\ Answers(p)
BY DEF Quiet, Asked, Answers

LEMMA AskedSame ==
  ASSUME NEW p, Asked(p), outgoing'[Other(p)] = outgoing[Other(p)],
         requests'[Other(p)] = requests[Other(p)]
  PROVE  Asked(p)'
BY DEF Asked

LEMMA AnswersSame ==
  ASSUME NEW p, Answers(p), incoming'[p] = incoming[p], writes'[p] = writes[p]
  PROVE  Answers(p)'
BY DEF Answers

(* A step of the receiver.                                                 *)
LEMMA FlowReceived ==
  ASSUME TypeInv, NEW p \in Peers, Acts(Other(p)), NEW f, NEW t, NEW T, NEW e, NEW a,
         NEW u, NEW d, NEW b, u \in Nat, d \in Nat, u <= f,
         Flow(p, f, t, T, e, a), Asked(p)', network'[p] \in Seq(QuietMessages),
         Net(network'[Other(p)], f, u, T), Receiver(Other(p), u, T, d, b)'
  PROVE  FlowAt(p)'
<1>1. Still(p)
  BY OtherEnd, OthersStill
<1>2. Sender(p, f, T)'
  BY <1>1, SenderStill DEF Flow
<1>3. Answers(p)'
  BY <1>1, AnswersSame, QuietParts DEF Flow, Still
<1>4. Quiet(p)'
  BY <1>3 DEF Quiet, Asked, Answers
<1>5. Net(network[Other(p)], f, u, T)'
  OBVIOUS
<1>6. Flow(p, f, u, T, d, b)'
  BY <1>2, <1>4, <1>5 DEF Flow
<1> QED BY <1>6 DEF FlowAt

(* A step of the sender.                                                   *)
LEMMA FlowSent ==
  ASSUME TypeInv, NEW p \in Peers, Acts(p), NEW f, NEW t, NEW T, NEW e, NEW a,
         Flow(p, f, t, T, e, a), Sender(p, f, T)', Answers(p)',
         network'[p] \in Seq(QuietMessages), network'[Other(p)] = network[Other(p)]
  PROVE  FlowAt(p)'
<1>1. Still(Other(p)) /\ Other(p) \in Peers
  BY OtherEnd, OthersStill
<1>2. Receiver(Other(p), t, T, e, a)'
  BY <1>1, ReceiverStill DEF Flow
<1>3. Asked(p)'
  BY <1>1, AskedSame, QuietParts DEF Flow, Still
<1>4. Quiet(p)'
  BY <1>3 DEF Quiet, Asked, Answers
<1>5. Net(network[Other(p)], f, t, T)'
  BY DEF Flow
<1>6. Flow(p, f, t, T, e, a)'
  BY <1>2, <1>4, <1>5 DEF Flow
<1> QED BY <1>6 DEF FlowAt

-----------------------------------------------------------------------------
(* Steps of the receiver                                                   *)

LEMMA SameReceived ==
  ASSUME NEW p \in Peers, NEW f, NEW t, NEW T, NEW e, NEW a, Flow(p, f, t, T, e, a)
  PROVE  /\ f \in Nat /\ t \in Nat /\ e \in Nat /\ t <= f /\ e <= t
         /\ Other(p) \in Peers /\ Other(p) # p
         /\ Asked(p) /\ network[p] \in Seq(QuietMessages) /\ Answers(p)
         /\ Net(network[Other(p)], f, t, T) /\ Receiver(Other(p), t, T, e, a)
         /\ Sender(p, f, T)
BY OtherEnd, QuietParts DEF Flow, Receiver

(* New rows are the messages, each with an id of its own.                  *)
LEMMA NewRowsAre ==
  ASSUME TypeInv, NEW q \in Peers, NEW k \in 1 .. Len(network[q])
  PROVE  MadeOf(NewIncoming(q, k), network[q], k, lastId[q].incoming)
<1>0. PICK l, s : l = lastId[q].incoming /\ s = network[q]
  OBVIOUS
<1> DEFINE row(i) == [id |-> l + i, seq |-> Number(s[i]),
                      seqIn |-> Halved(s[i].seqIn), content |-> s[i].content]
<1>1. s \in Seq(Messages) /\ Len(s) \in Nat
  BY <1>0, ClientFacts, LenProperties
<1>2. \A i \in 1 .. k : i \in DOMAIN s
  BY <1>0, <1>1
<1>3. \A i \in 1 .. k : Genuine(q, s[i])
  BY <1>0, <1>2, NetFacts
<1>4. {j \in 1 .. k : Genuine(q, network[q][j])} = 1 .. k
  BY <1>0, <1>3
<1>5. NewIncoming(q, k) = {row(i) : i \in 1 .. k}
  BY <1>0, <1>4 DEF NewIncoming, Number
<1> HIDE DEF NewIncoming
<1>6. \A i : row(i).id = l + i /\ row(i).seq = Number(s[i]) /\ row(i).content = s[i].content
  OBVIOUS
<1> HIDE DEF row
<1>7. MadeOf(NewIncoming(q, k), s, k, l)
  BY <1>5, <1>6 DEF MadeOf
<1> QED BY <1>0, <1>7

LEMMA ReceiveFlow ==
  ASSUME TypeInv, NEW p \in Peers, NEW f, NEW t, NEW T, NEW e, NEW a, Flow(p, f, t, T, e, a),
         Receive(Other(p))
  PROVE  FlowAt(p)'
<1>1. PICK q : q = Other(p)
  OBVIOUS
<1>2. /\ f \in Nat /\ t \in Nat /\ e \in Nat /\ t <= f /\ e <= t
      /\ q \in Peers /\ q # p /\ Asked(p) /\ network[p] \in Seq(QuietMessages)
      /\ Net(network[q], f, t, T) /\ Receiver(q, t, T, e, a)
  BY <1>1, SameReceived
<1>3. /\ UNCHANGED <<outgoing, requests, seqIn, processed, shown, writes>> /\ writes[q] = <<>>
  BY <1>1 DEF Receive, history, Idle
<1>4. PICK k \in 1 .. Len(network[q]) :
        /\ incoming' = [incoming EXCEPT ![q] = incoming[q] \cup NewIncoming(q, k)]
        /\ stage' = [stage EXCEPT ![q] =
                       stage[q] \o <<IncomingBlock(incoming[q] \cup NewIncoming(q, k), seqIn[q])>>]
        /\ lastId' = [lastId EXCEPT ![q].incoming = @ + k]
        /\ network' = [network EXCEPT ![q] = SubSeq(network[q], k + 1, Len(network[q]))]
  BY <1>1 DEF Receive, Post
<1>5. PICK l \in Nat : l = lastId[q].incoming
  BY <1>2, ClientFacts
<1>6. PICK s : s = network[q]
  OBVIOUS
<1>7. s \in Seq(Messages) /\ Len(s) \in Nat /\ k \in Nat /\ k >= 1 /\ k <= Len(s)
  BY <1>2, <1>4, <1>6, ClientFacts, LenProperties
<1>8. PICK new : new = NewIncoming(q, k)
  OBVIOUS
<1>9. MadeOf(new, s, k, l)
  BY <1>2, <1>4, <1>5, <1>6, <1>8, NewRowsAre
<1>10. \A i \in DOMAIN s : Number(s[i]) \in Nat
  BY <1>2, <1>6, NetFacts
<1>11. PICK u \in Nat :
           /\ t <= u /\ u <= f
           /\ Net(SubSeq(s, k + 1, Len(s)), f, u, T)
           /\ Reached(s, k, t, u, T)
  <2>1. k \in 1 .. Len(s) /\ Net(s, f, t, T)
    BY <1>2, <1>4, <1>6
  <2> QED BY ONLY <1>2, <1>7, <1>10, <2>1, NetReceived
<1>12. PICK rows : rows = incoming[q] \cup new
  OBVIOUS
<1>13. /\ rows \subseteq Rows /\ OwnIds(rows) /\ IsFiniteSet(rows)
       /\ \A r \in rows : r.id <= l + k /\ r.id \in Nat /\ r.seq \in Nat
  <2>1. rows \subseteq Rows /\ OwnIds(rows) /\ \A r \in rows : r.id <= l + k
    BY <1>2, <1>4, <1>5, <1>8, <1>12, ReceivedTyped
  <2>2. RowsSound(q, rows)
    BY <1>2, <1>4, <1>8, <1>12, ReceivedSound DEF TypeInv
  <2>3. \A r \in Rows : r.id \in Nat
    BY DEF Rows
  <2> QED BY <2>1, <2>2, <2>3 DEF RowsSound
<1>14. Whence(incoming[q], t, T, e)
  BY <1>2 DEF Receiver
<1>15. Whence(rows, u, T, e)
  <2>1. \A r \in incoming[q] : r.seq \in Nat /\ r.id \in Nat /\ r.id <= l
    BY <1>2, <1>5, ClientFacts
  <2>2. PICK old : old = incoming[q]
    OBVIOUS
  <2>3. Whence(old, t, T, e) /\ \A r \in old : r.seq \in Nat /\ r.id \in Nat /\ r.id <= l
    BY <1>14, <2>1, <2>2
  <2>4. k \in Nat /\ l \in Nat /\ t \in Nat /\ u \in Nat /\ e \in Nat /\ t <= u
    BY <1>2, <1>5, <1>7, <1>11
  <2>5. Whence(old \cup new, u, T, e)
    BY ONLY <1>9, <1>11, <2>3, <2>4, WhenceGrows
  <2> QED BY <1>12, <2>2, <2>5
<1>16. seqIn[q] = e
  BY <1>2, <1>3, ReceiverIdle
<1>17. PICK b : b = IncomingBlock(rows, e)
  OBVIOUS
<1>18. PICK m : m = l + k
  OBVIOUS
<1>19. m \in Nat /\ l <= m /\ e <= u
  BY <1>2, <1>7, <1>11, <1>18
<1>20. SnapshotFlow(b, rows, m, u, T, e) /\ End(b) = u
  BY <1>2, <1>11, <1>13, <1>15, <1>17, <1>18, <1>19, SnapshotTaken
<1>21. StageFlow(stage[q], rows, m, u, T, e)
  <2>1. StageFlow(stage[q], incoming[q], l, t, T, e)
    BY <1>2, <1>5 DEF Receiver
  <2>2. ASSUME NEW r \in rows PROVE r.id \in Nat /\ (r \in incoming[q] \/ r.id > l)
    <3>1. r \in new => r.id > l
      <4>1. SUFFICES ASSUME r \in new PROVE r.id > l
        OBVIOUS
      <4>2. PICK i \in 1 .. k : r.id = l + i
        BY <1>9, <4>1 DEF MadeOf
      <4> QED BY <4>2
    <3> QED BY <1>12, <1>13, <3>1
  <2>3. t \in Nat /\ u \in Nat /\ e \in Nat /\ t <= u /\ m \in Nat /\ l \in Nat /\ l <= m
    BY <1>2, <1>5, <1>11, <1>19
  <2>4. TypeInv /\ q \in Peers
    BY <1>2
  <2> QED BY ONLY <1>5, <2>1, <2>2, <2>3, <2>4, StageGrows
<1>22. stage[q] \in Seq(TypedBlocks)
  BY <1>2, ClientFacts
<1>23. StageFlow(Append(stage[q], b), rows, m, u, T, e)
  <2>1. \A i \in DOMAIN stage[q] : Snapshot(stage[q][i]) => End(stage[q][i]) <= End(b)
    BY <1>20, <1>21 DEF StageFlow, SnapshotFlow
  <2> QED BY <1>20, <1>21, <1>22, <2>1, StageFlowMore
<1>24. /\ stage'[q] = Append(stage[q], b) /\ incoming'[q] = rows /\ lastId'[q].incoming = m
       /\ network'[q] = SubSeq(s, k + 1, Len(s)) /\ network'[p] = network[p]
  <2>1. AllDomains
    BY AllThere
  <2>2. stage[q] \o <<b>> = Append(stage[q], b)
    BY <1>22, AppendIsConcat
  <2>3. stage'[q] = Append(stage[q], b)
    BY <1>2, <1>4, <1>8, <1>12, <1>16, <1>17, <2>1, <2>2 DEF AllDomains
  <2>4. incoming'[q] = rows
    BY <1>2, <1>4, <1>8, <1>12, <2>1 DEF AllDomains
  <2>5. lastId'[q].incoming = m
    <3>1. lastId[q] \in [incoming : Nat, resend : Int]
      BY <1>2 DEF TypeInv, Types, Typed
    <3> QED BY <1>2, <1>4, <1>5, <1>18, <2>1, <3>1 DEF AllDomains
  <2>6. network'[q] = SubSeq(s, k + 1, Len(s)) /\ network'[p] = network[p]
    BY <1>2, <1>4, <1>6, <2>1 DEF AllDomains
  <2> QED BY <2>3, <2>4, <2>5, <2>6
<1>25. WritesFlow(<<>>, e, rows, T, e, a)
  BY DEF WritesFlow
<1>26. Receiver(q, u, T, e, a)'
  <2>1. /\ seqIn'[q] = e /\ processed'[q] <= e /\ writes'[q] = <<>>
        /\ shown'[q] = shown[q]
    BY <1>2, <1>3, <1>16 DEF Receiver
  <2>2. seqIn'[q] <= e /\ e <= u
    BY <1>2, <1>19, <2>1
  <2>3. Conversation(shown[q], <<>>, T, e, a)
    BY <1>2, <1>3 DEF Receiver
  <2>4. Whence(incoming'[q], u, T, e) /\ StageFlow(stage'[q], incoming'[q], lastId'[q].incoming, u, T, e)
    BY <1>15, <1>23, <1>24
  <2>5. WritesFlow(writes'[q], seqIn'[q], incoming'[q], T, e, a) /\ Conversation(shown'[q], writes'[q], T, e, a)
    BY <1>24, <1>25, <2>1, <2>3
  <2> QED BY <2>1, <2>2, <2>4, <2>5 DEF Receiver
<1>27. Asked(p)'
  BY <1>2, <1>3, AskedSame
<1> QED BY <1>1, <1>2, <1>11, <1>24, <1>26, <1>27, FlowReceived DEF Acts

(* Other blocks do not matter to the snapshots that wait.                  *)
LEMMA StageFlowPosts ==
  ASSUME NEW s \in Seq(TypedBlocks), NEW b \in TypedBlocks, ~Snapshot(b),
         NEW rows, NEW last, NEW t, NEW T, NEW e, StageFlow(s, rows, last, t, T, e)
  PROVE  /\ StageFlow(s \o <<b>>, rows, last, t, T, e)
         /\ StageFlow(s \o <<b, b>>, rows, last, t, T, e)
         /\ s # <<>> => /\ StageFlow(Tail(s), rows, last, t, T, e)
                        /\ StageFlow(Append(Tail(s), b), rows, last, t, T, e)
<1>1. s \o <<b>> = Append(s, b) /\ s \o <<b, b>> = Append(Append(s, b), b)
  OBVIOUS
<1>2. StageFlow(Append(s, b), rows, last, t, T, e)
  BY StageFlowMore
<1>3. Append(s, b) \in Seq(TypedBlocks)
  OBVIOUS
<1>4. StageFlow(Append(Append(s, b), b), rows, last, t, T, e)
  BY <1>2, <1>3, StageFlowMore
<1>5. ASSUME s # <<>> PROVE /\ StageFlow(Tail(s), rows, last, t, T, e)
                            /\ StageFlow(Append(Tail(s), b), rows, last, t, T, e)
  <2>1. StageFlow(Tail(s), rows, last, t, T, e)
    BY <1>5, StageFlowRest
  <2>2. Tail(s) \in Seq(TypedBlocks)
    BY <1>5
  <2> QED BY <2>1, <2>2, StageFlowMore
<1> QED BY <1>1, <1>2, <1>4, <1>5

LEMMA StageFlowFewer ==
  ASSUME NEW s, NEW rows, NEW R, R \subseteq rows, NEW last, NEW t, NEW T, NEW e,
         StageFlow(s, rows, last, t, T, e)
  PROVE  StageFlow(s, R, last, t, T, e)
<1>1. \A b : SnapshotFlow(b, rows, last, t, T, e) => SnapshotFlow(b, R, last, t, T, e)
  BY DEF SnapshotFlow
<1> QED BY <1>1 DEF StageFlow

(* A query of the receiver is done.                                        *)
LEMMA QueryFlow ==
  ASSUME TypeInv, NEW q \in Peers, NEW t, NEW e \in Nat, NEW T, NEW a, Receiver(q, t, T, e, a),
         writes[q] # <<>>, writes'[q] = Tail(writes[q]),
         NEW b \in TypedBlocks, ~Snapshot(b),
         stage'[q] = stage[q] \/ stage'[q] = stage[q] \o <<b>>,
         incoming'[q] \subseteq incoming[q],
         \A r \in incoming[q] : r \notin incoming'[q] => r.seq < e,
         lastId'[q].incoming = lastId[q].incoming,
         seqIn'[q] = IF Head(writes[q]).type = "seqIn" THEN Head(writes[q]).seq ELSE seqIn[q],
         seqIn'[q] <= e, processed'[q] <= e,
         Conversation(shown'[q], Tail(writes[q]), T, e, a)
  PROVE  Receiver(q, t, T, e, a)'
<1>1. /\ stage[q] \in Seq(TypedBlocks) /\ writes[q] \in Seq(TypedQueries)
      /\ \A r \in incoming[q] : r.seq \in Nat
  BY ClientFacts
<1>2. /\ e <= t /\ Whence(incoming[q], t, T, e)
      /\ StageFlow(stage[q], incoming[q], lastId[q].incoming, t, T, e)
      /\ WritesFlow(writes[q], seqIn[q], incoming[q], T, e, a)
  BY DEF Receiver
<1>3. Whence(incoming'[q], t, T, e)
  BY <1>1, <1>2, WhenceLess
<1>4. StageFlow(stage'[q], incoming[q], lastId[q].incoming, t, T, e)
  BY <1>1, <1>2, StageFlowPosts
<1>5. StageFlow(stage'[q], incoming'[q], lastId'[q].incoming, t, T, e)
  BY <1>4, StageFlowFewer
<1>6. WritesFlow(writes'[q], seqIn'[q], incoming'[q], T, e, a)
  BY <1>1, <1>2, WritesFlowRest
<1> QED BY <1>2, <1>3, <1>5, <1>6 DEF Receiver

(* The receiver takes a block that is no snapshot, or posts one.           *)
LEMMA StageStepFlow ==
  ASSUME TypeInv, NEW q \in Peers, NEW t, NEW e, NEW T, NEW a, Receiver(q, t, T, e, a),
         NEW b \in TypedBlocks, ~Snapshot(b),
         \/ stage'[q] = stage[q] \o <<b>> \/ stage'[q] = stage[q] \o <<b, b>>
         \/ stage[q] # <<>> /\ stage'[q] = Tail(stage[q])
         \/ stage[q] # <<>> /\ stage'[q] = Append(Tail(stage[q]), b),
         incoming'[q] = incoming[q], lastId'[q] = lastId[q], seqIn'[q] = seqIn[q],
         processed'[q] = processed[q], writes'[q] = writes[q], shown'[q] = shown[q]
  PROVE  Receiver(q, t, T, e, a)'
<1>1. stage[q] \in Seq(TypedBlocks)
  BY ClientFacts
<1>2. StageFlow(stage[q], incoming[q], lastId[q].incoming, t, T, e)
  BY DEF Receiver
<1>3. StageFlow(stage'[q], incoming[q], lastId[q].incoming, t, T, e)
  BY <1>1, <1>2, StageFlowPosts
<1> QED BY <1>3, ReceiverStage

LEMMA PollBlock ==
  ASSUME TypeInv, NEW p \in Peers
  PROVE  /\ OutgoingBlock(p, stored[p]) \in TypedBlocks
         /\ OutgoingBlock(p, stored[p] \cup {Len(outgoing[p])}) \in TypedBlocks
         /\ PollOutgoing \in TypedBlocks /\ PollIncoming \in TypedBlocks
         /\ \A rows : ~Snapshot(OutgoingBlock(p, rows))
         /\ ~Snapshot(PollOutgoing) /\ ~Snapshot(PollIncoming)
<1>1. stored[p] \subseteq Nat /\ stored[p] \cup {Len(outgoing[p])} \subseteq Nat
  BY StoredNat
<1>2. /\ \A rows : ~Snapshot(OutgoingBlock(p, rows))
      /\ ~Snapshot(PollOutgoing) /\ ~Snapshot(PollIncoming)
  BY DEF Snapshot, OutgoingBlock, PollOutgoing, PollIncoming
<1>3. PollOutgoing \in TypedBlocks /\ PollIncoming \in TypedBlocks
  BY BlockTypes DEF PollOutgoing, PollIncoming
<1>4. OutgoingBlock(p, stored[p]) \in TypedBlocks
  BY <1>1, PollTyped
<1>5. OutgoingBlock(p, stored[p] \cup {Len(outgoing[p])}) \in TypedBlocks
  BY <1>1, PollTyped
<1> QED BY <1>2, <1>3, <1>4, <1>5

(* Steps of the receiver that do not touch the mail.                       *)
LEMMA FlowRun ==
  ASSUME TypeInv, NEW p \in Peers, NEW f, NEW t, NEW T, NEW e, NEW a, Flow(p, f, t, T, e, a),
         Acts(Other(p)), network' = network, Asked(p)', NEW d, NEW c, d \in Nat,
         Receiver(Other(p), t, T, d, c)'
  PROVE  FlowAt(p)'
<1>1. /\ network[p] \in Seq(QuietMessages) /\ Net(network[Other(p)], f, t, T)
      /\ t \in Nat /\ t <= f
  BY SameReceived
<1> QED BY <1>1, FlowReceived

LEMMA QuietRun ==
  ASSUME TypeInv, NEW p \in Peers, NEW f, NEW t, NEW T, NEW e, NEW a, Flow(p, f, t, T, e, a),
         Acts(Other(p)), UNCHANGED <<network, outgoing, requests>>, NEW d, NEW c, d \in Nat,
         Receiver(Other(p), t, T, d, c)'
  PROVE  FlowAt(p)'
<1>1. Asked(p)
  BY SameReceived
<1>2. Asked(p)'
  BY <1>1, AskedSame
<1> QED BY <1>2, FlowRun

LEMMA WritePollFlow ==
  ASSUME TypeInv, NEW p \in Peers, NEW f, NEW t, NEW T, NEW e, NEW a, Flow(p, f, t, T, e, a),
         NEW q, q = Other(p), \/ WritePoll(q) \/ WriteDelete(q) \/ WriteSeqIn(q)
           \/ WriteConfirm(q) \/ WriteResend(q) \/ WriteAdd(q) \/ WriteRemove(q)
  PROVE  FlowAt(p)'
<1>1. /\ q \in Peers /\ Receiver(q, t, T, e, a) /\ e \in Nat
  BY SameReceived
<1>2. PICK type : Writes(q, type)
  BY DEF WritePoll, WriteDelete, WriteSeqIn, WriteConfirm, WriteResend, WriteAdd,
      WriteRemove
<1>3. AllDomains
  BY AllThere
<1>4. /\ writes[q] # <<>> /\ writes'[q] = Tail(writes[q])
      /\ UNCHANGED <<network, outgoing, requests>>
  BY <1>1, <1>2, <1>3 DEF Writes, AllDomains
<1>5. PICK w : w = Head(writes[q])
  OBVIOUS
<1>6. writes[q] \in Seq(TypedQueries) /\ shown[q] \in Seq(Int) /\ seqIn[q] \in Nat /\ processed[q] \in Nat
  BY <1>1, ClientFacts
<1>7. w \in TypedQueries /\ WriteFlow(w, incoming[q], T, e, a)
  <2>1. w \in TypedQueries /\ w = writes[q][1] /\ 1 \in DOMAIN writes[q]
    BY <1>4, <1>5, <1>6
  <2> QED BY <1>1, <2>1 DEF Receiver, WritesFlow
<1>8. Conversation(shown[q], writes[q], T, e, a) /\ seqIn[q] <= e /\ processed[q] <= e
  BY <1>1 DEF Receiver
<1>9. w.type # "add" => Conversation(shown[q], Tail(writes[q]), T, e, a)
  BY <1>4, <1>5, <1>6, <1>8, ConversationRest
<1>10. PICK b : b \in TypedBlocks /\ ~Snapshot(b) /\ (b = PollOutgoing \/ b = OutgoingBlock(q, stored[q]))
  BY <1>1, PollBlock
<1>11. SUFFICES Receiver(q, t, T, e, a)'
  BY <1>1, <1>4, QuietRun DEF Acts, DatabaseStep
<1> USE DEF AllDomains
<1>12. CASE WritePoll(q)
  <2>1. UNCHANGED <<seqIn, incoming, lastId, shown, processed>> /\ w.type = "poll"
    BY <1>5, <1>12 DEF WritePoll, Writes
  <2>2. stage'[q] = stage[q] \o <<OutgoingBlock(q, stored[q])>>
    BY <1>1, <1>3, <1>12 DEF WritePoll, Post
  <2> QED BY <1>1, <1>4, <1>5, <1>8, <1>9, <2>1, <2>2, PollBlock, QueryFlow
<1>13. CASE WriteDelete(q)
  <2>1. UNCHANGED <<seqIn, lastId, shown, processed, stage>> /\ w.type = "delete"
    BY <1>5, <1>13 DEF WriteDelete, Writes
  <2>2. incoming'[q] = {r \in incoming[q] : r.id \notin w.ids}
    BY <1>1, <1>3, <1>5, <1>13 DEF WriteDelete
  <2>3. \A r \in incoming[q] : r \notin incoming'[q] => r.seq < e
    BY <1>7, <2>1, <2>2 DEF WriteFlow
  <2> QED BY <1>1, <1>4, <1>5, <1>8, <1>9, <1>10, <2>1, <2>2, <2>3, QueryFlow
<1>14. CASE WriteSeqIn(q)
  <2>1. UNCHANGED <<incoming, lastId, shown, stage>> /\ w.type = "seqIn"
    BY <1>5, <1>14 DEF WriteSeqIn, Writes
  <2>2. seqIn'[q] = w.seq /\ processed'[q] = Max({processed[q], w.seq}) /\ w.seq = e
    BY <1>1, <1>3, <1>5, <1>7, <1>14, <2>1 DEF WriteSeqIn, WriteFlow
  <2>3. processed'[q] <= e
    <3>1. Max({processed[q], e}) = e
      BY <1>1, <1>6, <1>8 DEF Max
    <3> QED BY <1>1, <2>2, <3>1
  <2> QED BY <1>1, <1>4, <1>5, <1>8, <1>9, <1>10, <2>1, <2>2, <2>3, QueryFlow
<1>15. CASE WriteConfirm(q)
  <2>1. UNCHANGED <<seqIn, incoming, lastId, shown, processed, stage>> /\ w.type = "confirm"
    BY <1>5, <1>15 DEF WriteConfirm, Writes
  <2> QED BY <1>1, <1>4, <1>5, <1>8, <1>9, <1>10, <2>1, QueryFlow
<1>16. CASE WriteResend(q)
  <2>1. UNCHANGED <<seqIn, incoming, shown, processed>> /\ w.type = "resend"
    BY <1>5, <1>16 DEF WriteResend, Writes
  <2>2. stage'[q] = stage[q] \o <<PollOutgoing>>
    BY <1>1, <1>3, <1>16 DEF WriteResend, Post
  <2>3. lastId'[q].incoming = lastId[q].incoming
    BY <1>1, <1>3, <1>16 DEF WriteResend
  <2> QED BY <1>1, <1>4, <1>5, <1>8, <1>9, <2>1, <2>2, <2>3, PollBlock, QueryFlow
<1>17. CASE WriteAdd(q)
  <2>1. UNCHANGED <<seqIn, incoming, lastId, processed, stage>> /\ w.type = "add"
    BY <1>5, <1>17 DEF WriteAdd, Writes
  <2>2. w.seqs = a
    BY <1>7, <2>1 DEF WriteFlow
  <2>3. shown'[q] = shown[q] \o Without(a, ToSet(shown[q]))
    BY <1>1, <1>3, <1>5, <1>17, <2>2 DEF WriteAdd
  <2>4. Conversation(shown'[q], Tail(writes[q]), T, e, a)
    BY <1>6, <1>8, <2>3, ConversationAdds
  <2> QED BY <1>1, <1>4, <1>5, <1>8, <1>10, <2>1, <2>4, QueryFlow
<1>18. CASE WriteRemove(q)
  <2>1. UNCHANGED <<seqIn, incoming, lastId, processed, stage>> /\ w.type = "remove"
    BY <1>5, <1>18 DEF WriteRemove, Writes
  <2>2. w.seqs \cap T = {}
    BY <1>7, <2>1 DEF WriteFlow
  <2>3. shown'[q] = Without(shown[q], w.seqs)
    BY <1>1, <1>3, <1>5, <1>18 DEF WriteRemove
  <2>4. Conversation(shown'[q], Tail(writes[q]), T, e, a)
    BY <1>6, <1>9, <2>1, <2>2, <2>3, ConversationRemoves
  <2> QED BY <1>1, <1>4, <1>5, <1>8, <1>10, <2>1, <2>4, QueryFlow
<1> QED BY <1>12, <1>13, <1>14, <1>15, <1>16, <1>17, <1>18

(* What a block of the outgoing queue adds to the requests.                *)
Becomes(x, new, y) ==
  /\ y.row \in new /\ y.accepted = FALSE /\ y.after = Before(x, new, y.row.seq)
  /\ y.message = Message(x, y.row.seq, Content(x, y.row.id, y.row.seq))

LEMMA RequestsMade ==
  ASSUME TypeInv, NEW x \in Peers, RunOutgoing(x), NEW b, b = Head(stage[x])
  PROVE  /\ stage[x] # <<>> /\ stage'[x] = Tail(stage[x]) /\ b.type = "outgoing"
         /\ \A y \in requests'[x] : y \in requests[x] \/ Becomes(x, NewRows(x, b), y)
         /\ requests[x] \subseteq requests'[x]
         /\ \A y, z \in requests'[x] \ requests[x] : y.row = z.row => y = z
         /\ \A r \in NewRows(x, b) : \E y \in requests'[x] : y.row = r
         /\ executing'[x] = executing[x] \cup {r.id : r \in NewRows(x, b)}
         /\ \A r \in NewRows(x, b) :
              /\ r.id \notin executing[x]
              /\ \/ \E n \in b.rows : r = [id |-> OutgoingId(n), seq |-> n, resend |-> FALSE]
                 \/ \E z \in b.resends : r = [id |-> z.id, seq |-> z.seq, resend |-> TRUE]
         /\ \A n \in b.rows : OutgoingId(n) \notin executing[x] =>
              [id |-> OutgoingId(n), seq |-> n, resend |-> FALSE] \in NewRows(x, b)
         /\ \A r \in NewRows(x, b) : r.seq \in Numbers(x)
         /\ b \in TypedBlocks /\ b.rows \subseteq Nat
<1>1. AllDomains
  BY AllThere
<1>2. stage[x] # <<>> /\ b.type = "outgoing"
  BY DEF RunOutgoing, Runs
<1>3. PICK new : new = NewRows(x, b)
  OBVIOUS
<1> DEFINE make(r) == [row |-> r, accepted |-> FALSE, after |-> Before(x, new, r.seq),
                       message |-> Message(x, r.seq, Content(x, r.id, r.seq))]
<1>4. /\ requests'[x] = requests[x] \cup {make(r) : r \in new}
      /\ executing'[x] = executing[x] \cup {r.id : r \in new}
      /\ stage'[x] = Tail(stage[x])
  BY <1>1, <1>3 DEF RunOutgoing, AllDomains
<1>5. \A r : /\ make(r).row = r /\ make(r).accepted = FALSE
             /\ make(r).after = Before(x, new, r.seq)
             /\ make(r).message = Message(x, r.seq, Content(x, r.id, r.seq))
  OBVIOUS
<1> HIDE DEF make
<1>6. \A r \in new : Becomes(x, new, make(r))
  BY <1>5 DEF Becomes
<1>7. \A y \in requests'[x] : y \in requests[x] \/ Becomes(x, new, y)
  BY <1>4, <1>6
<1>8. /\ \A r \in new : \E y \in requests'[x] : y.row = r
      /\ \A y, z \in requests'[x] \ requests[x] : y.row = z.row => y = z
  BY <1>4, <1>5
<1>9. ASSUME NEW r \in new
      PROVE  /\ r.id \notin executing[x]
             /\ \/ \E n \in b.rows : r = [id |-> OutgoingId(n), seq |-> n, resend |-> FALSE]
                \/ \E z \in b.resends : r = [id |-> z.id, seq |-> z.seq, resend |-> TRUE]
  BY <1>3, <1>9 DEF NewRows
<1>10. ASSUME NEW n \in b.rows, OutgoingId(n) \notin executing[x]
       PROVE  [id |-> OutgoingId(n), seq |-> n, resend |-> FALSE] \in new
  BY <1>3, <1>10 DEF NewRows
<1>11. \A r \in new : r.seq \in Numbers(x)
  <2>1. BlockSound(x, b)
    BY <1>2, BlockRun DEF TypeInv, Inv, Sound
  <2>2. b.rows \subseteq Numbers(x) /\ \A z \in b.resends : z.seq \in Numbers(x)
    BY <1>2, <2>1 DEF BlockSound
  <2> QED BY <1>9, <2>2
<1>12. b \in TypedBlocks /\ b.rows \subseteq Nat
  BY <1>2, SeqRest, BlockTypes DEF TypeInv, Types, Typed
<1>13. requests[x] \subseteq requests'[x]
  BY <1>4
<1> QED BY <1>2, <1>3, <1>4, <1>7, <1>8, <1>9, <1>10, <1>11, <1>12, <1>13

LEMMA SendAskedFlow ==
  ASSUME TypeInv, NEW p \in Peers, NEW f, NEW t, NEW T, NEW e, NEW a, Flow(p, f, t, T, e, a),
         NEW q, q = Other(p), Send(q)
  PROVE  FlowAt(p)'
<1>1. q \in Peers /\ Receiver(q, t, T, e, a) /\ e \in Nat /\ Asked(p)
  BY SameReceived
<1>2. AllDomains
  BY AllThere
<1>3. UNCHANGED <<network, requests, incoming, lastId, seqIn, processed, writes, shown>>
  BY DEF Send, history
<1>4. PICK b : b = OutgoingBlock(q, stored[q] \cup {Len(outgoing[q])})
  OBVIOUS
<1>5. stage'[q] = stage[q] \o <<b, b>>
  BY <1>1, <1>2, <1>4 DEF Send, Post, AllDomains
<1>6. b \in TypedBlocks /\ ~Snapshot(b)
  BY <1>1, <1>4, PollBlock
<1>7. Receiver(q, t, T, e, a)'
  BY <1>1, <1>3, <1>5, <1>6, StageStepFlow
<1>8. PICK row : row = [seqIn |-> seqIn[q], body |-> Text]
  OBVIOUS
<1>9. outgoing'[q] = Append(outgoing[q], row)
  BY <1>1, <1>2, <1>8 DEF Send, Enqueue, AllDomains
<1>10. row \in QuietOut
  <2>1. seqIn[q] \in Nat /\ Text \in Contents /\ Text.type # "resend"
    BY <1>1, ClientFacts DEF Contents, Text
  <2>2. row \in OutRows /\ row.body = Text
    BY <1>8, <2>1 DEF OutRows
  <2> QED BY <2>1, <2>2 DEF QuietOut
<1>11. outgoing'[q] \in Seq(QuietOut)
  <2>1. outgoing[q] \in Seq(QuietOut)
    BY <1>1 DEF Asked
  <2> QED BY <1>9, <1>10, <2>1
<1>12. Asked(p)'
  BY <1>1, <1>3, <1>11 DEF Asked
<1> QED BY <1>1, <1>3, <1>7, <1>12, FlowRun DEF Acts

LEMMA RunPollsFlow ==
  ASSUME TypeInv, NEW p \in Peers, NEW f, NEW t, NEW T, NEW e, NEW a, Flow(p, f, t, T, e, a),
         NEW q, q = Other(p), RunPollOutgoing(q)
  PROVE  FlowAt(p)'
<1>1. q \in Peers /\ Receiver(q, t, T, e, a) /\ e \in Nat
  BY SameReceived
<1>2. AllDomains
  BY AllThere
<1>3. /\ UNCHANGED <<network, outgoing, requests, incoming, lastId, seqIn, processed, writes, shown>>
      /\ stage[q] # <<>>
  BY DEF RunPollOutgoing, Runs, persistent, history
<1>4. PICK b : b = OutgoingBlock(q, stored[q])
  OBVIOUS
<1>5. stage'[q] = Append(Tail(stage[q]), b)
  BY <1>1, <1>2, <1>4 DEF RunPollOutgoing, AllDomains
<1>6. b \in TypedBlocks /\ ~Snapshot(b)
  BY <1>1, <1>4, PollBlock
<1>7. Receiver(q, t, T, e, a)'
  BY <1>1, <1>3, <1>5, <1>6, StageStepFlow
<1> QED BY <1>1, <1>3, <1>7, QuietRun DEF Acts, StageStep

LEMMA RunOutgoingAsked ==
  ASSUME TypeInv, TypeInv', NEW p \in Peers, NEW f, NEW t, NEW T, NEW e, NEW a,
         Flow(p, f, t, T, e, a), NEW q, q = Other(p), RunOutgoing(q)
  PROVE  FlowAt(p)'
<1>1. q \in Peers /\ Receiver(q, t, T, e, a) /\ e \in Nat /\ Asked(p)
  BY SameReceived
<1>3. UNCHANGED <<network, outgoing, incoming, lastId, seqIn, processed, writes, shown>>
  BY DEF RunOutgoing, persistent, history
<1>4. PICK b : b = Head(stage[q])
  OBVIOUS
<1>5. /\ stage[q] # <<>> /\ stage'[q] = Tail(stage[q])
      /\ \A y \in requests'[q] : y \in requests[q] \/ Becomes(q, NewRows(q, b), y)
      /\ \A r \in NewRows(q, b) : r.seq \in Numbers(q)
  BY <1>1, <1>4, RequestsMade
<1>6. PollOutgoing \in TypedBlocks /\ ~Snapshot(PollOutgoing)
  BY <1>1, PollBlock
<1>7. Receiver(q, t, T, e, a)'
  BY <1>1, <1>3, <1>5, <1>6, StageStepFlow
<1>8. ASSUME NEW y \in requests'[q], y \notin requests[q] PROVE y.message \in QuietMessages
  <2>1. Becomes(q, NewRows(q, b), y)
    BY <1>5, <1>8
  <2>2. PICK n, i : n = y.row.seq /\ i = y.row.id
    OBVIOUS
  <2>3. n \in Numbers(q) /\ y.message = Message(q, n, Content(q, i, n))
    BY <1>5, <2>1, <2>2 DEF Becomes
  <2>4. y.message \in Messages /\ y.message.content = Content(q, i, n)
    BY <1>1, <2>3, MessageTyped DEF Message
  <2>5. outgoing[q] \in Seq(QuietOut)
    BY <1>1 DEF Asked
  <2>6. n + 1 \in 1 .. Len(outgoing[q])
    BY <2>3, <2>5, LenProperties DEF Numbers
  <2>7. outgoing[q][n + 1] \in QuietOut
    BY <2>5, <2>6, ElementOfSeq
  <2>8. Content(q, i, n).type # "resend"
    BY <2>7 DEF QuietOut, Content, Deletion
  <2> QED BY <2>4, <2>8 DEF QuietMessages, Asks
<1>9. Asked(p)'
  BY <1>1, <1>3, <1>8 DEF Asked
<1> QED BY <1>1, <1>3, <1>7, <1>9, FlowRun DEF Acts, StageStep

LEMMA RunPollIncomingFlow ==
  ASSUME TypeInv, NEW p \in Peers, NEW f, NEW t, NEW T, NEW e, NEW a, Flow(p, f, t, T, e, a),
         NEW q, q = Other(p), RunPollIncoming(q)
  PROVE  FlowAt(p)'
<1>1. q \in Peers /\ Receiver(q, t, T, e, a) /\ e \in Nat /\ t \in Nat /\ e <= t
  BY SameReceived
<1>2. AllDomains
  BY AllThere
<1>3. /\ UNCHANGED <<network, outgoing, requests, incoming, lastId, seqIn, processed, writes, shown>>
      /\ stage[q] # <<>> /\ writes[q] = <<>>
  BY DEF RunPollIncoming, Runs, Idle, persistent, history
<1>4. seqIn[q] = e
  BY <1>1, <1>3, ReceiverIdle
<1>5. PICK rows, l : rows = incoming[q] /\ l = lastId[q].incoming
  OBVIOUS
<1>6. PICK b : b = IncomingBlock(rows, e)
  OBVIOUS
<1>7. stage'[q] = Append(Tail(stage[q]), b)
  BY <1>1, <1>2, <1>4, <1>5, <1>6 DEF RunPollIncoming, AllDomains
<1>8. /\ IsFiniteSet(rows) /\ OwnIds(rows) /\ \A r \in rows : r.seq \in Nat /\ r.id <= l
      /\ stage[q] \in Seq(TypedBlocks)
  BY <1>1, <1>5, ClientFacts
<1>9. Whence(rows, t, T, e) /\ StageFlow(stage[q], rows, l, t, T, e)
  BY <1>1, <1>5 DEF Receiver
<1>10. SnapshotFlow(b, rows, l, t, T, e) /\ End(b) = t
  BY <1>1, <1>6, <1>8, <1>9, SnapshotTaken
<1>11. PICK s : s = Tail(stage[q])
  OBVIOUS
<1>12. s \in Seq(TypedBlocks) /\ StageFlow(s, rows, l, t, T, e)
  BY <1>3, <1>8, <1>9, <1>11, StageFlowRest
<1>13. \A i \in DOMAIN s : Snapshot(s[i]) => End(s[i]) <= End(b)
  BY <1>10, <1>12 DEF StageFlow, SnapshotFlow
<1>14. StageFlow(Append(s, b), rows, l, t, T, e)
  BY <1>10, <1>12, <1>13, StageFlowMore
<1>15. Receiver(q, t, T, e, a)'
  BY <1>1, <1>3, <1>5, <1>7, <1>11, <1>14, ReceiverStage
<1> QED BY <1>1, <1>3, <1>15, QuietRun DEF Acts, StageStep

(* The receiver's own requests are taken, answered or refused.             *)
LEMMA AcceptAsked ==
  ASSUME TypeInv, NEW p \in Peers, NEW f, NEW t, NEW T, NEW e, NEW a, Flow(p, f, t, T, e, a),
         NEW q, q = Other(p), Accept(q)
  PROVE  FlowAt(p)'
<1>1. /\ q \in Peers /\ q # p /\ Other(q) = p /\ Receiver(q, t, T, e, a) /\ e \in Nat /\ Asked(p)
      /\ t \in Nat /\ t <= f /\ network[p] \in Seq(QuietMessages) /\ Net(network[q], f, t, T)
  BY SameReceived, OtherEnd
<1>2. AllDomains
  BY AllThere
<1>3. UNCHANGED <<outgoing, incoming, lastId, seqIn, processed, writes, shown, stage>>
  BY DEF Accept, persistent, history
<1>4. PICK r \in requests[q] :
        /\ requests'[q] = (requests[q] \ {r}) \cup {[r EXCEPT !.accepted = TRUE]}
        /\ network' = [network EXCEPT ![p] = Append(network[p], r.message)]
  BY <1>1, <1>2 DEF Accept, AllDomains
<1>5. r \in Requests
  BY <1>1 DEF TypeInv, Types, Typed
<1>6. [r EXCEPT !.accepted = TRUE].message = r.message /\ r.message \in QuietMessages
  BY <1>1, <1>5 DEF Requests, Asked
<1>7. Asked(p)'
  BY <1>1, <1>3, <1>4, <1>6 DEF Asked
<1>8. network'[p] = Append(network[p], r.message) /\ network'[q] = network[q]
  BY <1>1, <1>2, <1>4 DEF AllDomains
<1>9. network'[p] \in Seq(QuietMessages)
  BY <1>1, <1>6, <1>8
<1>10. Receiver(q, t, T, e, a)'
  BY <1>1, <1>3, ReceiverSame
<1> QED BY <1>1, <1>7, <1>8, <1>9, <1>10, FlowReceived DEF Acts

LEMMA AnswerAsked ==
  ASSUME TypeInv, NEW p \in Peers, NEW f, NEW t, NEW T, NEW e, NEW a, Flow(p, f, t, T, e, a),
         NEW q, q = Other(p), Complete(q) \/ Fail(q)
  PROVE  FlowAt(p)'
<1>1. q \in Peers /\ Receiver(q, t, T, e, a) /\ e \in Nat /\ Asked(p)
  BY SameReceived
<1>2. AllDomains
  BY AllThere
<1>3. UNCHANGED <<network, outgoing, incoming, lastId, seqIn, processed, writes, shown, stage>>
  BY DEF Complete, Fail, persistent, history
<1>4. requests'[q] \subseteq requests[q]
  BY <1>1, <1>2 DEF Complete, Fail, AllDomains
<1>5. Asked(p)'
  BY <1>1, <1>3, <1>4 DEF Asked
<1>6. Receiver(q, t, T, e, a)'
  BY <1>1, <1>3, ReceiverSame
<1> QED BY <1>1, <1>3, <1>5, <1>6, FlowRun DEF Acts

(* The receiver sorts out a snapshot.  It has no gap, so the block asks    *)
(* for nothing.                                                            *)
LEMMA BlockFlow ==
  ASSUME TypeInv, NEW q \in Peers, NEW t \in Nat, NEW T, T \subseteq Nat, NEW e \in Nat, NEW a,
         Receiver(q, t, T, e, a), stage[q] # <<>>, writes[q] = <<>>,
         NEW b, b = Head(stage[q]), Snapshot(b)
  PROVE  /\ Kept(b.rows, b.next) = {} /\ End(b) \in Nat /\ e <= End(b) /\ End(b) <= t
         /\ StageFlow(Tail(stage[q]), incoming[q], lastId[q].incoming, t, T, End(b))
         /\ WritesFlow(BlockWrites(b.rows, b.next), e, incoming[q], T, End(b),
                       Ascending(TextsOf(b.rows, b.next)))
         /\ Conversation(shown[q], BlockWrites(b.rows, b.next), T, End(b),
                         Ascending(TextsOf(b.rows, b.next)))
         /\ Whence(incoming[q], t, T, End(b))
<1>1. PICK s, old, l : s = stage[q] /\ old = incoming[q] /\ l = lastId[q].incoming
  OBVIOUS
<1>2. s \in Seq(TypedBlocks) /\ 1 \in DOMAIN s /\ b = s[1] /\ s # <<>>
  BY <1>1, ClientFacts
<1>3. PICK rows, next, d : rows = b.rows /\ next = b.next /\ d = End(b)
  OBVIOUS
<1>4. /\ rows \subseteq Rows /\ IsFiniteSet(rows) /\ OwnIds(rows) /\ next \in Nat
      /\ \A r \in rows : r.seq \in Nat /\ r.id \in Nat
      /\ d \in Nat /\ next <= d /\ d = NextExpected(rows, next)
  BY <1>1, <1>2, <1>3, BlockFacts DEF End
<1>5. /\ StageFlow(s, old, l, t, T, e) /\ SnapshotFlow(b, old, l, t, T, e)
      /\ Whence(old, t, T, e)
  BY <1>1, <1>2 DEF Receiver, StageFlow
<1>6. /\ next <= e /\ e <= d /\ d <= t /\ Whence(rows, d, T, next)
      /\ \A r \in rows : \A x \in old : r.id = x.id => r = x
  BY <1>3, <1>5 DEF SnapshotFlow
<1>7. /\ Kept(rows, next) = {}
      /\ TextsOf(rows, next) = {m \in T \cap Nat : next <= m /\ m < d}
      /\ \A m \in Seqs(OfType(ToProcess(rows, next), "deletion")) : m < d /\ m \notin T
      /\ IsFiniteSet(TextsOf(rows, next)) /\ TextsOf(rows, next) \subseteq Int
  BY <1>4, <1>6, WholeBlock
<1>8. PICK c, w, X : /\ c = Ascending(TextsOf(rows, next)) /\ w = BlockWrites(rows, next)
                     /\ X = TextsOf(rows, next)
  OBVIOUS
<1>9. Rising(c) /\ ToSet(c) = X /\ c \in Seq(Int)
  <2>1. Rising(c) /\ ToSet(c) = X /\ c \in Seq(X)
    BY <1>7, <1>8, AscendingRises, AscendingList
  <2> QED BY <1>7, <1>8, <2>1, SeqMonotonic
<1>10. PICK S : w \in Seq(S) /\ \A x \in S : Made(rows, next, x)
  BY <1>4, <1>8, BlockPosts
<1>11. Pending(w, "seqIn") /\ (c # <<>> => Pending(w, "add"))
  BY <1>4, <1>8, BlockPosts
<1>12. StageFlow(Tail(s), old, l, t, T, d)
  <2>1. PICK r : r = Tail(s)
    OBVIOUS
  <2>2. StageFlow(r, old, l, t, T, e)
    BY <1>2, <1>5, <2>1, StageFlowRest
  <2>3. ASSUME NEW i \in DOMAIN r, Snapshot(r[i]) PROVE SnapshotFlow(r[i], old, l, t, T, d)
    <3>1. i + 1 \in DOMAIN s /\ 1 < i + 1 /\ r[i] = s[i + 1]
      BY <1>2, <2>1, <2>3
    <3>2. d <= End(r[i])
      BY <1>2, <1>3, <1>5, <2>3, <3>1 DEF StageFlow, InTurn
    <3>3. SnapshotFlow(r[i], old, l, t, T, e)
      BY <2>2, <2>3 DEF StageFlow
    <3>4. r[i].next \in Nat
      BY <1>1, <2>3, <3>1, BlockFacts
    <3>5. r[i].next <= d
      BY <1>4, <1>6, <3>3, <3>4 DEF SnapshotFlow
    <3> QED BY <3>2, <3>3, <3>5 DEF SnapshotFlow
  <2> QED BY <2>1, <2>2, <2>3 DEF StageFlow
<1>13. ASSUME NEW i \in DOMAIN w PROVE WriteFlow(w[i], old, T, d, c)
  <2>1. PICK x : x = w[i]
    OBVIOUS
  <2>2. Made(rows, next, x)
    BY <1>10, <2>1
  <2>3. x.type = "seqIn" => x.seq = d
    BY <1>4, <2>2 DEF Made
  <2>4. ASSUME x.type = "delete", NEW r \in old, r.id \in x.ids PROVE r.seq < d
    <3>1. x.ids = {z.id : z \in rows \ Kept(rows, next)}
      BY <2>2, <2>4 DEF Made
    <3>2. PICK z \in rows : z.id = r.id
      BY <2>4, <3>1
    <3>3. z = r
      BY <1>6, <2>4, <3>2
    <3> QED BY <1>6, <3>2, <3>3 DEF Whence
  <2>5. x.type = "add" => x.seqs = c
    BY <1>8, <2>2 DEF Made
  <2>6. x.type = "remove" => \A n \in x.seqs : n < d /\ n \notin T
    <3>1. x.type = "remove" => x.seqs = Seqs(OfType(ToProcess(rows, next), "deletion"))
      BY <2>2 DEF Made
    <3> QED BY <1>7, <3>1
  <2> QED BY <2>1, <2>3, <2>4, <2>5, <2>6 DEF WriteFlow
<1>14. WritesFlow(w, e, old, T, d, c)
  BY <1>11, <1>13 DEF WritesFlow
<1>15. PICK h : h = shown[q]
  OBVIOUS
<1>16. /\ Rising(h) /\ (\A n \in ToSet(h) : n \in T /\ n < e)
       /\ \A n \in T : n < e => n \in ToSet(h)
  <2>1. Rising(h) /\ (\A n \in ToSet(h) : n \in T /\ n < e)
    BY <1>15 DEF Receiver, Conversation
  <2> QED BY <1>15, <2>1, ReceiverIdle
<1>17. Conversation(h, w, T, d, c)
  <2>1. \A n \in X : n \in T /\ n < d /\ n \in Nat
    BY <1>7, <1>8
  <2>2. ASSUME NEW n \in ToSet(h) PROVE n \in T /\ n < d /\ n \in Nat
    <3>1. n \in T /\ n < e
      BY <1>16, Zenon
    <3>2. n \in Nat
      BY <3>1
    <3> QED BY <1>4, <1>6, <3>1, <3>2
  <2>3. ASSUME NEW n \in X, NEW m \in ToSet(h), n \notin ToSet(h) PROVE m < n
    <3>1. ~(n < e) /\ m < e /\ n \in Nat /\ m \in Nat
      BY <1>16, <2>1, <2>2, <2>3
    <3> QED BY <3>1
  <2>4. ASSUME NEW n \in T, n < d, n \notin ToSet(h) PROVE n \in X /\ Pending(w, "add")
    <3>1. n \in Nat /\ ~(n < e)
      BY <1>16, <2>4
    <3>2. next <= n
      BY <1>4, <1>6, <3>1
    <3>3. n \in X
      BY <1>7, <1>8, <2>4, <3>1, <3>2
    <3>4. c # <<>>
      BY <1>9, <3>3 DEF ToSet
    <3> QED BY <1>11, <3>3, <3>4
  <2> QED BY <1>9, <1>16, <2>1, <2>2, <2>3, <2>4 DEF Conversation
<1>18. Whence(old, t, T, d)
  <2>1. \A r \in old : r.seq \in Nat
    BY <1>1, ClientFacts
  <2> QED BY <1>4, <1>5, <1>6, <2>1, WhenceLater
<1> QED BY <1>1, <1>3, <1>4, <1>6, <1>7, <1>8, <1>12, <1>14, <1>15, <1>17, <1>18

LEMMA RunIncomingFlow ==
  ASSUME TypeInv, NEW p \in Peers, NEW f, NEW t, NEW T, NEW e, NEW a, Flow(p, f, t, T, e, a),
         NEW q, q = Other(p), RunIncoming(q)
  PROVE  FlowAt(p)'
<1>1. /\ q \in Peers /\ Receiver(q, t, T, e, a) /\ e \in Nat /\ t \in Nat /\ e <= t /\ f \in Nat
      /\ Sender(p, f, T)
  BY SameReceived
<1>2. AllDomains
  BY AllThere
<1>3. /\ UNCHANGED <<network, requests, incoming, lastId, seqIn, processed, shown>>
      /\ stage[q] # <<>> /\ writes[q] = <<>> /\ Head(stage[q]).type = "incoming"
  BY DEF RunIncoming, Runs, Idle, history
<1>4. PICK b : b = Head(stage[q])
  OBVIOUS
<1>5. T \subseteq Nat /\ Snapshot(b)
  BY <1>1, <1>3, <1>4 DEF Sender, Snapshot
<1>6. PICK d, c, w : d = End(b) /\ c = Ascending(TextsOf(b.rows, b.next)) /\ w = BlockWrites(b.rows, b.next)
  OBVIOUS
<1>7. /\ Kept(b.rows, b.next) = {} /\ d \in Nat /\ e <= d /\ d <= t
      /\ StageFlow(Tail(stage[q]), incoming[q], lastId[q].incoming, t, T, d)
      /\ WritesFlow(w, e, incoming[q], T, d, c)
      /\ Conversation(shown[q], w, T, d, c)
      /\ Whence(incoming[q], t, T, d)
  BY <1>1, <1>3, <1>4, <1>5, <1>6, BlockFlow
<1>8. outgoing' = outgoing /\ writes'[q] = w /\ stage'[q] = Tail(stage[q])
  BY <1>1, <1>2, <1>4, <1>6, <1>7 DEF RunIncoming, AllDomains
<1>9. seqIn[q] = e /\ processed[q] <= e /\ processed[q] \in Nat
  BY <1>1, <1>3, ReceiverIdle, ClientFacts DEF Receiver
<1>10. Receiver(q, t, T, d, c)'
  <2>1. seqIn'[q] <= d /\ processed'[q] <= d
    BY <1>1, <1>3, <1>7, <1>9
  <2> QED BY <1>3, <1>7, <1>8, <1>9, <2>1 DEF Receiver
<1> QED BY <1>1, <1>3, <1>7, <1>8, <1>10, QuietRun DEF Acts, StageStep

(* Any step of the receiver but a crash.                                   *)
LEMMA ReceiverFlow ==
  ASSUME TypeInv, TypeInv', NEW p \in Peers, NEW f, NEW t, NEW T, NEW e, NEW a,
         Flow(p, f, t, T, e, a), Acts(Other(p)), ~Restart(Other(p))
  PROVE  FlowAt(p)'
<1>1. PICK q : q = Other(p)
  OBVIOUS
<1>2. CASE StageStep(q)
  BY <1>1, <1>2, RunPollsFlow, RunOutgoingAsked, RunPollIncomingFlow,
      RunIncomingFlow DEF StageStep
<1>3. CASE DatabaseStep(q)
  BY <1>1, <1>3, WritePollFlow DEF DatabaseStep
<1>4. CASE Send(q) \/ Accept(q) \/ Complete(q) \/ Fail(q) \/ Receive(q)
  BY <1>1, <1>4, SendAskedFlow, AcceptAsked, AnswerAsked, ReceiveFlow
<1> QED BY <1>1, <1>2, <1>3, <1>4 DEF Acts

-----------------------------------------------------------------------------
(* Steps of the sender                                                     *)

(* What a poll reads has no gap from the first number the server has not   *)
(* taken: the rows are in the table until the peer has processed them.     *)
LEMMA PollFlows ==
  ASSUME TypeInv, NEW p \in Peers, NEW f, NEW t, NEW T, NEW e, NEW a, Flow(p, f, t, T, e, a)
  PROVE  /\ OutgoingBlock(p, stored[p]) \in FlowBlocks(f)
         /\ OutgoingBlock(p, stored[p] \cup {Len(outgoing[p])}) \in FlowBlocks(f)
         /\ PollOutgoing \in FlowBlocks(f) /\ PollIncoming \in FlowBlocks(f)
<1>1. PICK l, F : l = Len(outgoing[p]) /\ F = stored[p]
  OBVIOUS
<1>2. /\ f \in Nat /\ e \in Nat /\ t \in Nat /\ e <= t /\ t <= f /\ Other(p) \in Peers
      /\ Sender(p, f, T) /\ Receiver(Other(p), t, T, e, a)
  BY SameReceived
<1>3. processed[Other(p)] \in Nat /\ processed[Other(p)] <= e
  BY <1>2, ClientFacts DEF Receiver
<1>4. l \in Nat /\ F \subseteq 0 .. l - 1
  BY <1>1, StoredNat DEF TypeInv, Inv, Sound, Numbers
<1>5. \A k \in 0 .. l - 1 : k \notin F => k < processed[Other(p)]
  BY <1>1 DEF TypeInv, Inv, KeptUntilProcessed
<1>6. ASSUME NEW k \in Nat, f <= k, k < l PROVE k \in F
  <2>1. k \in 0 .. l - 1 /\ ~(k < processed[Other(p)])
    BY <1>2, <1>3, <1>4, <1>6
  <2> QED BY <1>5, <2>1
<1>7. sentSeqOut[p] \in Int /\ sentSeqOut[p] < f /\ resends[p] = {}
  BY <1>2 DEF Sender, TypeInv, Types, Typed
<1>8. ASSUME NEW R, R = F \/ R = F \cup {l}, NEW n \in Unsent(p, R) PROVE FromTo(f, n, Unsent(p, R))
  <2> SUFFICES ASSUME NEW k \in Nat, f <= k, k < n PROVE k \in Unsent(p, R)
    BY DEF FromTo
  <2>1. n \in R /\ n \in Nat /\ n <= l
    <3>1. n \in R
      BY <1>8 DEF Unsent
    <3>2. n \in F \/ n = l
      BY <1>8, <3>1
    <3>3. n \in F => n \in Nat /\ n <= l
      <4>1. n \in F => n \in 0 .. l - 1
        BY <1>4
      <4> QED BY ONLY <1>4, <4>1
    <3> QED BY ONLY <1>4, <3>1, <3>2, <3>3
  <2>2. k \in F /\ k > sentSeqOut[p]
    BY <1>2, <1>4, <1>6, <1>7, <2>1
  <2> QED BY <1>8, <2>2 DEF Unsent
<1>9. ASSUME NEW R, R = F \/ R = F \cup {l} PROVE OutgoingBlock(p, R) \in FlowBlocks(f)
  <2>1. PICK b : b = OutgoingBlock(p, R)
    OBVIOUS
  <2>2. b \in TypedBlocks
    BY <1>1, <1>9, <2>1, PollBlock
  <2>3. b.type = "outgoing" /\ b.rows = Unsent(p, R) /\ b.resends = {}
    BY <1>7, <2>1 DEF OutgoingBlock
  <2>4. \A n \in b.rows : FromTo(f, n, b.rows)
    BY <1>8, <1>9, <2>3
  <2> QED BY <2>1, <2>2, <2>3, <2>4 DEF FlowBlocks
<1>10. PollOutgoing \in FlowBlocks(f) /\ PollIncoming \in FlowBlocks(f)
  BY PollBlock DEF FlowBlocks, PollOutgoing, PollIncoming
<1> QED BY <1>1, <1>9, <1>10

LEMMA StageOf ==
  ASSUME NEW S, NEW s \in Seq(S), NEW b \in S
  PROVE  /\ s \o <<b>> \in Seq(S) /\ s \o <<b, b>> \in Seq(S)
         /\ s # <<>> => Tail(s) \in Seq(S) /\ Append(Tail(s), b) \in Seq(S)
<1>1. s \o <<b>> \in Seq(S) /\ s \o <<b, b>> \in Seq(S)
  OBVIOUS
<1>2. ASSUME s # <<>> PROVE Tail(s) \in Seq(S) /\ Append(Tail(s), b) \in Seq(S)
  BY <1>2
<1> QED BY <1>1, <1>2

(* The outgoing table grows.                                               *)
LEMMA SenderGrows ==
  ASSUME TypeInv, NEW p \in Peers, NEW f \in Nat, NEW T, Sender(p, f, T),
         NEW row, outgoing'[p] = Append(outgoing[p], row),
         sentSeqOut'[p] = sentSeqOut[p], resends'[p] = resends[p],
         delivered'[p] = delivered[p], requests'[p] = requests[p],
         executing'[p] = executing[p],
         \/ waiting'[p] = waiting[p]
         \/ /\ waiting'[p] = waiting[p] \cup {OutgoingId(Len(outgoing[p]))}
            /\ row.body = Text,
         stage'[p] \in Seq(FlowBlocks(f))
  PROVE  Sender(p, f, T)'
<1>1. PICK l : l = Len(outgoing[p])
  OBVIOUS
<1>2. outgoing[p] \in Seq(OutRows) /\ l \in Nat
  BY <1>1, LenProperties DEF TypeInv, Types, Typed
<1>3. /\ Len(outgoing'[p]) = l + 1 /\ outgoing'[p][l + 1] = row
      /\ \A i \in 1 .. l : outgoing'[p][i] = outgoing[p][i]
  BY <1>1, <1>2
<1>4. \A k, n \in Nat : OutgoingId(k) = OutgoingId(n) => k = n
  BY PeersAssumption DEF OutgoingId
<1>5. f <= l + 1
  BY <1>1, <1>2 DEF Sender
<1>6. ASSUME NEW k \in Nat, OutgoingId(k) \in executing'[p]
      PROVE  k < l + 1 /\ (k >= f => k \in {x.row.seq : x \in requests'[p]})
  <2>1. k < l /\ (k >= f => k \in {x.row.seq : x \in requests[p]})
    BY <1>1, <1>6 DEF Sender
  <2> QED BY <1>2, <2>1
<1>7. ASSUME NEW n \in Nat, OutgoingId(n) \in waiting'[p]
      PROVE  /\ n < l + 1 /\ outgoing'[p][n + 1].body = Text
             /\ n < f => OutgoingId(n) \in executing'[p]
  <2>1. CASE OutgoingId(n) \in waiting[p]
    <3>1. /\ n < l /\ outgoing[p][n + 1].body = Text
          /\ n < f => OutgoingId(n) \in executing[p]
      BY <1>1, <2>1 DEF Sender
    <3>2. n < l + 1 /\ n + 1 \in 1 .. l
      BY <1>2, <3>1
    <3> QED BY <1>3, <3>1, <3>2
  <2>2. CASE OutgoingId(n) = OutgoingId(l) /\ row.body = Text
    <3>1. n = l
      BY <1>2, <1>4, <2>2
    <3>2. f <= l
      BY <1>1 DEF Sender
    <3> QED BY <1>2, <1>3, <2>2, <3>1, <3>2
  <2> QED BY <1>1, <1>7, <2>1, <2>2
<1>8. ASSUME NEW r \in requests'[p]
      PROVE  RequestFlow(r, requests'[p], executing'[p], waiting'[p], f, T)
  <2>1. RequestFlow(r, requests[p], executing[p], waiting[p], f, T)
    BY <1>8 DEF Sender
  <2>2. PICK n \in Nat : n = r.row.seq
    BY <1>8 DEF TypeInv, Types, Typed, Requests
  <2>3. r.row.id = OutgoingId(n) /\ r.row.id \in executing[p]
    BY <2>1, <2>2 DEF RequestFlow
  <2>4. n < l
    BY <1>1, <2>3 DEF Sender
  <2>5. r.row.id # OutgoingId(l)
    BY <1>2, <1>4, <2>3, <2>4
  <2>6. r.row.id \in waiting'[p] => r.row.id \in waiting[p]
    BY <1>1, <2>5
  <2> QED BY <2>1, <2>6 DEF RequestFlow
<1> QED BY <1>3, <1>5, <1>6, <1>7, <1>8 DEF Sender

LEMMA SendFlow ==
  ASSUME TypeInv, NEW p \in Peers, NEW f, NEW t, NEW T, NEW e, NEW a, Flow(p, f, t, T, e, a),
         Send(p)
  PROVE  FlowAt(p)'
<1>1. /\ f \in Nat /\ Sender(p, f, T) /\ Answers(p) /\ network[p] \in Seq(QuietMessages)
  BY SameReceived
<1>2. AllDomains
  BY AllThere
<1>3. /\ UNCHANGED <<sentSeqOut, resends, delivered, requests, executing>>
      /\ UNCHANGED <<network, incoming, writes>>
  BY DEF Send
<1>4. PICK b : b = OutgoingBlock(p, stored[p] \cup {Len(outgoing[p])})
  OBVIOUS
<1>5. stage'[p] = stage[p] \o <<b, b>>
  BY <1>2, <1>4 DEF Send, Post, AllDomains
<1>6. b \in FlowBlocks(f) /\ stage[p] \in Seq(FlowBlocks(f))
  BY <1>1, <1>4, PollFlows DEF Sender
<1>7. stage'[p] \in Seq(FlowBlocks(f))
  BY <1>5, <1>6, StageOf
<1>8. PICK row : row = [seqIn |-> seqIn[p], body |-> Text]
  OBVIOUS
<1>9. outgoing'[p] = Append(outgoing[p], row) /\ row.body = Text
  BY <1>2, <1>8 DEF Send, Enqueue, AllDomains
<1>10. waiting'[p] = waiting[p] \cup {OutgoingId(Len(outgoing[p]))}
  BY <1>2 DEF Send, AllDomains
<1>11. Sender(p, f, T)'
  BY <1>1, <1>3, <1>7, <1>9, <1>10, SenderGrows
<1>12. Answers(p)'
  BY <1>1, <1>3, AnswersSame
<1> QED BY <1>1, <1>3, <1>11, <1>12, FlowSent DEF Acts

(* Steps that only change the stage and the queries of the sender.         *)
LEMMA SenderRun ==
  ASSUME TypeInv, NEW p \in Peers, NEW f, NEW t, NEW T, NEW e, NEW a, Flow(p, f, t, T, e, a),
         Acts(p), UNCHANGED <<outgoing, sentSeqOut, delivered, requests, executing>>,
         UNCHANGED <<waiting, resends, network>>, NEW b \in FlowBlocks(f),
         \/ stage'[p] = stage[p] \/ stage'[p] = stage[p] \o <<b>>
         \/ stage[p] # <<>> /\ stage'[p] = Append(Tail(stage[p]), b),
         Answers(p)'
  PROVE  FlowAt(p)'
<1>1. /\ f \in Nat /\ Sender(p, f, T) /\ network[p] \in Seq(QuietMessages)
  BY SameReceived
<1>2. stage[p] \in Seq(FlowBlocks(f))
  BY <1>1 DEF Sender
<1>3. stage'[p] \in Seq(FlowBlocks(f))
  BY <1>2, StageOf
<1>4. Sender(p, f, T)'
  BY <1>1, <1>3, SenderStage
<1> QED BY <1>1, <1>4, FlowSent

LEMMA PollsFlow ==
  ASSUME TypeInv, NEW p \in Peers, NEW f, NEW t, NEW T, NEW e, NEW a, Flow(p, f, t, T, e, a),
         RunPollOutgoing(p) \/ RunPollIncoming(p)
  PROVE  FlowAt(p)'
<1>1. Answers(p)
  BY SameReceived
<1>2. AllDomains
  BY AllThere
<1>3. /\ UNCHANGED <<outgoing, sentSeqOut, delivered, requests, executing>>
      /\ UNCHANGED <<waiting, resends, network, incoming, writes>> /\ stage[p] # <<>>
  BY DEF RunPollOutgoing, RunPollIncoming, Runs, persistent
<1>4. Answers(p)'
  BY <1>1, <1>3, AnswersSame
<1>5. Acts(p)
  BY DEF Acts, StageStep
<1>6. CASE RunPollOutgoing(p)
  <2>1. stage'[p] = Append(Tail(stage[p]), OutgoingBlock(p, stored[p]))
    BY <1>2, <1>6 DEF RunPollOutgoing, AllDomains
  <2>2. OutgoingBlock(p, stored[p]) \in FlowBlocks(f)
    BY PollFlows
  <2> QED BY <1>3, <1>4, <1>5, <2>1, <2>2, SenderRun
<1>7. CASE RunPollIncoming(p)
  <2>1. PICK b : b = IncomingBlock(incoming[p], seqIn[p])
    OBVIOUS
  <2>2. stage'[p] = Append(Tail(stage[p]), b)
    BY <1>2, <1>7, <2>1 DEF RunPollIncoming, AllDomains
  <2>3. b \in FlowBlocks(f)
    <3>1. b \in TypedBlocks
      BY <2>1, ClientFacts, BlockTypes DEF IncomingBlock
    <3>2. b.type = "incoming" /\ b.rows \subseteq QuietRows
      BY <1>1, <2>1 DEF IncomingBlock, Answers
    <3> QED BY <3>1, <3>2 DEF FlowBlocks
  <2> QED BY <1>3, <1>4, <1>5, <2>2, <2>3, SenderRun
<1> QED BY <1>6, <1>7

LEMMA QueriesFlow ==
  ASSUME TypeInv, NEW p \in Peers, NEW f, NEW t, NEW T, NEW e, NEW a, Flow(p, f, t, T, e, a),
         DatabaseStep(p)
  PROVE  FlowAt(p)'
<1>1. Answers(p)
  BY SameReceived
<1>2. AllDomains
  BY AllThere
<1>3. PICK type : Writes(p, type)
  BY DEF DatabaseStep, WritePoll, WriteDelete, WriteSeqIn, WriteConfirm,
      WriteResend, WriteAdd,
         WriteRemove
<1>4. /\ UNCHANGED <<outgoing, sentSeqOut, delivered, requests, executing>>
      /\ UNCHANGED <<waiting, network>>
      /\ writes[p] # <<>> /\ writes'[p] = Tail(writes[p])
  BY <1>2, <1>3 DEF Writes, AllDomains
<1>5. writes[p] \in Seq(QuietQueries) /\ incoming[p] \subseteq QuietRows
  BY <1>1 DEF Answers
<1>6. Head(writes[p]) \in QuietQueries /\ writes'[p] \in Seq(QuietQueries)
  BY <1>4, <1>5, SeqRest
<1>7. ~WriteResend(p)
  BY <1>6 DEF WriteResend, Writes, QuietQueries
<1>8. resends' = resends
  BY <1>7 DEF DatabaseStep, WritePoll, WriteDelete, WriteSeqIn, WriteConfirm,
      WriteAdd, WriteRemove
<1>9. incoming'[p] \subseteq incoming[p]
  BY <1>2, <1>7 DEF DatabaseStep, WritePoll, WriteDelete, WriteSeqIn, WriteConfirm,
      WriteAdd,
                    WriteRemove, AllDomains
<1>10. Answers(p)'
  BY <1>5, <1>6, <1>9 DEF Answers
<1>11. Acts(p)
  BY DEF Acts
<1>12. stage'[p] = stage[p] \/ stage'[p] = stage[p] \o <<OutgoingBlock(p, stored[p])>>
  BY <1>2, <1>7 DEF DatabaseStep, WritePoll, WriteDelete, WriteSeqIn, WriteConfirm,
      WriteAdd,
                    WriteRemove, Post, AllDomains
<1>13. OutgoingBlock(p, stored[p]) \in FlowBlocks(f)
  BY PollFlows
<1> QED BY <1>4, <1>8, <1>10, <1>11, <1>12, <1>13, SenderRun

LEMMA OwnNumbers ==
  \A k, n \in Nat : OutgoingId(k) = OutgoingId(n) => k = n
BY PeersAssumption DEF OutgoingId

LEMMA RequestNumber ==
  ASSUME TypeInv, NEW p \in Peers, NEW r \in requests[p]
  PROVE  r \in Requests /\ r.row.seq \in Nat /\ r.accepted \in BOOLEAN /\ r.message \in Messages
BY DEF TypeInv, Types, Typed, Requests

(* More requests and ids.                                                  *)
LEMMA RequestFlowMore ==
  ASSUME NEW r, NEW R, NEW X, NEW W, NEW f, NEW T, NEW S, NEW Y, RequestFlow(r, R, X, W, f, T),
         R \subseteq S, X \subseteq Y
  PROVE  RequestFlow(r, S, Y, W, f, T)
<1>1. \A m, n : FromTo(m, n, {x.row.seq : x \in R}) => FromTo(m, n, {x.row.seq : x \in S})
  BY DEF FromTo
<1> QED BY <1>1 DEF RequestFlow

LEMMA RunOutgoingFlow ==
  ASSUME TypeInv, NEW p \in Peers, NEW f, NEW t, NEW T, NEW e, NEW a, Flow(p, f, t, T, e, a),
         RunOutgoing(p)
  PROVE  FlowAt(p)'
<1>1. /\ f \in Nat /\ Sender(p, f, T) /\ Answers(p) /\ network[p] \in Seq(QuietMessages)
  BY SameReceived
<1>2. /\ UNCHANGED <<outgoing, sentSeqOut, resends, delivered, waiting>>
      /\ UNCHANGED <<network, incoming, writes>>
  BY DEF RunOutgoing, persistent
<1>3. PICK b, new : b = Head(stage[p]) /\ new = NewRows(p, b)
  OBVIOUS
<1>4. /\ stage[p] # <<>> /\ stage'[p] = Tail(stage[p]) /\ b.type = "outgoing"
      /\ \A y \in requests'[p] : y \in requests[p] \/ Becomes(p, new, y)
      /\ requests[p] \subseteq requests'[p]
      /\ \A y, z \in requests'[p] \ requests[p] : y.row = z.row => y = z
      /\ \A r \in new : \E y \in requests'[p] : y.row = r
      /\ executing'[p] = executing[p] \cup {r.id : r \in new}
      /\ \A n \in b.rows : OutgoingId(n) \notin executing[p] =>
           [id |-> OutgoingId(n), seq |-> n, resend |-> FALSE] \in new
      /\ \A r \in new : r.seq \in Numbers(p)
      /\ b.rows \subseteq Nat
  BY <1>3, RequestsMade
<1>5. /\ b \in FlowBlocks(f) /\ stage'[p] \in Seq(FlowBlocks(f))
  BY <1>1, <1>3, <1>4, SeqRest DEF Sender
<1>6. b.resends = {} /\ \A n \in b.rows : FromTo(f, n, b.rows)
  BY <1>4, <1>5 DEF FlowBlocks
<1>7. \A r \in new :
        /\ r.id \notin executing[p]
        /\ \E n \in b.rows : r = [id |-> OutgoingId(n), seq |-> n, resend |-> FALSE]
  BY <1>3, <1>6, RequestsMade
<1>8. \A r \in new : /\ r.seq \in b.rows /\ r.id = OutgoingId(r.seq) /\ r.resend = FALSE
                     /\ r.seq \in Nat /\ r.id \notin executing[p]
  BY <1>4, <1>7
<1>9. ASSUME NEW r \in new, NEW z \in new, r.seq = z.seq PROVE r = z
  <2>1. PICK n \in b.rows : r = [id |-> OutgoingId(n), seq |-> n, resend |-> FALSE]
    BY <1>7
  <2>2. PICK m \in b.rows : z = [id |-> OutgoingId(m), seq |-> m, resend |-> FALSE]
    BY <1>7
  <2>3. r.seq = n /\ z.seq = m
    BY <2>1, <2>2
  <2>4. n = m
    BY <1>9, <2>3
  <2> QED BY <2>1, <2>2, <2>4
<1>10. PICK l : l = Len(outgoing[p])
  OBVIOUS
<1>11. l \in Nat /\ \A r \in new : r.seq < l
  BY <1>4, <1>8, <1>10, StoredNat DEF Numbers
<1>12. \A x \in requests[p] : /\ RequestFlow(x, requests[p], executing[p], waiting[p], f, T)
                              /\ x.row.seq \in Nat /\ x.accepted \in BOOLEAN
  BY <1>1, RequestNumber DEF Sender
<1>13. \A x \in requests[p] : x.row.id = OutgoingId(x.row.seq) /\ x.row.id \in executing[p]
  BY <1>12 DEF RequestFlow
<1>14. ASSUME NEW y \in requests'[p], y \notin requests[p]
       PROVE  RequestFlow(y, requests'[p], executing'[p], waiting[p], f, T)
  <2>1. Becomes(p, new, y)
    BY <1>4, <1>14
  <2>2. PICK r, n : r = y.row /\ n = y.row.seq
    OBVIOUS
  <2>3. /\ r \in new /\ n \in b.rows /\ r.id = OutgoingId(n) /\ r.resend = FALSE /\ n \in Nat
        /\ r.id \notin executing[p] /\ y.accepted = FALSE /\ y.after = Before(p, new, n)
        /\ y.message = Message(p, n, Content(p, r.id, n))
    BY <1>8, <2>1, <2>2 DEF Becomes
  <2>4. r.id \in executing'[p]
    BY <1>4, <2>3
  <2>5. Number(y.message) = n
    <3>1. y.message.seqOut = Wire(n, p = Creator)
      BY <2>3 DEF Message
    <3> QED BY <2>3, <3>1, Halves DEF Number
  <2>6. ASSUME NEW k \in Nat, f <= k, k < n
        PROVE  k \in y.after /\ \E x \in requests'[p] : x.row.seq = k
    <3>1. k \in b.rows
      BY <1>6, <2>3, <2>6 DEF FromTo
    <3>2. CASE OutgoingId(k) \notin executing[p]
      <4>1. PICK z \in new : z = [id |-> OutgoingId(k), seq |-> k, resend |-> FALSE]
        BY <1>4, <3>1, <3>2
      <4>2. z.seq = k
        BY <4>1
      <4>3. k \in {x.seq : x \in new}
        BY <4>1, <4>2
      <4>4. k \in Before(p, new, n)
        BY <2>6, <4>3 DEF Before
      <4>5. \E x \in requests'[p] : x.row = z
        BY <1>4, <4>1
      <4> QED BY <2>3, <4>2, <4>4, <4>5
    <3>3. CASE OutgoingId(k) \in executing[p]
      <4>1. PICK x \in requests[p] : x.row.seq = k
        BY <1>1, <2>6, <3>3 DEF Sender
      <4>2. x.accepted = FALSE
        BY <1>12, <2>6, <4>1 DEF RequestFlow
      <4>3. k \in {z.row.seq : z \in {u \in requests[p] : ~u.accepted}}
        BY <4>1, <4>2
      <4>4. k \in Before(p, new, n)
        BY <2>6, <4>3 DEF Before
      <4> QED BY <1>4, <2>3, <4>1, <4>4
    <3> QED BY <3>2, <3>3
  <2>7. FromTo(f, n, y.after) /\ FromTo(f, n, {x.row.seq : x \in requests'[p]})
    BY <2>6 DEF FromTo
  <2>8. ASSUME r.id \in waiting[p] PROVE y.message.content = Text /\ n >= f
    <3>1. /\ outgoing[p][n + 1].body = Text /\ (n < f => OutgoingId(n) \in executing[p])
      BY <1>1, <2>3, <2>8 DEF Sender
    <3>2. Content(p, r.id, n) = Text
      BY <2>8, <3>1 DEF Content
    <3>3. y.message.content = Text
      BY <2>3, <3>2 DEF Message
    <3> QED BY <1>1, <2>3, <3>1, <3>3
  <2> QED BY <2>2, <2>3, <2>4, <2>5, <2>7, <2>8 DEF RequestFlow
<1>15. \A y \in requests[p] : RequestFlow(y, requests'[p], executing'[p], waiting[p], f, T)
  <2>1. executing[p] \subseteq executing'[p]
    BY <1>4
  <2> QED BY <1>4, <1>12, <2>1, RequestFlowMore
<1>16. ASSUME NEW x \in requests'[p], NEW y \in requests'[p], x.row.seq = y.row.seq PROVE x = y
  <2>1. CASE x \in requests[p] /\ y \in requests[p]
    BY <1>1, <1>16, <2>1 DEF Sender
  <2>2. ASSUME NEW v \in requests'[p], NEW w \in requests'[p], v.row.seq = w.row.seq,
               v \in requests[p], w \notin requests[p]
        PROVE  FALSE
    <3>1. Becomes(p, new, w)
      BY <1>4, <2>2
    <3>2. w.row \in new
      BY <3>1 DEF Becomes
    <3>3. w.row.id = OutgoingId(w.row.seq) /\ w.row.id \notin executing[p]
      BY <1>8, <3>2
    <3> QED BY <1>13, <2>2, <3>3
  <2>3. CASE x \notin requests[p] /\ y \notin requests[p]
    <3>1. x.row \in new /\ y.row \in new
      BY <1>4, <2>3 DEF Becomes
    <3>2. x.row = y.row
      BY <1>9, <1>16, <3>1
    <3> QED BY <1>4, <2>3, <3>2
  <2> QED BY <1>16, <2>1, <2>2, <2>3
<1>17. ASSUME NEW k \in Nat, OutgoingId(k) \in executing'[p]
       PROVE  k < l /\ (k >= f => k \in {x.row.seq : x \in requests'[p]})
  <2>1. CASE OutgoingId(k) \in executing[p]
    BY <1>1, <1>4, <1>10, <2>1 DEF Sender
  <2>2. CASE \E r \in new : OutgoingId(k) = r.id
    <3>1. PICK r \in new : OutgoingId(k) = r.id
      BY <2>2
    <3>2. k = r.seq
      BY <1>8, <3>1, OwnNumbers
    <3>3. \E x \in requests'[p] : x.row.seq = k
      BY <1>4, <3>1, <3>2
    <3> QED BY <1>11, <3>1, <3>2, <3>3
  <2> QED BY <1>4, <1>17, <2>1, <2>2
<1>18. Sender(p, f, T)'
  <2>1. /\ f <= Len(outgoing'[p]) /\ T \subseteq 0 .. f - 1
        /\ sentSeqOut'[p] < f /\ resends'[p] = {} /\ delivered'[p] \subseteq T
        /\ \A n \in Nat : OutgoingId(n) \in waiting'[p] =>
             /\ n < Len(outgoing'[p]) /\ outgoing'[p][n + 1].body = Text
             /\ n < f => OutgoingId(n) \in executing'[p]
    BY <1>1, <1>2, <1>4 DEF Sender
  <2>2. \A r \in requests'[p] :
          RequestFlow(r, requests'[p], executing'[p], waiting'[p], f, T)
    BY <1>2, <1>14, <1>15
  <2>3. \A k \in Nat : OutgoingId(k) \in executing'[p] =>
          k < Len(outgoing'[p]) /\ (k >= f => k \in {x.row.seq : x \in requests'[p]})
    BY <1>2, <1>10, <1>17
  <2> QED BY <1>5, <1>16, <2>1, <2>2, <2>3 DEF Sender
<1>19. Answers(p)'
  BY <1>1, <1>2, AnswersSame
<1> QED BY <1>1, <1>2, <1>18, <1>19, FlowSent DEF Acts, StageStep

LEMMA CompleteFlow ==
  ASSUME TypeInv, NEW p \in Peers, NEW f, NEW t, NEW T, NEW e, NEW a, Flow(p, f, t, T, e, a),
         Complete(p)
  PROVE  FlowAt(p)'
<1>1. /\ f \in Nat /\ Sender(p, f, T) /\ Answers(p) /\ network[p] \in Seq(QuietMessages)
  BY SameReceived
<1>2. AllDomains
  BY AllThere
<1>3. /\ UNCHANGED <<outgoing, executing, stage>> /\ UNCHANGED <<network, incoming, writes>>
  BY DEF Complete
<1>4. PICK r \in requests[p] :
        /\ r.accepted /\ requests'[p] = requests[p] \ {r}
        /\ waiting'[p] = waiting[p] \ {r.row.id}
        /\ delivered'[p] = delivered[p] \cup
             {id - FirstOutgoingId : id \in waiting[p] \cap {r.row.id}}
        /\ r.row.resend = FALSE => sentSeqOut'[p] = r.row.seq /\ resends' = resends
  BY <1>2 DEF Complete, AllDomains
<1>5. RequestFlow(r, requests[p], executing[p], waiting[p], f, T)
  BY <1>1 DEF Sender
<1>6. PICK n : n = r.row.seq
  OBVIOUS
<1>7. /\ r.row.resend = FALSE /\ r.row.id = OutgoingId(n) /\ n \in Nat /\ n < f
      /\ r.row.id \in waiting[p] => n \in T
  <2>1. n \in Nat /\ r.accepted = TRUE
    BY <1>4, <1>6, RequestNumber
  <2>2. ~(n >= f)
    BY <1>5, <1>6, <2>1 DEF RequestFlow
  <2> QED BY <1>1, <1>5, <1>6, <2>1, <2>2 DEF RequestFlow
<1>8. sentSeqOut'[p] < f /\ resends'[p] = {} /\ delivered'[p] \subseteq T
  <2>1. sentSeqOut'[p] < f /\ resends'[p] = {}
    BY <1>1, <1>4, <1>6, <1>7 DEF Sender
  <2>2. OutgoingId(n) - FirstOutgoingId = n
    BY <1>7, PeersAssumption DEF OutgoingId
  <2>3. \A x \in delivered'[p] : x \in delivered[p] \/ (x = n /\ r.row.id \in waiting[p])
    BY <1>4, <1>7, <2>2
  <2> QED BY <1>1, <1>7, <2>1, <2>3 DEF Sender
<1>9. ASSUME NEW k \in Nat, k >= f, k \in {x.row.seq : x \in requests[p]}
      PROVE  k \in {x.row.seq : x \in requests'[p]}
  <2>1. PICK x \in requests[p] : x.row.seq = k
    BY <1>9
  <2>2. x # r
    BY <1>1, <1>6, <1>7, <1>9, <2>1
  <2> QED BY <1>4, <2>1, <2>2
<1>10. ASSUME NEW x \in requests'[p]
       PROVE  RequestFlow(x, requests'[p], executing'[p], waiting'[p], f, T)
  <2>1. RequestFlow(x, requests[p], executing[p], waiting[p], f, T) /\ x.row.seq \in Nat
    BY <1>1, <1>4, <1>10, RequestNumber DEF Sender
  <2>2. FromTo(f, x.row.seq, {y.row.seq : y \in requests[p]}) =>
          FromTo(f, x.row.seq, {y.row.seq : y \in requests'[p]})
    BY <1>1, <1>9 DEF FromTo
  <2>3. waiting'[p] \subseteq waiting[p] /\ executing'[p] = executing[p]
    BY <1>3, <1>4
  <2> QED BY <2>1, <2>2, <2>3 DEF RequestFlow
<1>11. ASSUME NEW k \in Nat, OutgoingId(k) \in executing'[p]
       PROVE  k < Len(outgoing'[p]) /\ (k >= f => k \in {x.row.seq : x \in requests'[p]})
  <2>1. k < Len(outgoing[p]) /\ (k >= f => k \in {x.row.seq : x \in requests[p]})
    BY <1>1, <1>3, <1>11 DEF Sender
  <2> QED BY <1>3, <1>9, <2>1
<1>12. Sender(p, f, T)'
  <2>1. /\ f <= Len(outgoing'[p]) /\ T \subseteq 0 .. f - 1 /\ stage'[p] \in Seq(FlowBlocks(f))
        /\ \A x, y \in requests'[p] : x.row.seq = y.row.seq => x = y
    BY <1>1, <1>3, <1>4 DEF Sender
  <2>2. \A m \in Nat : OutgoingId(m) \in waiting'[p] =>
             /\ m < Len(outgoing'[p]) /\ outgoing'[p][m + 1].body = Text
             /\ m < f => OutgoingId(m) \in executing'[p]
    BY <1>1, <1>3, <1>4 DEF Sender
  <2> QED BY <1>8, <1>10, <1>11, <2>1, <2>2 DEF Sender
<1>13. Answers(p)'
  BY <1>1, <1>3, AnswersSame
<1> QED BY <1>1, <1>3, <1>12, <1>13, FlowSent DEF Acts

(* Whether later numbers are texts does not matter to the receiver yet.    *)
LEMMA WhenceTexts ==
  ASSUME NEW rows, NEW u, NEW T, NEW e, NEW U, Whence(rows, u, T, e),
         \A r \in rows : r.seq < u => (r.seq \in T <=> r.seq \in U)
  PROVE  Whence(rows, u, U, e)
BY DEF Whence, FirstIs

LEMMA ReceiverTexts ==
  ASSUME TypeInv, NEW q \in Peers, NEW t \in Nat, NEW T, NEW e \in Nat, NEW a,
         Receiver(q, t, T, e, a),
         NEW U, T \subseteq Nat, U \subseteq Nat, \A n \in Nat : n < t => (n \in T <=> n \in U)
  PROVE  Receiver(q, t, U, e, a)
<1>1. /\ \A r \in incoming[q] : r.seq \in Nat
      /\ stage[q] \in Seq(TypedBlocks) /\ shown[q] \in Seq(Int)
  BY ClientFacts
<1>2. /\ e <= t /\ Whence(incoming[q], t, T, e)
      /\ StageFlow(stage[q], incoming[q], lastId[q].incoming, t, T, e)
      /\ WritesFlow(writes[q], seqIn[q], incoming[q], T, e, a)
      /\ Conversation(shown[q], writes[q], T, e, a)
  BY DEF Receiver
<1>3. Whence(incoming[q], t, U, e)
  BY <1>1, <1>2, WhenceTexts
<1>4. ASSUME NEW i \in DOMAIN stage[q], Snapshot(stage[q][i])
      PROVE  SnapshotFlow(stage[q][i], incoming[q], lastId[q].incoming, t, U, e)
  <2>1. PICK b : b = stage[q][i]
    OBVIOUS
  <2>2. SnapshotFlow(b, incoming[q], lastId[q].incoming, t, T, e)
    BY <1>2, <1>4, <2>1 DEF StageFlow
  <2>3. End(b) \in Nat /\ \A r \in b.rows : r.seq \in Nat
    BY <1>4, <2>1, BlockFacts
  <2>4. End(b) <= t /\ Whence(b.rows, End(b), T, b.next)
    BY <2>2 DEF SnapshotFlow
  <2>5. \A r \in b.rows : r.seq < End(b) => (r.seq \in T <=> r.seq \in U)
    BY <2>3, <2>4
  <2>6. Whence(b.rows, End(b), U, b.next)
    BY <2>4, <2>5, WhenceTexts
  <2> QED BY <2>1, <2>2, <2>6 DEF SnapshotFlow
<1>5. StageFlow(stage[q], incoming[q], lastId[q].incoming, t, U, e)
  BY <1>2, <1>4 DEF StageFlow
<1>6. \A n \in U : n < e => n \in T
  BY <1>2
<1>7. \A n \in T : n < e => n \in U
  BY <1>2
<1>8. WritesFlow(writes[q], seqIn[q], incoming[q], U, e, a)
  <2>1. \A w : WriteFlow(w, incoming[q], T, e, a) => WriteFlow(w, incoming[q], U, e, a)
    BY <1>6 DEF WriteFlow
  <2> QED BY <1>2, <2>1 DEF WritesFlow
<1>9. Conversation(shown[q], writes[q], U, e, a)
  BY <1>2, <1>6, <1>7, Zenon DEF Conversation
<1> QED BY <1>2, <1>3, <1>5, <1>8, <1>9 DEF Receiver

(* The server takes a request: one it had taken before, or the first it    *)
(* has not.                                                                *)
LEMMA TakenNext ==
  ASSUME TypeInv, NEW p \in Peers, NEW f \in Nat, NEW T, Sender(p, f, T), NEW r \in requests[p],
         ~r.accepted, \A x \in requests[p] : x.row.seq \in r.after => x.accepted
  PROVE  r.row.seq <= f
<1>1. RequestFlow(r, requests[p], executing[p], waiting[p], f, T) /\ r.row.seq \in Nat
  BY RequestNumber DEF Sender
<1>2. SUFFICES ASSUME r.row.seq > f PROVE FALSE
  BY <1>1
<1>3. FromTo(f, r.row.seq, r.after) /\ FromTo(f, r.row.seq, {x.row.seq : x \in requests[p]})
  BY <1>1, <1>2 DEF RequestFlow
<1>4. f \in r.after /\ f \in {x.row.seq : x \in requests[p]}
  BY <1>1, <1>2, <1>3 DEF FromTo
<1>5. PICK x \in requests[p] : x.row.seq = f
  BY <1>4
<1>6. x.accepted
  BY <1>4, <1>5
<1>7. RequestFlow(x, requests[p], executing[p], waiting[p], f, T)
  BY DEF Sender
<1>8. x.accepted = FALSE
  BY <1>5, <1>7 DEF RequestFlow
<1> QED BY <1>6, <1>8

LEMMA FlowBlocksLater ==
  ASSUME NEW f \in Nat
  PROVE  FlowBlocks(f) \subseteq FlowBlocks(f + 1)
<1>1. ASSUME NEW n, NEW S, FromTo(f, n, S) PROVE FromTo(f + 1, n, S)
  BY <1>1 DEF FromTo
<1> QED BY <1>1 DEF FlowBlocks

(* The sender after the first request was taken that had not been, or      *)
(* another one.                                                            *)
LEMMA SenderTakes ==
  ASSUME TypeInv, NEW p \in Peers, NEW f \in Nat, NEW T, Sender(p, f, T), NEW r \in requests[p],
         ~r.accepted, NEW g \in Nat, NEW U, NEW z, z = [r EXCEPT !.accepted = TRUE],
         \/ r.row.seq < f /\ g = f /\ U = T
         \/ /\ r.row.seq = f /\ g = f + 1
            /\ U = IF r.message.content.type = "text" THEN T \cup {f} ELSE T,
         requests'[p] = (requests[p] \ {r}) \cup {z},
         UNCHANGED <<outgoing, sentSeqOut, resends, delivered, executing, waiting, stage>>
  PROVE  Sender(p, g, U)'
<1>1. PICK R, X, W, l, n : /\ R = requests[p] /\ X = executing[p] /\ W = waiting[p]
                           /\ l = Len(outgoing[p]) /\ n = r.row.seq
  OBVIOUS
<1>2. /\ r \in Requests /\ n \in Nat /\ r.accepted = FALSE
  BY <1>1, RequestNumber
<1>3. z.row = r.row /\ z.accepted = TRUE /\ z.after = r.after /\ z.message = r.message
  BY <1>2 DEF Requests
<1>4. /\ RequestFlow(r, R, X, W, f, T) /\ l \in Nat /\ f <= l /\ T \subseteq 0 .. f - 1
      /\ sentSeqOut[p] < f /\ sentSeqOut[p] \in Int
  BY <1>1, StoredNat DEF Sender, TypeInv, Types, Typed
<1>5. r.row.id = OutgoingId(n) /\ OutgoingId(n) \in X /\ n < l
  <2>1. r.row.id = OutgoingId(n) /\ OutgoingId(n) \in X
    BY <1>1, <1>4 DEF RequestFlow
  <2> QED BY <1>1, <1>2, <2>1 DEF Sender
<1>6. /\ f <= g /\ T \subseteq U /\ U \subseteq 0 .. g - 1 /\ n < g /\ g <= l
      /\ \A k \in Nat : k >= g => k >= f
  BY <1>1, <1>2, <1>4, <1>5
<1>7. PICK S : S = requests'[p]
  OBVIOUS
<1>8. {x.row.seq : x \in S} = {x.row.seq : x \in R}
  <2>1. \A x \in S : x = z \/ x \in R
    BY <1>1, <1>7
  <2>2. \A x \in R : x \in S \/ x = r
    BY <1>1, <1>7
  <2>3. z \in S /\ r \in R /\ z.row.seq = r.row.seq
    BY <1>1, <1>3, <1>7
  <2> QED BY ONLY <2>1, <2>2, <2>3
<1>9. \A m, A : FromTo(f, m, A) => FromTo(g, m, A)
  BY <1>6 DEF FromTo
<1>10. ASSUME NEW x \in S, x # z PROVE RequestFlow(x, S, X, W, g, U)
  <2>1. x \in R /\ x # r
    BY <1>1, <1>7, <1>10
  <2>2. RequestFlow(x, R, X, W, f, T) /\ x.row.seq \in Nat /\ x.accepted \in BOOLEAN
    BY <1>1, <2>1, RequestNumber DEF Sender
  <2>3. x.row.seq # n
    BY <1>1, <2>1 DEF Sender
  <2>4. x.row.seq >= f => x.row.seq # n
    BY <2>3
  <2>5. x.row.seq >= f /\ ~(x.row.seq >= g) => FALSE
    BY <1>1, <2>2, <2>3
  <2>6. x.row.seq >= g =>
          /\ x.accepted = FALSE /\ FromTo(g, x.row.seq, x.after)
          /\ FromTo(g, x.row.seq, {y.row.seq : y \in S})
    BY <1>6, <1>8, <1>9, <2>2 DEF RequestFlow
  <2>7. x.row.id \in W =>
          /\ x.message.content = Text
          /\ x.accepted = FALSE => x.row.seq >= g
          /\ x.accepted = TRUE => x.row.seq \in U
    BY <1>6, <2>2, <2>5 DEF RequestFlow
  <2> QED BY <2>2, <2>6, <2>7 DEF RequestFlow
<1>11. RequestFlow(z, S, X, W, g, U)
  <2>1. ~(z.row.seq >= g)
    BY <1>1, <1>2, <1>3, <1>6
  <2>2. z.row.id \in W => z.message.content = Text /\ z.row.seq \in U
    <3>1. r.row.id \in W => r.message.content = Text /\ n >= f
      BY <1>1, <1>2, <1>4 DEF RequestFlow
    <3>2. Text.type = "text"
      BY DEF Text
    <3>3. n >= f /\ r.message.content = Text => n \in U
      BY <1>1, <1>2, <3>2
    <3> QED BY <1>1, <1>3, <3>1, <3>3
  <2>3. z.row.resend = FALSE /\ Number(z.message) = z.row.seq /\ z.row.id = OutgoingId(z.row.seq)
        /\ z.row.id \in X
    BY <1>3, <1>4 DEF RequestFlow
  <2> QED BY <1>3, <2>1, <2>2, <2>3 DEF RequestFlow
<1>12. ASSUME NEW x \in S, NEW y \in S, x.row.seq = y.row.seq PROVE x = y
  <2>1. \A v \in S : v = z \/ (v \in R /\ v # r)
    BY <1>1, <1>7
  <2>2. \A v, w \in R : v.row.seq = w.row.seq => v = w
    BY <1>1 DEF Sender
  <2>3. r \in R
    BY <1>1
  <2>4. \A v \in R : v # r => v.row.seq # z.row.seq
    BY <1>3, <2>2, <2>3
  <2> QED BY ONLY <1>12, <2>1, <2>2, <2>4
<1>13. ASSUME NEW k \in Nat, OutgoingId(k) \in X
       PROVE  k < l /\ (k >= g => k \in {x.row.seq : x \in S})
  <2>1. k < l /\ (k >= f => k \in {x.row.seq : x \in R})
    BY <1>1, <1>13 DEF Sender
  <2> QED BY <1>6, <1>8, <2>1
<1>14. ASSUME NEW m \in Nat, OutgoingId(m) \in W
       PROVE  m < l /\ outgoing[p][m + 1].body = Text /\ (m < g => OutgoingId(m) \in X)
  <2>1. m < l /\ outgoing[p][m + 1].body = Text /\ (m < f => OutgoingId(m) \in X)
    BY <1>1, <1>14 DEF Sender
  <2>2. m < g => m < f \/ m = n
    BY <1>1, <1>2
  <2> QED BY <1>5, <2>1, <2>2
<1>15. stage[p] \in Seq(FlowBlocks(g))
  <2>1. stage[p] \in Seq(FlowBlocks(f))
    BY DEF Sender
  <2>2. FlowBlocks(f) \subseteq FlowBlocks(g)
    BY FlowBlocksLater
  <2> QED BY <2>1, <2>2, SeqMonotonic
<1>16. sentSeqOut[p] < g /\ resends[p] = {} /\ delivered[p] \subseteq U
  <2>1. delivered[p] \subseteq T /\ resends[p] = {}
    BY DEF Sender
  <2>2. sentSeqOut[p] < g
    BY <1>4, <1>6
  <2> QED BY <1>6, <2>1, <2>2
<1>17. \A x \in S : RequestFlow(x, S, X, W, g, U)
  BY <1>10, <1>11
<1>18. /\ requests'[p] = S /\ executing'[p] = X /\ waiting'[p] = W /\ Len(outgoing'[p]) = l
       /\ outgoing' = outgoing /\ sentSeqOut' = sentSeqOut /\ resends' = resends
       /\ delivered' = delivered /\ stage' = stage
  BY <1>1, <1>7
<1> QED BY <1>6, <1>12, <1>13, <1>14, <1>15, <1>16, <1>17, <1>18 DEF Sender

LEMMA AcceptFlow ==
  ASSUME TypeInv, NEW p \in Peers, NEW f, NEW t, NEW T, NEW e, NEW a, Flow(p, f, t, T, e, a),
         Accept(p)
  PROVE  FlowAt(p)'
<1>1. PICK q : q = Other(p)
  OBVIOUS
<1>2. /\ f \in Nat /\ t \in Nat /\ e \in Nat /\ t <= f /\ e <= t /\ q \in Peers /\ q # p
      /\ Asked(p) /\ network[p] \in Seq(QuietMessages) /\ Answers(p)
      /\ Net(network[q], f, t, T) /\ Receiver(q, t, T, e, a) /\ Sender(p, f, T)
  BY <1>1, SameReceived
<1>3. AllDomains /\ Still(q)
  BY <1>1, <1>2, AllThere, OthersStill DEF Acts
<1>4. PICK r \in requests[p] :
        /\ ~r.accepted /\ \A x \in requests[p] : x.row.seq \in r.after => x.accepted
        /\ requests'[p] = (requests[p] \ {r}) \cup {[r EXCEPT !.accepted = TRUE]}
        /\ network' = [network EXCEPT ![q] = Append(network[q], r.message)]
  BY <1>1, <1>3 DEF Accept, AllDomains
<1>5. UNCHANGED <<outgoing, sentSeqOut, resends, delivered, executing, waiting, stage>>
  BY DEF Accept, persistent
<1>6. UNCHANGED <<incoming, writes>>
  BY DEF Accept, persistent
<1>7. r.row.seq \in Nat /\ r.row.seq <= f /\ r.message \in Messages
  BY <1>2, <1>4, TakenNext, RequestNumber
<1>8. PICK n, m, s : n = r.row.seq /\ m = r.message /\ s = network[q]
  OBVIOUS
<1>9. Number(m) = n
  BY <1>2, <1>8 DEF Sender, RequestFlow
<1>10. s \in Seq(Messages) /\ \A i \in DOMAIN s : Number(s[i]) \in Nat
  BY <1>2, <1>8, ClientFacts, NetFacts
<1>11. T \subseteq 0 .. f - 1
  BY <1>2 DEF Sender
<1>12. /\ n < f => Net(Append(s, m), f, t, T)
       /\ n = f => Net(Append(s, m), f + 1, t, IF m.content.type = "text" THEN T \cup {f} ELSE T)
  <2>1. /\ m \in Messages /\ Number(m) \in Nat /\ Net(s, f, t, T) /\ f \in Nat /\ t \in Nat /\ t <= f
    BY <1>2, <1>7, <1>8, <1>9
  <2>2. /\ Number(m) < f => Net(Append(s, m), f, t, T)
        /\ Number(m) = f =>
             Net(Append(s, m), f + 1, t, IF m.content.type = "text" THEN T \cup {f} ELSE T)
    BY ONLY <1>10, <1>11, <2>1, NetTaken
  <2> QED BY <1>9, <2>2
<1>13. PICK V : V = IF m.content.type = "text" THEN T \cup {f} ELSE T
  OBVIOUS
<1>14. PICK g, U : (n < f /\ g = f /\ U = T) \/ (n = f /\ g = f + 1 /\ U = V)
  BY <1>2, <1>7, <1>8
<1>15. /\ g \in Nat /\ t <= g /\ Net(Append(s, m), g, t, U)
       /\ T \subseteq U /\ U \subseteq T \cup {f}
  <2>1. CASE n < f /\ g = f /\ U = T
    BY <1>2, <1>12, <2>1
  <2>2. CASE n = f /\ g = f + 1 /\ U = V
    BY <1>2, <1>12, <1>13, <2>2
  <2> QED BY <1>14, <2>1, <2>2
<1>16. Sender(p, g, U)'
  <2>1. \/ n < f /\ g = f /\ U = T
        \/ /\ n = f /\ g = f + 1
           /\ U = IF r.message.content.type = "text" THEN T \cup {f} ELSE T
    BY <1>8, <1>13, <1>14
  <2> QED BY <1>2, <1>4, <1>5, <1>8, <1>15, <2>1, SenderTakes
<1>17. Receiver(q, t, U, e, a)
  <2>1. T \subseteq Nat /\ U \subseteq Nat
    BY <1>2, <1>11, <1>15
  <2>2. \A k \in Nat : k < t => (k \in T <=> k \in U)
    BY <1>2, <1>15
  <2> QED BY <1>2, <2>1, <2>2, ReceiverTexts
<1>18. Receiver(q, t, U, e, a)'
  BY <1>2, <1>3, <1>17, ReceiverStill
<1>19. network'[q] = Append(s, m) /\ network'[p] = network[p]
  BY <1>2, <1>3, <1>4, <1>8 DEF AllDomains
<1>20. Quiet(p)'
  <2>1. Asked(p)'
    BY <1>1, <1>2, <1>3, AskedSame DEF Still
  <2>2. Answers(p)'
    BY <1>2, <1>6, AnswersSame
  <2> QED BY <1>2, <1>19, <2>1, <2>2 DEF Quiet, Asked, Answers
<1>21. Flow(p, g, t, U, e, a)'
  <2>1. Net(network[Other(p)], g, t, U)'
    BY <1>1, <1>15, <1>19
  <2> QED BY <1>1, <1>2, <1>15, <1>16, <1>18, <1>20, <2>1 DEF Flow
<1> QED BY <1>21 DEF FlowAt

LEMMA SeqBoth ==
  ASSUME NEW A, NEW B, NEW s, s \in Seq(A), s \in Seq(B)
  PROVE  s \in Seq(A \cap B)
<1>1. \A i \in 1 .. Len(s) : s[i] \in A \cap B
  OBVIOUS
<1>2. Len(s) \in Nat /\ s = [i \in 1 .. Len(s) |-> s[i]]
  OBVIOUS
<1>3. [i \in 1 .. Len(s) |-> s[i]] \in [1 .. Len(s) -> A \cap B]
  BY <1>1
<1> QED BY <1>2, <1>3

(* What the sender receives asks for nothing.                              *)
LEMMA ReceivePartFlow ==
  ASSUME TypeInv, NEW p \in Peers, NEW f, NEW t, NEW T, NEW e, NEW a, Flow(p, f, t, T, e, a),
         Receive(p)
  PROVE  FlowAt(p)'
<1>1. /\ f \in Nat /\ Sender(p, f, T) /\ Answers(p) /\ network[p] \in Seq(QuietMessages)
      /\ Other(p) \in Peers /\ Other(p) # p
  BY SameReceived
<1>2. AllDomains
  BY AllThere
<1>3. /\ UNCHANGED <<outgoing, sentSeqOut, resends, delivered, requests, executing>>
      /\ UNCHANGED <<waiting, writes>>
  BY DEF Receive
<1>4. PICK k \in 1 .. Len(network[p]) :
        /\ incoming'[p] = incoming[p] \cup NewIncoming(p, k)
        /\ stage'[p] = stage[p] \o <<IncomingBlock(incoming[p] \cup NewIncoming(p, k), seqIn[p])>>
        /\ network' = [network EXCEPT ![p] = SubSeq(network[p], k + 1, Len(network[p]))]
  BY <1>2 DEF Receive, Post, AllDomains
<1>5. PICK rows, s : rows = incoming[p] \cup NewIncoming(p, k) /\ s = network[p]
  OBVIOUS
<1>6. s \in Seq(QuietMessages) /\ Len(s) \in Nat /\ k \in Nat /\ k >= 1 /\ k <= Len(s)
  BY <1>1, <1>4, <1>5
<1>7. rows \subseteq Rows /\ OwnIds(rows)
  BY <1>4, <1>5, ReceivedTyped
<1>8. MadeOf(NewIncoming(p, k), s, k, lastId[p].incoming)
  BY <1>4, <1>5, NewRowsAre
<1>9. rows \subseteq QuietRows
  <2>1. ASSUME NEW r \in NewIncoming(p, k) PROVE ~Asks(r)
    <3>1. PICK i \in 1 .. k : r.content = s[i].content
      BY <1>8 DEF MadeOf
    <3>2. s[i] \in QuietMessages
      BY <1>6, ElementOfSeq
    <3> QED BY <3>1, <3>2 DEF QuietMessages, Asks
  <2>2. incoming[p] \subseteq QuietRows
    BY <1>1 DEF Answers
  <2> QED BY <1>5, <1>7, <2>1, <2>2 DEF QuietRows
<1>10. PICK b : b = IncomingBlock(rows, seqIn[p])
  OBVIOUS
<1>11. b \in FlowBlocks(f)
  <2>1. b \in TypedBlocks
    BY <1>7, <1>10, ClientFacts, BlockTypes DEF IncomingBlock
  <2>2. b.type = "incoming" /\ b.rows = rows
    BY <1>10 DEF IncomingBlock
  <2> QED BY <1>9, <2>1, <2>2 DEF FlowBlocks
<1>12. stage'[p] \in Seq(FlowBlocks(f))
  <2>1. stage[p] \in Seq(FlowBlocks(f))
    BY <1>1 DEF Sender
  <2> QED BY <1>4, <1>5, <1>10, <1>11, <2>1, StageOf
<1>13. Sender(p, f, T)'
  BY <1>1, <1>3, <1>12, SenderStage
<1>14. Answers(p)'
  BY <1>1, <1>3, <1>4, <1>5, <1>9 DEF Answers
<1>15. network'[p] = SubSeq(s, k + 1, Len(s)) /\ network'[Other(p)] = network[Other(p)]
  BY <1>1, <1>2, <1>4, <1>5 DEF AllDomains
<1>16. network'[p] \in Seq(QuietMessages)
  <2>1. \A i \in k + 1 .. Len(s) : s[i] \in QuietMessages
    BY <1>6, ElementOfSeq
  <2> QED BY <1>6, <1>15, <2>1, SubSeqProperties
<1> QED BY <1>1, <1>13, <1>14, <1>15, <1>16, FlowSent DEF Acts

LEMMA RunIncomingPart ==
  ASSUME TypeInv, TypeInv', NEW p \in Peers, NEW f, NEW t, NEW T, NEW e, NEW a,
         Flow(p, f, t, T, e, a), RunIncoming(p)
  PROVE  FlowAt(p)'
<1>1. /\ f \in Nat /\ Sender(p, f, T) /\ Answers(p) /\ network[p] \in Seq(QuietMessages)
  BY SameReceived
<1>2. AllDomains
  BY AllThere
<1>3. /\ UNCHANGED <<sentSeqOut, resends, delivered, requests, executing>>
      /\ UNCHANGED <<waiting, network, incoming>>
      /\ stage[p] # <<>> /\ Head(stage[p]).type = "incoming"
  BY DEF RunIncoming, Runs
<1>4. PICK b, rows, next : b = Head(stage[p]) /\ rows = b.rows /\ next = b.next
  OBVIOUS
<1>5. /\ stage'[p] = Tail(stage[p])
      /\ \/ outgoing' = outgoing /\ writes'[p] = BlockWrites(rows, next)
         \/ /\ writes'[p] = <<[type |-> "poll"]>> \o BlockWrites(rows, next)
            /\ \E body : outgoing'[p] = Append(outgoing[p], [seqIn |-> seqIn[p], body |-> body])
  <2>1. stage'[p] = Tail(stage[p])
    BY <1>2 DEF RunIncoming, AllDomains
  <2>2. PICK body : body = Missing(p, rows, next)
    OBVIOUS
  <2>3. \/ writes' = [writes EXCEPT ![p] = BlockWrites(rows, next)] /\ outgoing' = outgoing
        \/ /\ writes' = [writes EXCEPT ![p] = <<[type |-> "poll"]>> \o BlockWrites(rows, next)]
           /\ Enqueue(p, body)
    BY <1>4, <2>2 DEF RunIncoming
  <2>4. Enqueue(p, body) =>
          outgoing'[p] = Append(outgoing[p], [seqIn |-> seqIn[p], body |-> body])
    BY <1>2 DEF Enqueue, AllDomains
  <2>5. DOMAIN writes = Peers
    BY <1>2 DEF AllDomains
  <2> QED BY <2>1, <2>3, <2>4, <2>5
<1>6. b \in FlowBlocks(f) /\ stage'[p] \in Seq(FlowBlocks(f))
  BY <1>1, <1>3, <1>4, <1>5, SeqRest DEF Sender
<1>7. rows \subseteq QuietRows
  BY <1>3, <1>4, <1>6 DEF FlowBlocks
<1>8. Sender(p, f, T)'
  <2>1. CASE outgoing' = outgoing
    BY <1>1, <1>3, <1>6, <2>1, SenderStage
  <2>2. CASE \E body : outgoing'[p] = Append(outgoing[p], [seqIn |-> seqIn[p], body |-> body])
    <3>1. PICK row : outgoing'[p] = Append(outgoing[p], row)
      BY <2>2
    <3> QED BY <1>1, <1>3, <1>6, <3>1, SenderGrows
  <2> QED BY <1>5, <2>1, <2>2
<1>9. IsFiniteSet(rows)
  <2>1. 1 \in DOMAIN stage[p] /\ b = stage[p][1] /\ Snapshot(b)
    BY <1>3, <1>4, ClientFacts DEF Snapshot
  <2> QED BY <1>4, <2>1, BlockFacts
<1>10. PICK S : BlockWrites(rows, next) \in Seq(S) /\ \A x \in S : Made(rows, next, x)
  BY <1>9, BlockPosts
<1>11. OfType(ToProcess(rows, next), "resend") = {}
  <2>1. ToProcess(rows, next) \subseteq rows
    BY DEF ToProcess, InSequence, EarlyResends, TooEarly
  <2> QED BY <1>7, <2>1 DEF OfType, QuietRows, Asks
<1>12. \A x \in S : x.type # "resend"
  BY <1>10, <1>11 DEF Made
<1>13. PICK poll : poll = [type |-> "poll"]
  OBVIOUS
<1>14. poll.type # "resend"
  BY <1>13
<1>15. writes'[p] \in Seq({poll} \cup S)
  <2>1. BlockWrites(rows, next) \in Seq({poll} \cup S)
    BY <1>10, SeqMonotonic
  <2>2. <<poll>> \in Seq({poll})
    OBVIOUS
  <2>3. <<poll>> \o BlockWrites(rows, next) \in Seq({poll} \cup S)
    BY <1>10, <2>2, SeqUnion
  <2> QED BY <1>5, <1>13, <2>1, <2>3
<1>16. writes'[p] \in Seq(TypedQueries)
  BY DEF TypeInv, Types, Typed
<1>17. writes'[p] \in Seq(({poll} \cup S) \cap TypedQueries)
  BY <1>15, <1>16, SeqBoth
<1>18. ({poll} \cup S) \cap TypedQueries \subseteq QuietQueries
  BY <1>12, <1>14 DEF QuietQueries
<1>19. writes'[p] \in Seq(QuietQueries)
  BY <1>17, <1>18, SeqMonotonic
<1>20. Answers(p)'
  BY <1>1, <1>3, <1>19 DEF Answers
<1> QED BY <1>1, <1>3, <1>8, <1>20, FlowSent DEF Acts, StageStep

(* The sender crashes.                                                     *)
LEMMA RestartFlow ==
  ASSUME TypeInv, NEW p \in Peers, NEW f, NEW t, NEW T, NEW e, NEW a, Flow(p, f, t, T, e, a),
         Restart(p)
  PROVE  FlowAt(p)'
<1>1. /\ f \in Nat /\ Sender(p, f, T) /\ Answers(p) /\ network[p] \in Seq(QuietMessages)
  BY SameReceived
<1>2. AllDomains
  BY AllThere
<1>3. UNCHANGED <<outgoing, sentSeqOut, resends, delivered, network, incoming>>
  BY DEF Restart, persistent
<1>4. /\ executing'[p] = {} /\ requests'[p] = {} /\ waiting'[p] = {} /\ writes'[p] = <<>>
  BY <1>2 DEF Restart, AllDomains
<1>5. PollOutgoing \in FlowBlocks(f) /\ PollIncoming \in FlowBlocks(f)
  BY PollFlows
<1>6. stage'[p] \in Seq(FlowBlocks(f))
  <2>1. PICK x, y : /\ stage'[p] = x \o y /\ x \in {<<>>, <<PollOutgoing>>}
                    /\ y \in {<<>>, <<PollIncoming>>}
    BY <1>2 DEF Restart, AllDomains
  <2>2. x \in Seq(FlowBlocks(f)) /\ y \in Seq(FlowBlocks(f))
    <3>1. /\ <<>> \in Seq(FlowBlocks(f)) /\ <<PollOutgoing>> \in Seq(FlowBlocks(f))
          /\ <<PollIncoming>> \in Seq(FlowBlocks(f))
      BY <1>5
    <3>2. (x = <<>> \/ x = <<PollOutgoing>>) /\ (y = <<>> \/ y = <<PollIncoming>>)
      BY <2>1
    <3> QED BY ONLY <3>1, <3>2
  <2> QED BY <2>1, <2>2, ConcatProperties
<1>7. Sender(p, f, T)'
  BY <1>1, <1>3, <1>4, <1>6 DEF Sender
<1>8. Answers(p)'
  BY <1>1, <1>3, <1>4 DEF Answers
<1> QED BY <1>1, <1>3, <1>7, <1>8, FlowSent DEF Acts

(* Any step of the sender but a refusal of the server.                     *)
LEMMA SenderFlow ==
  ASSUME TypeInv, TypeInv', NEW p \in Peers, NEW f, NEW t, NEW T, NEW e, NEW a,
         Flow(p, f, t, T, e, a), Acts(p), ~Fail(p)
  PROVE  FlowAt(p)'
<1>1. CASE StageStep(p)
  BY <1>1, PollsFlow, RunOutgoingFlow, RunIncomingPart DEF StageStep
<1>2. CASE DatabaseStep(p)
  BY <1>2, QueriesFlow
<1>3. CASE Send(p) \/ Accept(p) \/ Complete(p) \/ Receive(p) \/ Restart(p)
  BY <1>3, SendFlow, AcceptFlow, CompleteFlow, ReceivePartFlow, RestartFlow
<1> QED BY <1>1, <1>2, <1>3 DEF Acts

LEMMA FlowInit == Init => FlowInv
<1> SUFFICES ASSUME Init, NEW p \in Peers PROVE FlowAt(p)
  BY InitInv, TypesInit DEF FlowInv, TypeInv
<1>1. PICK q \in Peers : q = Other(p)
  BY OtherEnd
<1>2. /\ outgoing[p] = <<>> /\ outgoing[q] = <<>> /\ sentSeqOut[p] = -1 /\ resends[p] = {}
      /\ delivered[p] = {} /\ requests[p] = {} /\ requests[q] = {} /\ executing[p] = {}
      /\ waiting[p] = {} /\ stage[p] = <<>> /\ stage[q] = <<>> /\ network[p] = <<>>
      /\ network[q] = <<>> /\ incoming[p] = {} /\ incoming[q] = {} /\ writes[p] = <<>>
      /\ writes[q] = <<>> /\ shown[q] = <<>> /\ seqIn[q] = 0 /\ processed[q] = 0
  BY DEF Init
<1>3. Sender(p, 0, {})
  <2>1. 0 <= Len(<<>>) /\ -1 < 0 /\ {} \subseteq 0 .. 0 - 1 /\ <<>> \in Seq(FlowBlocks(0))
    OBVIOUS
  <2> QED BY <1>2, <2>1 DEF Sender
<1>4. Quiet(p)
  <2>1. /\ <<>> \in Seq(QuietOut) /\ <<>> \in Seq(QuietMessages) /\ <<>> \in Seq(QuietQueries)
    OBVIOUS
  <2> QED BY <1>1, <1>2, <2>1 DEF Quiet
<1>5. Net(<<>>, 0, 0, {})
  BY DEF Net, NetBelow, NetClosed, NetWhole, NetFirst
<1>6. Receiver(q, 0, {}, 0, <<>>)
  <2>1. Whence({}, 0, {}, 0)
    BY DEF Whence, FromTo, FirstIs
  <2>2. StageFlow(<<>>, {}, lastId[q].incoming, 0, {}, 0)
    BY DEF StageFlow, InTurn
  <2>3. WritesFlow(<<>>, 0, {}, {}, 0, <<>>)
    BY DEF WritesFlow
  <2>4. Conversation(<<>>, <<>>, {}, 0, <<>>)
    <3>1. ToSet(<<>>) = {} /\ Rising(<<>>) /\ <<>> \in Seq(Int)
      BY DEF ToSet, Rising
    <3> QED BY <3>1 DEF Conversation
  <2> QED BY <1>2, <2>1, <2>2, <2>3, <2>4 DEF Receiver
<1>7. Flow(p, 0, 0, {}, 0, <<>>)
  BY <1>1, <1>2, <1>3, <1>4, <1>5, <1>6 DEF Flow
<1> QED BY <1>7 DEF FlowAt

LEMMA FlowNext == FlowInv /\ [Next]_vars => FlowInv'
<1> SUFFICES ASSUME FlowInv, [Next]_vars, NEW p \in Peers, Smooth(p)' PROVE FlowAt(p)'
  BY TypesNext DEF FlowInv
<1>1. TypeInv /\ TypeInv'
  BY TypesNext DEF FlowInv
<1>2. CASE UNCHANGED vars
  <2>1. Smooth(p)
    BY <1>2 DEF Smooth, vars
  <2>2. PICK f, t, T, e, a : Flow(p, f, t, T, e, a)
    BY <2>1 DEF FlowInv, FlowAt
  <2>3. Still(p) /\ Still(Other(p)) /\ network' = network
    BY <1>2 DEF Still, vars, persistent, volatile, history
  <2>4. Sender(p, f, T)' /\ Receiver(Other(p), t, T, e, a)'
    BY <2>2, <2>3, SameReceived, SenderStill, ReceiverStill
  <2>5. Quiet(p)'
    BY <2>2, <2>3 DEF Flow, Quiet, Still
  <2>6. Net(network[Other(p)], f, t, T)'
    BY <2>2, <2>3 DEF Flow
  <2>7. Flow(p, f, t, T, e, a)'
    BY <2>2, <2>4, <2>5, <2>6 DEF Flow
  <2> QED BY <2>7 DEF FlowAt
<1>3. CASE Next
  <2>1. PICK x \in Peers : Acts(x)
    BY <1>3 DEF Next, Acts
  <2>2. Smooth(p) /\ ~(x = p /\ Fail(x)) /\ ~(x = Other(p) /\ Restart(x))
    BY <1>1, <2>1, SmoothBefore
  <2>3. PICK f, t, T, e, a : Flow(p, f, t, T, e, a)
    BY <2>2 DEF FlowInv, FlowAt
  <2>4. CASE x = p
    BY <1>1, <2>1, <2>2, <2>3, <2>4, SenderFlow
  <2>5. CASE x = Other(p)
    BY <1>1, <2>1, <2>2, <2>3, <2>5, ReceiverFlow
  <2> QED BY <2>4, <2>5, OtherEnd
<1> QED BY <1>2, <1>3

(* A conversation in order, what is delivered in it, and nothing asked.    *)
InOrder(q) == \A i, j \in DOMAIN shown[q] : i < j => shown[q][i] < shown[q][j]
Shown(p, q) ==
  \A seq \in delivered[p] : seq < seqIn[q] =>
    \/ seq \in ToSet(shown[q])
    \/ \E i \in DOMAIN writes[q] : /\ writes[q][i].type = "add"
                                   /\ seq \in ToSet(writes[q][i].seqs)
AsksNothing(q) == \A i \in DOMAIN outgoing[q] : outgoing[q][i].body.type # "resend"
SmoothShown ==
  \A p \in Peers : Smooth(p) =>
    InOrder(Other(p)) /\ Shown(p, Other(p)) /\ AsksNothing(Other(p))

LEMMA FlowEnough == FlowInv => SmoothShown
<1> SUFFICES ASSUME FlowInv, NEW p \in Peers, Smooth(p), NEW q, q = Other(p)
             PROVE  InOrder(q) /\ Shown(p, q) /\ AsksNothing(q)
  BY DEF SmoothShown
<1>1. TypeInv /\ q \in Peers
  BY OtherEnd DEF FlowInv
<1>2. PICK f, t, T, e, a : Flow(p, f, t, T, e, a)
  BY DEF FlowInv, FlowAt
<1>3. Receiver(q, t, T, e, a) /\ Sender(p, f, T) /\ Asked(p) /\ e \in Nat /\ f \in Nat
  BY <1>2, SameReceived
<1>4. /\ Conversation(shown[q], writes[q], T, e, a) /\ seqIn[q] <= e
      /\ \A i \in DOMAIN writes[q] : WriteFlow(writes[q][i], incoming[q], T, e, a)
  BY <1>3 DEF Receiver, WritesFlow
<1>5. InOrder(q)
  BY <1>4 DEF InOrder, Conversation, Rising
<1>6. ASSUME NEW n \in delivered[p], n < seqIn[q], n \notin ToSet(shown[q])
      PROVE  \E i \in DOMAIN writes[q] : /\ writes[q][i].type = "add"
                                         /\ n \in ToSet(writes[q][i].seqs)
  <2>1. n \in T /\ n \in Nat /\ seqIn[q] \in Nat
    BY <1>1, <1>3, ClientFacts DEF Sender
  <2>2. n < e
    BY <1>3, <1>4, <1>6, <2>1
  <2>3. n \in ToSet(a) /\ Pending(writes[q], "add")
    BY <1>4, <1>6, <2>1, <2>2 DEF Conversation
  <2>4. PICK i \in DOMAIN writes[q] : writes[q][i].type = "add"
    BY <2>3 DEF Pending
  <2>5. writes[q][i].seqs = a
    BY <1>4, <2>4 DEF WriteFlow
  <2> QED BY <2>3, <2>4, <2>5
<1>7. AsksNothing(q)
  <2>1. outgoing[q] \in Seq(QuietOut)
    BY <1>3 DEF Asked
  <2>2. \A i \in DOMAIN outgoing[q] : outgoing[q][i] \in QuietOut
    BY <2>1
  <2> QED BY <2>2 DEF AsksNothing, QuietOut
<1> QED BY <1>5, <1>6, <1>7 DEF Shown

(* As long as the server refuses no request of a client and the peer does  *)
(* not crash, the peer shows the client's messages in the order they were  *)
(* sent, has or is about to add every delivered one it has passed, and     *)
(* never asks for a range again, whatever the client's own crashes and the *)
(* other direction do: stale snapshots, rows that are sent again and polls *)
(* that overlap make no gap.                                               *)
THEOREM SmoothSafe == Spec => []SmoothShown
BY FlowInit, FlowNext, FlowEnough, PTL DEF Spec

(* A client has crashed only if the server has refused a request of its    *)
(* peer.                                                                   *)
Undisturbed == \A p \in Peers : Smooth(p) \/ failures[p] > 0

(* Messages enter the conversation once and in the order they were sent,   *)
(* in every run where the crashes of a client come after a refusal of its  *)
(* peer's requests; the order then is no longer promised.                  *)
THEOREM InOrderSafe == Spec => [](Undisturbed => ShownInOrder)
<1>1. FlowInv => (Undisturbed => ShownInOrder)
  <2> SUFFICES ASSUME FlowInv, Undisturbed, NEW q \in Peers, NEW i \in DOMAIN shown[q],
                      NEW j \in DOMAIN shown[q], i < j
               PROVE  /\ shown[q][i] # shown[q][j]
                      /\ failures[Other(q)] = 0 => shown[q][i] < shown[q][j]
    BY DEF ShownInOrder
  <2>1. TypeInv /\ Other(q) \in Peers /\ Other(Other(q)) = q
    BY OtherEnd DEF FlowInv
  <2>2. shown[q][i] # shown[q][j]
    <3>1. shown[q] \in Seq(Int) /\ Once(shown[q])
      BY <2>1 DEF TypeInv, Types, Typed
    <3>2. i # j
      BY <3>1
    <3> QED BY <3>1, <3>2 DEF Once
  <2>3. ASSUME failures[Other(q)] = 0 PROVE shown[q][i] < shown[q][j]
    <3>1. Smooth(Other(q))
      BY <2>1, <2>3 DEF Undisturbed
    <3> QED BY <2>1, <3>1, FlowEnough DEF SmoothShown, InOrder
  <2> QED BY <2>2, <2>3
<1> QED BY FlowInit, FlowNext, <1>1, PTL DEF Spec

(* In the same runs a message that its sender marks as delivered and that  *)
(* the peer has passed is in the conversation or about to be added.        *)
THEOREM DeliveredSafe == Spec => [](Undisturbed => DeliveredIsShown)
<1>1. FlowInv => (Undisturbed => DeliveredIsShown)
  <2> SUFFICES ASSUME FlowInv, Undisturbed, NEW p \in Peers, NEW seq \in delivered[p],
                      NEW q, q = Other(p), failures[p] = 0, seq < seqIn[q]
               PROVE  \/ seq \in ToSet(shown[q]) \cup lost[q]
                      \/ \E i \in DOMAIN writes[q] : /\ writes[q][i].type = "add"
                                                     /\ seq \in ToSet(writes[q][i].seqs)
    BY DEF DeliveredIsShown
  <2>1. Smooth(p)
    BY DEF Undisturbed
  <2> QED BY <2>1, FlowEnough DEF SmoothShown, Shown
<1> QED BY FlowInit, FlowNext, <1>1, PTL DEF Spec
=============================================================================

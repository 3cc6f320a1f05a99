----------------------------- MODULE SecretChat -----------------------------
(***************************************************************************)
(* The outgoing and incoming queues of a secret chat, at both ends.        *)
(*                                                                         *)
(* A client numbers what it sends (seqOut) and says in every message how   *)
(* many of the peer's messages it has processed (seqIn).  Rows stay in the *)
(* outgoing table until the peer's seqIn confirms them, so that they can   *)
(* be sent again when the peer asks for a range.  The incoming queue       *)
(* processes messages in the order of their numbers, keeps the ones that   *)
(* came too early and asks for what is missing.                            *)
(*                                                                         *)
(* Each client has two serial threads.  The stage runs the actors; the     *)
(* database thread runs the queries.  A poll is a query on the database    *)
(* thread that hands what it read to a block on the stage, so the block    *)
(* works on a snapshot: stage[p] holds the blocks that wait.  What a block *)
(* posts to the database thread waits in writes[p]; a crash loses it.  A   *)
(* step of the stage starts when the writes are done: its first query is   *)
(* synchronous, or commutes with them.                                     *)
(*                                                                         *)
(* Peer layers are at least 17 and the keys are known.                     *)
(***************************************************************************)
EXTENDS Integers, FiniteSets, FiniteSetsExt, SequencesExt

CONSTANTS
  Peers,            \* the two clients
  Creator,          \* the one that created the chat
  FirstOutgoingId,  \* action_id of the first row of the outgoing table
  FirstResendId,    \* action_id of the first row of the resend table
  MaxMessages,      \* bound: messages a user sends, by peer
  MaxFailures,      \* bound: requests the server refuses, by peer
  MaxRestarts,      \* bound: crashes, by peer
  MaxFaults         \* bound: refusals and crashes together

ASSUME PeersAssumption ==
  /\ \E a, b \in Peers : a # b /\ Peers = {a, b}
  /\ Creator \in Peers
  /\ FirstOutgoingId \in Nat /\ FirstResendId \in Nat
  /\ MaxMessages \in [Peers -> Nat]
  /\ MaxFailures \in [Peers -> Nat]
  /\ MaxRestarts \in [Peers -> Nat]
  /\ MaxFaults \in Nat

VARIABLES
  outgoing,    \* [Peers -> Seq(Row)]: every row enqueued; row i has seqOut i - 1
  stored,      \* seqOut values of the rows still in the outgoing table
  sentSeqOut,  \* the sent_seq_out property, -1 when absent
  seqIn,       \* the seq_in property: the next seqOut expected of the peer
  incoming,    \* the incoming table
  resends,     \* the resend table
  lastId,      \* last action_id given in the incoming and the resend table
  shown,       \* messages of the peer in the conversation, by seqOut
  delivered,   \* own messages marked as delivered, by seqOut
  executing,   \* _executingRequestsActionIds
  requests,    \* requests given to the network layer and not answered
  waiting,     \* action ids that a sendSecretMessage actor waits for
  stage,       \* blocks waiting on the stage
  writes,      \* queries waiting on the database thread
  network,     \* [Peers -> Seq(Message)]: accepted by the server, not received
  discarded,   \* discardEncryptedChat was requested
  processed,   \* history: the largest value of seqIn
  lost,        \* history: messages whose processing a crash cut short
  failures, restarts

persistent == <<outgoing, stored, sentSeqOut, seqIn, incoming, resends,
                lastId, shown, delivered>>
volatile   == <<executing, requests, waiting, stage, writes>>
history    == <<processed, lost>>
vars       == <<persistent, volatile, network, discarded, history, failures,
                restarts>>

Other(p) == CHOOSE q \in Peers : q # p
FaultLeft == MapThenSumSet(LAMBDA p : failures[p] + restarts[p], Peers) < MaxFaults

-----------------------------------------------------------------------------
(* What is sent.  A user's message, the request to resend a range, and the *)
(* deletion that replaces a message whose sender is gone.                  *)

Text     == [type |-> "text", from |-> 0, to |-> 0]
Deletion == [type |-> "deletion", from |-> 0, to |-> 0]
ResendRequest(from, to) == [type |-> "resend", from |-> from, to |-> to]

(* Sequence numbers travel doubled, with a bit that tells whose they are;  *)
(* the division is C's, which truncates toward zero.                       *)
Bit(b)     == IF b THEN 1 ELSE 0
Wire(n, b) == n * 2 + Bit(b)
Halved(w)  == IF w < 0 THEN -((-w) \div 2) ELSE w \div 2

OutgoingId(seq) == FirstOutgoingId + seq

Message(p, seq, content) ==
  [seqOut  |-> Wire(seq, p = Creator),
   seqIn   |-> Wire(outgoing[p][seq + 1].seqIn, p # Creator),
   content |-> content]

(* Mutant of Content: the copy is replaced while its actor waits.          *)
ContentInverted(p, id, seq) ==
  LET body == outgoing[p][seq + 1].body
  IN  IF body.type = "text" /\ id \in waiting[p] THEN Deletion ELSE body

(* requestForAction: a user's message goes out as it is only while an      *)
(* actor waits for this action id.                                         *)
Content(p, id, seq) ==
  LET body == outgoing[p][seq + 1].body
  IN  IF body.type = "text" /\ id \notin waiting[p] THEN Deletion ELSE body

(* Mutant of Genuine: expects its own bits in place of the peer's.         *)
GenuineSwapped(p, m) ==
  /\ m.seqIn % 2 = Bit(p # Creator)
  /\ m.seqOut % 2 = Bit(p = Creator)

(* decryptEncryptedMessageData: the bits must be the peer's.               *)
Genuine(p, m) ==
  /\ m.seqIn % 2 = Bit(p = Creator)
  /\ m.seqOut % 2 = Bit(p # Creator)

-----------------------------------------------------------------------------
(* Polls.                                                                  *)

Unsent(p, rows) == {seq \in rows : seq > sentSeqOut[p]}
OutgoingBlock(p, rows) ==
  [type |-> "outgoing", rows |-> Unsent(p, rows), resends |-> resends[p]]
IncomingBlock(rows, next) == [type |-> "incoming", rows |-> rows, next |-> next]
PollOutgoing == [type |-> "pollOutgoing"]
PollIncoming == [type |-> "pollIncoming"]

Post(p, blocks) == stage' = [stage EXCEPT ![p] = @ \o blocks]

Idle(p) == ~discarded /\ writes[p] = <<>>
Runs(p, type) == Idle(p) /\ stage[p] # <<>> /\ Head(stage[p]).type = type

Init ==
  /\ outgoing = [p \in Peers |-> <<>>]
  /\ stored = [p \in Peers |-> {}]
  /\ sentSeqOut = [p \in Peers |-> -1]
  /\ seqIn = [p \in Peers |-> 0]
  /\ incoming = [p \in Peers |-> {}]
  /\ resends = [p \in Peers |-> {}]
  /\ lastId = [p \in Peers |-> [incoming |-> 0, resend |-> FirstResendId - 1]]
  /\ shown = [p \in Peers |-> <<>>]
  /\ delivered = [p \in Peers |-> {}]
  /\ executing = [p \in Peers |-> {}]
  /\ requests = [p \in Peers |-> {}]
  /\ waiting = [p \in Peers |-> {}]
  /\ stage = [p \in Peers |-> <<>>]
  /\ writes = [p \in Peers |-> <<>>]
  /\ network = [p \in Peers |-> <<>>]
  /\ discarded = FALSE
  /\ processed = [p \in Peers |-> 0]
  /\ lost = [p \in Peers |-> {}]
  /\ failures = [p \in Peers |-> 0]
  /\ restarts = [p \in Peers |-> 0]

(* enqueuePeerOutgoingAction, with the poll that follows it.               *)
Enqueue(p, body) ==
  /\ outgoing' = [outgoing EXCEPT ![p] =
                    Append(@, [seqIn |-> seqIn[p], body |-> body])]
  /\ stored' = [stored EXCEPT ![p] = @ \cup {Len(outgoing[p])}]

Texts(p) == {i \in DOMAIN outgoing[p] : outgoing[p][i].body = Text}

(* A sendSecretMessage actor enqueues a message and waits for its id.  The *)
(* outgoing queue is requested for two watchers and polls for each.        *)
Send(p) ==
  /\ Idle(p)
  /\ Cardinality(Texts(p)) < MaxMessages[p]
  /\ Enqueue(p, Text)
  /\ waiting' = [waiting EXCEPT ![p] = @ \cup {OutgoingId(Len(outgoing[p]))}]
  /\ LET poll == OutgoingBlock(p, stored[p] \cup {Len(outgoing[p])})
     IN  Post(p, <<poll, poll>>)
  /\ UNCHANGED <<sentSeqOut, seqIn, incoming, resends, lastId, shown,
                 delivered, executing, requests, writes, network, discarded,
                 history, failures, restarts>>

-----------------------------------------------------------------------------
(* The outgoing queue.                                                     *)

(* dequeuePeerOutgoingActions, asked for by a block on the stage.          *)
RunPollOutgoing(p) ==
  /\ Runs(p, "pollOutgoing")
  /\ stage' = [stage EXCEPT ![p] = Append(Tail(@), OutgoingBlock(p, stored[p]))]
  /\ UNCHANGED <<persistent, executing, requests, waiting, writes, network,
                 discarded, history,
                 failures, restarts>>

(* The rows of both tables whose ids are not executing become requests.    *)
NewRows(p, block) ==
  {r \in {[id |-> OutgoingId(seq), seq |-> seq, resend |-> FALSE] :
            seq \in block.rows}
         \cup {[id |-> x.id, seq |-> x.seq, resend |-> TRUE] :
            x \in block.resends} :
     r.id \notin executing[p]}

(* shouldDependOnRequest: a request waits for those with a smaller seqOut  *)
(* that the server has not taken when it is added.                         *)
Before(p, new, seq) ==
  {x \in {r.seq : r \in new} \cup {r.row.seq : r \in
     {y \in requests[p] : ~y.accepted}} : x < seq}

RunOutgoing(p) ==
  /\ Runs(p, "outgoing")
  /\ LET new == NewRows(p, Head(stage[p])) IN
       /\ requests' = [requests EXCEPT ![p] = @ \cup
            {[row |-> r, accepted |-> FALSE, after |-> Before(p, new, r.seq),
              message |-> Message(p, r.seq, Content(p, r.id, r.seq))] :
               r \in new}]
       /\ executing' = [executing EXCEPT ![p] = @ \cup {r.id : r \in new}]
  /\ stage' = [stage EXCEPT ![p] = Tail(@)]
  /\ UNCHANGED <<persistent, waiting, writes, network, discarded,
                 history, failures, restarts>>

(* The server takes a request and queues the message for the peer.         *)
Accept(p) ==
  /\ ~discarded
  /\ \E r \in requests[p] :
       /\ ~r.accepted
       /\ \A x \in requests[p] : x.row.seq \in r.after => x.accepted
       /\ requests' = [requests EXCEPT ![p] =
                         (@ \ {r}) \cup {[r EXCEPT !.accepted = TRUE]}]
       /\ network' = [network EXCEPT ![Other(p)] = Append(@, r.message)]
  /\ UNCHANGED <<persistent, executing, waiting, stage, writes, discarded,
                 history, failures, restarts>>

(* Mutant of Complete: a resend is completed as an ordinary action is, and *)
(* its row stays.                                                          *)
CompleteAlike(p) ==
  /\ Idle(p)
  /\ \E r \in requests[p] :
       /\ r.accepted
       /\ requests' = [requests EXCEPT ![p] = @ \ {r}]
       /\ sentSeqOut' = [sentSeqOut EXCEPT ![p] = r.row.seq]
       /\ waiting' = [waiting EXCEPT ![p] = @ \ {r.row.id}]
       /\ delivered' = [delivered EXCEPT ![p] = @ \cup
            {id - FirstOutgoingId : id \in waiting[p] \cap {r.row.id}}]
  /\ UNCHANGED <<outgoing, stored, seqIn, incoming, resends, lastId, shown,
                 executing, stage, writes, network, discarded, history,
                 failures, restarts>>

(* actionCompletedWithId: watchers compare the id with the one they wait   *)
(* for, whichever table it is from.                                        *)
Complete(p) ==
  /\ Idle(p)
  /\ \E r \in requests[p] :
       /\ r.accepted
       /\ requests' = [requests EXCEPT ![p] = @ \ {r}]
       /\ IF r.row.resend
          THEN /\ resends' = [resends EXCEPT ![p] = {x \in @ : x.id # r.row.id}]
               /\ UNCHANGED sentSeqOut
          ELSE /\ sentSeqOut' = [sentSeqOut EXCEPT ![p] = r.row.seq]
               /\ UNCHANGED resends
       /\ waiting' = [waiting EXCEPT ![p] = @ \ {r.row.id}]
       /\ delivered' = [delivered EXCEPT ![p] = @ \cup
            {id - FirstOutgoingId : id \in waiting[p] \cap {r.row.id}}]
  /\ UNCHANGED <<outgoing, stored, seqIn, incoming, lastId, shown, executing,
                 stage, writes, network, discarded, history,
                 failures, restarts>>

(* The server refuses a request; the row is sent again by a later poll.    *)
Fail(p) ==
  /\ Idle(p)
  /\ failures[p] < MaxFailures[p] /\ FaultLeft
  /\ failures' = [failures EXCEPT ![p] = @ + 1]
  /\ \E r \in requests[p] :
       /\ ~r.accepted
       /\ requests' = [requests EXCEPT ![p] = @ \ {r}]
       /\ executing' = [executing EXCEPT ![p] = @ \ {r.row.id}]
  /\ UNCHANGED <<persistent, waiting, stage, writes, network, discarded,
                 history, restarts>>

-----------------------------------------------------------------------------
(* The incoming queue.                                                     *)

(* Updates bring the first k messages of the server's queue: they are      *)
(* stored, and the incoming queue polls once.  A message with wrong bits   *)
(* goes to the table of undecrypted ones, where it stays.                  *)
NewIncoming(p, k) ==
  {[id |-> lastId[p].incoming + i, seq |-> Halved(network[p][i].seqOut),
    seqIn |-> Halved(network[p][i].seqIn), content |-> network[p][i].content] :
     i \in {j \in 1 .. k : Genuine(p, network[p][j])}}

Receive(p) ==
  /\ Idle(p)
  /\ \E k \in 1 .. Len(network[p]) :
       LET rows == incoming[p] \cup NewIncoming(p, k) IN
       /\ incoming' = [incoming EXCEPT ![p] = rows]
       /\ Post(p, <<IncomingBlock(rows, seqIn[p])>>)
       /\ lastId' = [lastId EXCEPT ![p].incoming = @ + k]
       /\ network' = [network EXCEPT ![p] = SubSeq(@, k + 1, Len(@))]
  /\ UNCHANGED <<outgoing, stored, sentSeqOut, seqIn, resends, shown,
                 delivered, executing, requests, waiting, writes, discarded,
                 history, failures, restarts>>

(* dequeuePeerIncomingActions when the client starts.                      *)
RunPollIncoming(p) ==
  /\ Runs(p, "pollIncoming")
  /\ stage' = [stage EXCEPT ![p] =
                 Append(Tail(@), IncomingBlock(incoming[p], seqIn[p]))]
  /\ UNCHANGED <<persistent, executing, requests, waiting, writes, network,
                 discarded, history,
                 failures, restarts>>

(* The rows of a snapshot, sorted out in the order of their numbers.       *)
Seqs(rows) == {r.seq : r \in rows}
NextExpected(rows, next) ==
  CHOOSE n \in next .. next + Cardinality(rows) :
    /\ n \notin Seqs(rows)
    /\ next .. n - 1 \subseteq Seqs(rows)
InSequence(rows, next) ==
  {r \in rows : /\ r.seq \in next .. NextExpected(rows, next) - 1
                /\ \A x \in rows : x.seq = r.seq => r.id <= x.id}
TooEarly(rows, next) == {r \in rows : r.seq > NextExpected(rows, next)}
EarlyResends(rows, next) ==
  {r \in TooEarly(rows, next) : r.content.type = "resend"}
Kept(rows, next) == TooEarly(rows, next) \ EarlyResends(rows, next)
ToProcess(rows, next) == InSequence(rows, next) \cup EarlyResends(rows, next)

(* The range a block asks for when rows are left: from the number it       *)
(* expects to the one before the smallest of the snapshot.                 *)
Missing(p, rows, next) ==
  ResendRequest(Wire(NextExpected(rows, next), p # Creator),
                Wire(Min(Seqs(rows)) - 1, p # Creator))

(* Rows in the order of their numbers, copies in the order they came.      *)
UpTo(rows, r) == {x \in rows : x.seq < r.seq \/ (x.seq = r.seq /\ x.id <= r.id)}
Sorted(rows) ==
  [i \in 1 .. Cardinality(rows) |-> CHOOSE r \in rows : Cardinality(UpTo(rows, r)) = i]
Ascending(S) ==
  [i \in 1 .. Cardinality(S) |-> CHOOSE x \in S : Cardinality({y \in S : y <= x}) = i]
OfType(rows, type) == {r \in rows : r.content.type = type}

(* Mutant of MaxSeqIn: one more than the peer has processed.               *)
MaxSeqInAhead(rows, next) ==
  Max({r.seqIn + 1 : r \in InSequence(rows, next)} \cup {-1})

(* The largest seqIn among the messages in sequence; -1 if there is none.  *)
MaxSeqIn(rows, next) == Max({r.seqIn : r \in InSequence(rows, next)} \cup {-1})

(* Mutant of Confirms: confirms although nothing was processed.            *)
ConfirmsAlways(rows, next) ==
  <<[type |-> "confirm", seq |-> MaxSeqIn(rows, next) - 1]>>

(* The peer's seqIn counts what it has processed, so the last of these is  *)
(* the number before; zero confirms nothing.                               *)
Confirms(rows, next) ==
  IF MaxSeqIn(rows, next) > 0
  THEN <<[type |-> "confirm", seq |-> MaxSeqIn(rows, next) - 1]>>
  ELSE <<>>

(* What the block posts to the database thread, in its order.              *)
BlockWrites(rows, next) ==
  LET process == ToProcess(rows, next)
      asked   == Sorted(OfType(process, "resend"))
      deleted == Seqs(OfType(process, "deletion"))
      texts   == Ascending(Seqs(OfType(process, "text")) \ deleted)
  IN  <<[type |-> "delete", ids |-> {r.id : r \in rows \ Kept(rows, next)}],
        [type |-> "seqIn", seq |-> NextExpected(rows, next)]>>
      \o Confirms(rows, next)
      \o [i \in DOMAIN asked |->
            [type |-> "resend", from |-> Halved(asked[i].content.from),
             to |-> Halved(asked[i].content.to)]]
      \o (IF texts # <<>> THEN <<[type |-> "add", seqs |-> texts]>> ELSE <<>>)
      \o (IF deleted # {} THEN <<[type |-> "remove", seqs |-> deleted]>>
          ELSE <<>>)

RunIncoming(p) ==
  /\ Runs(p, "incoming")
  /\ LET rows == Head(stage[p]).rows
         next == Head(stage[p]).next
     IN  \/ /\ Kept(rows, next) = {}
            /\ writes' = [writes EXCEPT ![p] = BlockWrites(rows, next)]
            /\ UNCHANGED <<outgoing, stored>>
         \/ /\ Kept(rows, next) # {}
            /\ Enqueue(p, Missing(p, rows, next))
            /\ writes' = [writes EXCEPT ![p] =
                 <<[type |-> "poll"]>> \o BlockWrites(rows, next)]
  /\ stage' = [stage EXCEPT ![p] = Tail(@)]
  /\ UNCHANGED <<sentSeqOut, seqIn, incoming, resends, lastId, shown,
                 delivered, executing, requests, waiting, network, discarded,
                 history, failures, restarts>>

-----------------------------------------------------------------------------
(* The database thread.                                                    *)

Writes(p, type) ==
  /\ ~discarded
  /\ writes[p] # <<>> /\ Head(writes[p]).type = type
  /\ writes' = [writes EXCEPT ![p] = Tail(@)]
  /\ UNCHANGED <<outgoing, sentSeqOut, delivered, executing, requests, waiting,
                 network, lost, failures, restarts>>

WritePoll(p) ==
  /\ Writes(p, "poll")
  /\ Post(p, <<OutgoingBlock(p, stored[p])>>)
  /\ UNCHANGED <<stored, seqIn, incoming, resends, lastId, shown, discarded,
                 processed>>

(* deletePeerIncomingActions                                               *)
WriteDelete(p) ==
  /\ Writes(p, "delete")
  /\ incoming' = [incoming EXCEPT ![p] =
                    {r \in @ : r.id \notin Head(writes[p]).ids}]
  /\ UNCHANGED <<stored, seqIn, resends, lastId, shown, stage, discarded,
                 processed>>

(* applyPeerSeqIn                                                          *)
WriteSeqIn(p) ==
  /\ Writes(p, "seqIn")
  /\ seqIn' = [seqIn EXCEPT ![p] = Head(writes[p]).seq]
  /\ processed' = [processed EXCEPT ![p] = Max({@, Head(writes[p]).seq})]
  /\ UNCHANGED <<stored, incoming, resends, lastId, shown, stage, discarded>>

(* confirmPeerSeqOut                                                       *)
WriteConfirm(p) ==
  /\ Writes(p, "confirm")
  /\ stored' = [stored EXCEPT ![p] = {s \in @ : s > Head(writes[p]).seq}]
  /\ UNCHANGED <<seqIn, incoming, resends, lastId, shown, stage, discarded,
                 processed>>

(* A range cannot be sent again when one of its rows is gone; then the     *)
(* chat is discarded.                                                      *)
Discards(p, range) == ~(range \subseteq stored[p])

(* enqueuePeerOutgoingResendActions: the rows that are left are copied, in *)
(* the order of their numbers.                                             *)
WriteResend(p) ==
  /\ Writes(p, "resend")
  /\ LET range == Head(writes[p]).from .. Head(writes[p]).to
         found == stored[p] \cap range
         Rank(seq) == Cardinality({s \in found : s <= seq})
     IN  /\ resends' = [resends EXCEPT ![p] = @ \cup
              {[id |-> lastId[p].resend + Rank(seq), seq |-> seq] : seq \in found}]
         /\ lastId' = [lastId EXCEPT ![p].resend = @ + Cardinality(found)]
         /\ discarded' = Discards(p, range)
  /\ Post(p, <<PollOutgoing>>)
  /\ UNCHANGED <<stored, seqIn, incoming, shown, processed>>

(* What is left of a list when the members of a set are taken out.         *)
Without(list, S) ==
  LET left == Ascending({i \in DOMAIN list : list[i] \notin S})
  IN  [i \in DOMAIN left |-> list[left[i]]]

(* Mutant of WriteAdd: messages that are there already are added again.    *)
WriteAddUnfiltered(p) ==
  /\ Writes(p, "add")
  /\ shown' = [shown EXCEPT ![p] = @ \o Head(writes[p]).seqs]
  /\ UNCHANGED <<stored, seqIn, incoming, resends, lastId, stage, discarded,
                 processed>>

(* filterExistingRandomIds and transactionAddMessages                      *)
WriteAdd(p) ==
  /\ Writes(p, "add")
  /\ shown' = [shown EXCEPT ![p] =
                 @ \o Without(Head(writes[p]).seqs, ToSet(shown[p]))]
  /\ UNCHANGED <<stored, seqIn, incoming, resends, lastId, stage, discarded,
                 processed>>

(* transactionRemoveMessages                                               *)
WriteRemove(p) ==
  /\ Writes(p, "remove")
  /\ shown' = [shown EXCEPT ![p] = Without(@, Head(writes[p]).seqs)]
  /\ UNCHANGED <<stored, seqIn, incoming, resends, lastId, stage, discarded,
                 processed>>

DatabaseStep(p) ==
  \/ WritePoll(p) \/ WriteDelete(p) \/ WriteSeqIn(p) \/ WriteConfirm(p)
  \/ WriteResend(p) \/ WriteAdd(p) \/ WriteRemove(p)

-----------------------------------------------------------------------------
(* A crash.  The tables survive; the actors, the requests and the queries  *)
(* that wait do not.  At the start the queues that have rows are polled.   *)

WriteTypes(p) == {writes[p][i].type : i \in DOMAIN writes[p]}
CutShort(p) ==
  IF "delete" \in WriteTypes(p) THEN {}
  ELSE UNION {ToSet(writes[p][i].seqs) :
                i \in {j \in DOMAIN writes[p] : writes[p][j].type = "add"}}

Restart(p) ==
  /\ ~discarded
  /\ restarts[p] < MaxRestarts[p] /\ FaultLeft
  /\ restarts' = [restarts EXCEPT ![p] = @ + 1]
  /\ executing' = [executing EXCEPT ![p] = {}]
  /\ requests' = [requests EXCEPT ![p] = {}]
  /\ waiting' = [waiting EXCEPT ![p] = {}]
  /\ writes' = [writes EXCEPT ![p] = <<>>]
  /\ stage' = [stage EXCEPT ![p] =
       (IF stored[p] # {} \/ resends[p] # {} THEN <<PollOutgoing>> ELSE <<>>)
       \o (IF incoming[p] # {} THEN <<PollIncoming>> ELSE <<>>)]
  /\ lost' = [lost EXCEPT ![p] = @ \cup CutShort(p)]
  /\ UNCHANGED <<persistent, network, discarded, processed, failures>>

StageStep(p) ==
  \/ RunPollOutgoing(p) \/ RunOutgoing(p)
  \/ RunPollIncoming(p) \/ RunIncoming(p)

Next == \E p \in Peers :
  \/ Send(p) \/ StageStep(p) \/ DatabaseStep(p)
  \/ Accept(p) \/ Complete(p) \/ Fail(p) \/ Receive(p) \/ Restart(p)

Spec == Init /\ [][Next]_vars

(* Of the two threads of a client one that has something to do runs, and   *)
(* the server goes on taking requests, answering them and delivering.      *)
(* Nothing makes a user send, a request fail or a client crash.            *)
Fairness == \A p \in Peers :
  /\ WF_vars(StageStep(p) \/ DatabaseStep(p))
  /\ WF_vars(Accept(p) \/ Complete(p) \/ Receive(p))

FairSpec == Spec /\ Fairness

-----------------------------------------------------------------------------
(* Types.                                                                  *)

Contents == {Text, Deletion}
            \cup [type : {"resend"}, from : Int, to : Int]
Messages == [seqOut : Int, seqIn : Int, content : Contents]
Rows     == [id : Nat, seq : Int, seqIn : Int, content : Contents]
Resends  == [id : Nat, seq : Nat]
Requests == [row : [id : Nat, seq : Nat, resend : BOOLEAN],
             accepted : BOOLEAN, after : SUBSET Nat, message : Messages]
Blocks   == [type : {"pollOutgoing", "pollIncoming"}]
            \cup [type : {"outgoing"}, rows : SUBSET Nat,
                  resends : SUBSET Resends]
            \cup [type : {"incoming"}, rows : SUBSET Rows, next : Nat]
Queries  == [type : {"poll"}]
            \cup [type : {"delete"}, ids : SUBSET Nat]
            \cup [type : {"seqIn", "confirm"}, seq : Nat]
            \cup [type : {"resend"}, from : Int, to : Int]
            \cup [type : {"add"}, seqs : Seq(Int)]
            \cup [type : {"remove"}, seqs : SUBSET Int]

(* Every variable has its type.  Of note: no sequence number that is       *)
(* applied or confirmed is negative.                                       *)
TypeOK ==
  /\ outgoing \in [Peers -> Seq([seqIn : Nat, body : Contents])]
  /\ \A p \in Peers : stored[p] \subseteq 0 .. Len(outgoing[p]) - 1
  /\ sentSeqOut \in [Peers -> Int]
  /\ seqIn \in [Peers -> Nat] /\ processed \in [Peers -> Nat]
  /\ \A p \in Peers :
       /\ incoming[p] \subseteq Rows /\ resends[p] \subseteq Resends
       /\ requests[p] \subseteq Requests
       /\ executing[p] \subseteq Nat /\ waiting[p] \subseteq Nat
       /\ delivered[p] \subseteq Nat /\ lost[p] \subseteq Int
  /\ lastId \in [Peers -> [incoming : Nat, resend : Int]]
  /\ shown \in [Peers -> Seq(Int)]
  /\ stage \in [Peers -> Seq(Blocks)]
  /\ writes \in [Peers -> Seq(Queries)]
  /\ network \in [Peers -> Seq(Messages)]
  /\ discarded \in BOOLEAN
  /\ failures \in [Peers -> Nat] /\ restarts \in [Peers -> Nat]

-----------------------------------------------------------------------------
(* Properties.                                                             *)

(* A row leaves the outgoing table only when the peer has processed it:    *)
(* the seqIn that confirms it (confirmPeerSeqOut) is never ahead of the    *)
(* peer, whatever old message, copy or snapshot it was read from.          *)
KeptUntilProcessed ==
  \A p \in Peers : \A seq \in 0 .. Len(outgoing[p]) - 1 :
    seq \notin stored[p] => seq < processed[Other(p)]

(* Violated.  The number expected of the peer (applyPeerSeqIn) never goes  *)
(* back, although every block computes it from a snapshot that may be old. *)
NeverExpectsAgain == [][\A p \in Peers : seqIn'[p] >= seqIn[p]]_vars

(* Messages enter the conversation once (filterExistingRandomIds), and in  *)
(* the order they were sent, although polls overlap, requests are repeated *)
(* and rows are sent twice.  The order holds until the server refuses a    *)
(* request of the sender: then a deletion that replaces a message may      *)
(* overtake it, and the message is added behind later ones.                *)
ShownInOrder ==
  \A p \in Peers : \A i, j \in DOMAIN shown[p] :
    i < j => /\ shown[p][i] # shown[p][j]
             /\ failures[Other(p)] = 0 => shown[p][i] < shown[p][j]

(* A message that its sender marks as delivered (deliveryState, in         *)
(* sendEncryptedMessageSuccess) and that the peer has passed is in the     *)
(* peer's conversation or about to be added, except what a crash cut off.  *)
(* It is so until the server refuses a request of the sender: the copy     *)
(* that is asked for then may be a deletion that overtakes the original.   *)
(* It is also lost when, besides the crash of the peer, a refusal or a     *)
(* crash makes the sender ask for messages: seqIn may go back then, and a  *)
(* message that was shown is asked for again and answered by a deletion.   *)
OneNeverAsks(p) ==
  \/ restarts[Other(p)] = 0
  \/ restarts[p] = 0 /\ failures[Other(p)] = 0
DeliveredIsShown ==
  \A p \in Peers : \A seq \in delivered[p] :
    LET q == Other(p) IN
    failures[p] = 0 /\ OneNeverAsks(p) /\ seq < seqIn[q] =>
      \/ seq \in ToSet(shown[q]) \cup lost[q]
      \/ \E i \in DOMAIN writes[q] : /\ writes[q][i].type = "add"
                                     /\ seq \in ToSet(writes[q][i].seqs)

(* Violated.  An id in _executingRequestsActionIds keeps a row of the      *)
(* resend table from being sent only while a request for that row is on    *)
(* its way.                                                                *)
ExecutingIsRequested ==
  \A p \in Peers : \A r \in resends[p] :
    r.id \in executing[p] =>
      \E x \in requests[p] : x.row = [id |-> r.id, seq |-> r.seq, resend |-> TRUE]

(* The only other reason is a row of the outgoing table with the same id:  *)
(* the two tables give ids of their own and share one set, from which a    *)
(* success removes nothing (sendEncryptedMessageSuccess).  A copy that     *)
(* failed, was answered or was read by an older snapshot is never held     *)
(* back by what it left behind itself.                                     *)
ExecutingIsRequestedOrAlike ==
  \A p \in Peers : \A r \in resends[p] :
    r.id \in executing[p] =>
      \/ \E x \in requests[p] : x.row = [id |-> r.id, seq |-> r.seq, resend |-> TRUE]
      \/ \E n \in 0 .. Len(outgoing[p]) - 1 : r.id = OutgoingId(n)

(* Violated.  A block that waits for a number asks for a range that        *)
(* includes it (TGSecretIncomingQueueActor.mm:237).                        *)
AsksForMissing ==
  \A p \in Peers : \A i \in DOMAIN outgoing[p] :
    LET body == outgoing[p][i].body
    IN  body.type = "resend" => body.from <= body.to

(* What a client enqueues is processed by the peer sooner or later, also   *)
(* when the client crashes in between, unless the server refuses a request *)
(* or the peer crashes: whatever has been enqueued, at some later time the *)
(* peer has passed all of it.                                              *)
EventuallyProcessed ==
  \A p \in Peers : []<>
    \/ processed[Other(p)] >= Len(outgoing[p])
    \/ failures[p] > 0 \/ restarts[Other(p)] > 0 \/ discarded
=============================================================================

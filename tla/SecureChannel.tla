--------------------------- MODULE SecureChannel ---------------------------
(***************************************************************************)
(* The encrypted connections between pages and the Agent: SecureSession    *)
(* with its sequence numbers and fragments, the assembly budget that all   *)
(* connections of the Agent share, and what GatewayV2Connection does with  *)
(* a request: queries run at once, mutations one after the other.          *)
(*                                                                         *)
(* A message is its number on its connection; of its length only the       *)
(* number of records matters (1: sent whole). A WebSocket delivers what    *)
(* is sent on it in order, up to the point where it breaks.                *)
(***************************************************************************)
EXTENDS Naturals, Sequences, FiniteSetsExt

CONSTANTS
    Conn,           \* connections
    Sizes,          \* lengths of messages, in records
    Limit,          \* maxReceiveMessageBytes of the Agent, in records
    Budget,         \* MAX_ASSEMBLY_BYTES, in records
    AnswerSizes,    \* lengths of answers
    MaxMessages,    \* bound on the requests of all connections
    MaxTimeouts     \* bound on the fragments that come too late

ChannelAssumption ==
    /\ IsFiniteSet(Conn) /\ Sizes \subseteq Nat \ {0} /\ Limit \in Nat /\ Budget \in Nat
    /\ MaxMessages \in Nat /\ MaxTimeouts \in Nat

VARIABLES
    sent,       \* requests of each connection: their size and kind
    wire,       \* records on their way to the Agent
    back,       \* records on their way to the page
    seq,        \* sequence numbers: [out, in] of the page and of the Agent
    fragments,  \* the Agent's assembly of a connection
    answers,    \* the page's assembly of a connection
    socket,     \* the two ends of a connection: open, closing, closed
    got,        \* requests the Agent took, in that order
    queued,     \* #mutationQueue
    running,    \* requests that execute
    finished,   \* requests that were executed, in that order
    pending,    \* exchanges the page waits for
    settled,    \* exchanges that were answered
    reserved,   \* reservedBytes of the shared budget
    timeouts    \* fragments that came too late

vars == <<sent, wire, back, seq, fragments, answers, socket, got, queued, running, finished,
          pending, settled, reserved, timeouts>>
traffic == <<sent, wire, back, seq>>
work == <<got, queued, running, finished>>
waits == <<pending, settled>>

NoAssembly == [id |-> 0, next |-> 0, count |-> 0]
Ids(c) == 1 .. Len(sent[c])

Init ==
    /\ sent = [c \in Conn |-> <<>>]
    /\ wire = [c \in Conn |-> <<>>] /\ back = [c \in Conn |-> <<>>]
    /\ seq = [c \in Conn |-> [pageOut |-> 0, pageIn |-> 0, agentOut |-> 0, agentIn |-> 0]]
    /\ fragments = [c \in Conn |-> NoAssembly] /\ answers = [c \in Conn |-> NoAssembly]
    /\ socket = [c \in Conn |-> [page |-> "open", agent |-> "open"]]
    /\ got = [c \in Conn |-> <<>>] /\ queued = [c \in Conn |-> <<>>]
    /\ running = [c \in Conn |-> {}] /\ finished = [c \in Conn |-> <<>>]
    /\ pending = [c \in Conn |-> {}] /\ settled = [c \in Conn |-> {}]
    /\ reserved = 0 /\ timeouts = 0

-----------------------------------------------------------------------------
(***************************************************************************)
(* SecureSession                                                           *)
(***************************************************************************)
(* encryptMessage: one record, or count fragments with consecutive sequence numbers *)
Frames(id, count, first) ==
    [i \in 1 .. count |-> [seq |-> first + i - 1, id |-> id, index |-> i - 1, count |-> count]]

(* #discardFragments and SecureMessageAssemblyBudget.release *)
Released(c) ==
    IF reserved > fragments[c].count THEN reserved - fragments[c].count ELSE 0

(* decryptMessage, one record: what becomes of the assembly, whether it is an error, and
   the message that is complete. Every error discards the assembly there is. *)
Decrypt(asm, f, in, limit) ==
    LET fails == [asm |-> NoAssembly, ok |-> FALSE, message |-> 0]
        here == IF f.index = 0 THEN [id |-> f.id, next |-> 0, count |-> f.count] ELSE asm
    IN  IF f.seq # in THEN [fails EXCEPT !.asm = asm]
        ELSE IF f.count = 1
        THEN IF asm = NoAssembly THEN [asm |-> NoAssembly, ok |-> TRUE, message |-> f.id] ELSE fails
        ELSE IF \/ f.count > limit
                \/ f.index = 0 /\ asm # NoAssembly
                \/ here = NoAssembly
                \/ here.next # f.index
                \/ here.count # f.count
        THEN fails
        ELSE IF f.index + 1 < f.count
        THEN [asm |-> [here EXCEPT !.next = @ + 1], ok |-> TRUE, message |-> 0]
        ELSE [asm |-> NoAssembly, ok |-> TRUE, message |-> f.id]

-----------------------------------------------------------------------------
(***************************************************************************)
(* The page                                                                *)
(***************************************************************************)
(* exchange: all records are sent at once. *)
Exchange(c, size, query) ==
    /\ socket[c].page = "open" /\ MapThenSumSet(LAMBDA e : Len(sent[e]), Conn) < MaxMessages
    /\ LET id == Len(sent[c]) + 1 IN
       /\ sent' = [sent EXCEPT ![c] = Append(@, [size |-> size, query |-> query])]
       /\ wire' = [wire EXCEPT ![c] = @ \o Frames(id, size, seq[c].pageOut)]
       /\ seq' = [seq EXCEPT ![c].pageOut = @ + size]
       /\ pending' = [pending EXCEPT ![c] = @ \cup {id}]
    /\ UNCHANGED <<back, fragments, answers, socket, work, settled, reserved, timeouts>>

(* REQUEST_TIMEOUT_MS, or the caller's signal: the answer will find nobody. *)
GiveUp(c, id) ==
    /\ id \in pending[c]
    /\ pending' = [pending EXCEPT ![c] = @ \ {id}]
    /\ UNCHANGED <<traffic, fragments, answers, socket, work, settled, reserved, timeouts>>

(* #invalidate: every exchange is rejected. *)
PageCloses(c) ==
    /\ socket' = [socket EXCEPT ![c].page = "closed"]
    /\ pending' = [pending EXCEPT ![c] = {}]
    /\ back' = [back EXCEPT ![c] = <<>>]
    /\ answers' = [answers EXCEPT ![c] = NoAssembly]

(* #message: an answer settles its exchange; an event has no number (0) and goes to the
   listeners; anything that is not a record of this session ends it. *)
PageReceives(c) ==
    /\ socket[c].page = "open" /\ back[c] # <<>>
    /\ LET f == Head(back[c])
           d == Decrypt(answers[c], f, seq[c].pageIn, f.count) IN
       IF d.ok
       THEN /\ back' = [back EXCEPT ![c] = Tail(@)]
            /\ seq' = [seq EXCEPT ![c].pageIn = @ + 1]
            /\ answers' = [answers EXCEPT ![c] = d.asm]
            /\ pending' = [pending EXCEPT ![c] = @ \ {d.message}]
            /\ settled' = [settled EXCEPT ![c] = @ \cup ({d.message} \cap pending[c])]
            /\ UNCHANGED socket
       ELSE PageCloses(c) /\ UNCHANGED <<seq, settled>>
    /\ UNCHANGED <<sent, wire, fragments, work, reserved, timeouts>>

(* The page closes the connection, or learns that it is closed. *)
PageLeaves(c) ==
    /\ socket[c].page = "open"
    /\ PageCloses(c)
    /\ UNCHANGED <<sent, wire, seq, fragments, work, settled, reserved, timeouts>>

-----------------------------------------------------------------------------
(***************************************************************************)
(* The Agent                                                               *)
(***************************************************************************)
(* reserve() refuses what does not fit any more. *)
Fits(c, f) == f.index = 0 /\ f.count > 1 /\ f.count <= Limit => reserved + f.count <= Budget

(* SecureMessageAssemblyBudget: a first fragment reserves the declared length, every end
   of an assembly releases it. *)
Reservation(c, f, d) ==
    IF d.asm # NoAssembly
    THEN (IF fragments[c] = NoAssembly THEN reserved + f.count ELSE reserved)
    ELSE (IF fragments[c] # NoAssembly THEN Released(c) ELSE reserved)

(* isQuery: a query executes at once, a mutation after the ones before it. *)
Taken(c, id) ==
    IF sent[c][id].query
    THEN running' = [running EXCEPT ![c] = @ \cup {id}] /\ UNCHANGED queued
    ELSE queued' = [queued EXCEPT ![c] = Append(@, id)] /\ UNCHANGED running

(* An error of #receiveEncrypted: socket.close(1008). *)
MutProtocolError(c) == UNCHANGED socket
ProtocolError(c) ==
    socket' = [socket EXCEPT ![c].agent = IF @ = "open" THEN "closing" ELSE @]

(* The message listener and #receiveEncrypted. Records that were on their way when the
   Agent began to close the socket are still received. *)
AgentReceives(c) ==
    /\ socket[c].agent # "closed" /\ wire[c] # <<>>
    /\ LET f == Head(wire[c])
           known == f.seq = seq[c].agentIn
           d == IF known /\ fragments[c] = NoAssembly /\ ~Fits(c, f)
                THEN [asm |-> NoAssembly, ok |-> FALSE, message |-> 0]
                ELSE Decrypt(fragments[c], f, seq[c].agentIn, Limit) IN
       /\ wire' = [wire EXCEPT ![c] = Tail(@)]
       /\ seq' = [seq EXCEPT ![c].agentIn = IF known THEN @ + 1 ELSE @]
       /\ fragments' = [fragments EXCEPT ![c] = d.asm]
       /\ reserved' = Reservation(c, f, d)
       /\ IF d.ok THEN UNCHANGED socket ELSE ProtocolError(c)
       /\ IF d.message # 0
          THEN got' = [got EXCEPT ![c] = Append(@, d.message)] /\ Taken(c, d.message)
          ELSE UNCHANGED <<got, queued, running>>
    /\ UNCHANGED <<sent, back, answers, finished, waits, timeouts>>

(* fragmentAssemblyTimeoutMs, fragmentAssemblyAbsoluteTimeoutMs: the assembly is dropped
   without a word. *)
AssemblyTimeout(c) ==
    /\ fragments[c] # NoAssembly /\ timeouts < MaxTimeouts
    /\ fragments' = [fragments EXCEPT ![c] = NoAssembly]
    /\ reserved' = Released(c)
    /\ timeouts' = timeouts + 1
    /\ UNCHANGED <<traffic, answers, socket, work, waits>>

(* The head of #mutationQueue starts when the one before it is answered. *)
StartMutation(c) ==
    /\ queued[c] # <<>>
    /\ \A id \in running[c] : sent[c][id].query
    /\ running' = [running EXCEPT ![c] = @ \cup {Head(queued[c])}]
    /\ queued' = [queued EXCEPT ![c] = Tail(@)]
    /\ UNCHANGED <<traffic, fragments, answers, socket, got, finished, waits, reserved, timeouts>>

(* #sendEncrypted, on a socket that is open *)
Sent(c, id, size) ==
    IF socket[c].agent = "open"
    THEN /\ back' = IF socket[c].page = "open"
                    THEN [back EXCEPT ![c] = @ \o Frames(id, size, seq[c].agentOut)] ELSE back
         /\ seq' = [seq EXCEPT ![c].agentOut = @ + size]
    ELSE UNCHANGED <<back, seq>>

(* #execute: the request is routed and its answer sent. *)
Execute(c, id, size) ==
    /\ id \in running[c]
    /\ running' = [running EXCEPT ![c] = @ \ {id}]
    /\ finished' = [finished EXCEPT ![c] = Append(@, id)]
    /\ Sent(c, id, size)
    /\ UNCHANGED <<sent, wire, fragments, answers, socket, got, queued, waits, reserved, timeouts>>

MutAgentCloses(c) ==
    /\ socket[c].agent # "closed"
    /\ socket[c].page = "closed" \/ socket[c].agent = "closing"
    /\ wire[c] = <<>> \/ socket[c].page = "closed"
    /\ socket' = [socket EXCEPT ![c].agent = "closed"]
    /\ wire' = [wire EXCEPT ![c] = <<>>]
    /\ fragments' = [fragments EXCEPT ![c] = NoAssembly]
    /\ reserved' = reserved
    /\ UNCHANGED <<sent, back, seq, answers, work, waits, timeouts>>

(* The socket's close event, or the end of the Agent's scope: dispose(). Requests that
   were taken go on. *)
AgentCloses(c) ==
    /\ socket[c].agent # "closed"
    /\ socket[c].page = "closed" \/ socket[c].agent = "closing"
    /\ wire[c] = <<>> \/ socket[c].page = "closed"
    /\ socket' = [socket EXCEPT ![c].agent = "closed"]
    /\ wire' = [wire EXCEPT ![c] = <<>>]
    /\ fragments' = [fragments EXCEPT ![c] = NoAssembly]
    /\ reserved' = IF fragments[c] # NoAssembly THEN Released(c) ELSE reserved
    /\ UNCHANGED <<sent, back, seq, answers, work, waits, timeouts>>

(* The page learns of a socket that the Agent closes. *)
PageNotices(c) == socket[c].agent # "open" /\ back[c] = <<>> /\ PageLeaves(c)

-----------------------------------------------------------------------------
Next ==
    \E c \in Conn :
        \/ \E size \in Sizes, query \in BOOLEAN : Exchange(c, size, query)
        \/ \E id \in Ids(c) : GiveUp(c, id) \/ \E size \in AnswerSizes : Execute(c, id, size)
        \/ PageReceives(c) \/ PageLeaves(c) \/ PageNotices(c)
        \/ AgentReceives(c) \/ AssemblyTimeout(c) \/ StartMutation(c) \/ AgentCloses(c)

Spec == Init /\ [][Next]_vars

-----------------------------------------------------------------------------
(***************************************************************************)
(* Properties                                                              *)
(***************************************************************************)
TypeOK ==
    /\ \A c \in Conn :
         /\ socket[c].page \in {"open", "closed"}
         /\ socket[c].agent \in {"open", "closing", "closed"}
         /\ pending[c] \subseteq Ids(c) /\ settled[c] \subseteq Ids(c)
         /\ running[c] \subseteq Ids(c)
    /\ reserved \in 0 .. Budget

(* The shared budget holds exactly the assemblies in progress: whatever ends one - its
   last fragment, an error, a timeout, a lost connection - gives back what it reserved,
   once, and the connections together never exceed it. *)
BudgetExact == reserved = MapThenSumSet(LAMBDA c : fragments[c].count, Conn) /\ reserved <= Budget

Increasing(s) == \A i, j \in 1 .. Len(s) : i < j => s[i] < s[j]
Mutations(c, s) == SelectSeq(s, LAMBDA id : ~sent[c][id].query)

(* A connection's requests are taken whole, at most once, in the order in which they were
   sent, and its mutations execute in that order; after one that was dropped, nothing is
   answered any more. *)
InOrder ==
    \A c \in Conn :
      /\ Increasing(got[c]) /\ Increasing(Mutations(c, finished[c]))
      /\ \A i \in 1 .. Len(got[c]) : got[c][i] # i => socket[c].agent # "open"
=============================================================================

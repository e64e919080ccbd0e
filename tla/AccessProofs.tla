---------------------------- MODULE AccessProofs ----------------------------
(***************************************************************************)
(* Proofs about Access, for any browsers, keys and requests, and windows   *)
(* and limits of any size: the inductive invariant, and that an Agent has  *)
(* one first owner, a recovery code lets one request in, and a session     *)
(* that counts as remembered has the row of its device.                    *)
(***************************************************************************)
EXTENDS Access, TLAPS

USE AccessAssumption DEF AccessAssumption, rows, kept, memory, bounds, history

-----------------------------------------------------------------------------
(***************************************************************************)
(* What several steps need                                                 *)
(***************************************************************************)
(* What each part of the invariant is about: a step that leaves that alone keeps it. *)
LEMMA Undisturbed ==
    ASSUME AccessInv
    PROVE  /\ UNCHANGED <<passkey, password, owners>> => OwnersInitialize'
           /\ UNCHANGED <<codes, handoff, issued, spent>> => CodesRunOut'
           /\ UNCHANGED device => RowsAreKeyed'
           /\ UNCHANGED <<session, device>> => PeersKnown'
           /\ UNCHANGED <<ticket, device>> => TicketsBound'
           /\ UNCHANGED <<op, session, device>> => RequestsOwned'
           /\ UNCHANGED <<device, session, op, ticket>> => Shapes'
<1>1. /\ UNCHANGED <<passkey, password, owners>> => OwnersInitialize'
      /\ UNCHANGED <<codes, handoff, issued, spent>> => CodesRunOut'
  BY DEF AccessInv, OwnersInitialize, Initialized, CodesRunOut
<1>2. /\ UNCHANGED device => RowsAreKeyed'
      /\ UNCHANGED <<session, device>> => PeersKnown'
      /\ UNCHANGED <<ticket, device>> => TicketsBound'
  BY DEF AccessInv, RowsAreKeyed, PeersKnown, TicketsBound, Bound
<1>3. UNCHANGED <<op, session, device>> => RequestsOwned'
  BY DEF AccessInv, RequestsOwned, InProgress, Bound
<1>4. UNCHANGED <<device, session, op, ticket>> => Shapes'
  BY DEF AccessInv, Shapes
<1>5. QED
  BY <1>1, <1>2, <1>3, <1>4

(* The next issue of codes has not been accepted, whether it comes beside the others or
   in their place. *)
LEMMA NextIssueRunsOut ==
    ASSUME CodesRunOut, AddCodes \/ ReplaceCodes, UNCHANGED <<handoff, spent>>
    PROVE  CodesRunOut'
<1>1. /\ issued \in Nat /\ issued' = issued + 1 /\ issued' \in 0 .. MaxIssues
      /\ codes' \subseteq codes \cup {issued'}
  BY DEF CodesRunOut, AddCodes, ReplaceCodes, NextIssue
<1>2. codes' \subseteq 1 .. issued'
  BY <1>1 DEF CodesRunOut
<1>3. ASSUME NEW c \in Issues, spent'[c] = 1 PROVE c \notin codes' /\ c <= issued'
  BY <1>1, <1>3 DEF CodesRunOut, Issues
<1>4. QED
  BY <1>1, <1>2, <1>3 DEF CodesRunOut

(* A request goes on: what it is about stays as it was. *)
LEMMA RequestSteps ==
    ASSUME AccessInv, NEW k \in Run, InProgress(k), UNCHANGED <<session, device, ticket>>,
           NEW stage \in {"commit", "unused", "rotate", "remember", "finish"}, NEW fresh,
           \/ Step(k, stage)
           \/ op' = [op EXCEPT ![k] = [@ EXCEPT !.stage = stage, !.fresh = fresh]],
           (stage = "finish" /\ op[k].remember) => Bound(op[k].peer)
    PROVE  Shapes' /\ PeersKnown' /\ TicketsBound' /\ RequestsOwned'
<1>1. /\ DOMAIN op' = Run /\ \A j \in Run : j # k => op'[j] = op[j]
      /\ DOMAIN op'[k] = DOMAIN op[k]
  BY DEF AccessInv, Shapes, Step
<1>0. /\ op'[k].stage = stage /\ op'[k].session = op[k].session /\ op'[k].peer = op[k].peer
      /\ op'[k].method = op[k].method /\ op'[k].code = op[k].code
      /\ op'[k].remember = op[k].remember
  <2>1. DOMAIN op[k] = {"stage", "key", "method", "session", "peer", "remember", "free",
                        "code", "fresh"}
    BY DEF AccessInv, Shapes, NoOp
  <2>2. op'[k] = [op[k] EXCEPT !.stage = stage]
          \/ op'[k] = [op[k] EXCEPT !.stage = stage, !.fresh = fresh]
    BY DEF AccessInv, Shapes, Step
  <2>3. CASE op'[k] = [op[k] EXCEPT !.stage = stage]
    BY <2>1, <2>3
  <2>4. CASE op'[k] = [op[k] EXCEPT !.stage = stage, !.fresh = fresh]
    BY <2>1, <2>4
  <2>5. QED
    BY <2>2, <2>3, <2>4
<1>2. Shapes'
  BY <1>1 DEF AccessInv, Shapes
<1>3. RequestsOwned'
  <2>1. ASSUME NEW j \in Run, j # k
        PROVE  op'[j] = op[j] /\ (InProgress(j)' <=> InProgress(j))
    BY <1>1, <2>1 DEF InProgress
  <2>2. QED
    BY <1>0, <2>1 DEF AccessInv, RequestsOwned, Bound
<1>4. QED
  BY <1>2, <1>3, Undisturbed

(* A request is over. *)
LEMMA RequestSettles ==
    ASSUME AccessInv, NEW k \in Run, Settled(k)
    PROVE  /\ UNCHANGED <<session, device, ticket>> =>
                 Shapes' /\ PeersKnown' /\ TicketsBound' /\ RequestsOwned'
           /\ DOMAIN op' = Run /\ \A j \in Run : DOMAIN op'[j] = DOMAIN NoOp
           /\ \A j \in Run : InProgress(j)' => j # k /\ InProgress(j) /\ op'[j] = op[j]
<1>1. /\ DOMAIN op' = Run /\ \A j \in Run : j # k => op'[j] = op[j]
      /\ op'[k] = [NoOp EXCEPT !.stage = "done", !.key = op[k].key]
  BY DEF AccessInv, Shapes, Settled
<1>2. DOMAIN op'[k] = DOMAIN NoOp /\ op'[k].stage = "done"
  BY <1>1 DEF NoOp
<1>3. \A j \in Run : DOMAIN op'[j] = DOMAIN NoOp
  BY <1>1, <1>2 DEF AccessInv, Shapes
<1>4. \A j \in Run : InProgress(j)' => j # k /\ InProgress(j) /\ op'[j] = op[j]
  BY <1>1, <1>2 DEF InProgress
<1>5. UNCHANGED <<session, device, ticket>> => Shapes' /\ PeersKnown' /\ TicketsBound'
  BY <1>1, <1>3, Undisturbed DEF AccessInv, Shapes
<1>6. UNCHANGED <<session, device, ticket>> => RequestsOwned'
  BY <1>4 DEF AccessInv, RequestsOwned, Bound
<1>7. QED
  BY <1>1, <1>3, <1>4, <1>5, <1>6

-----------------------------------------------------------------------------
(***************************************************************************)
(* The owner's commands and the connections                                *)
(***************************************************************************)
LEMMA QuietKeeps ==
    ASSUME AccessInv, UNCHANGED <<passkey, password, owners, codes, handoff, issued, spent,
                                  device, session, op, ticket>>
    PROVE  AccessInv'
  BY Undisturbed DEF AccessInv

LEMMA RevokeDeviceKeeps ==
    ASSUME AccessInv, NEW d \in DeviceId, RevokeDevice(d)
    PROVE  AccessInv'
<1>1. /\ device' \in [DeviceId -> [key : DevKey \cup {None}, revoked : BOOLEAN]]
      /\ \A e \in DeviceId : device'[e].key = device[e].key
      /\ \A e \in DeviceId : e # d => device'[e] = device[e]
  BY DEF AccessInv, Shapes, RevokeDevice
<1>2. UNCHANGED <<passkey, password, owners, codes, handoff, issued, spent, session, op, ticket>>
  BY DEF RevokeDevice
<1>3. Shapes' /\ OwnersInitialize' /\ CodesRunOut'
  BY <1>1, <1>2, Undisturbed DEF AccessInv, Shapes
<1>4. RowsAreKeyed'
  BY <1>1 DEF AccessInv, RowsAreKeyed, RevokeDevice
<1>5. PeersKnown' /\ TicketsBound'
  BY <1>1, <1>2 DEF AccessInv, PeersKnown, TicketsBound, Bound, Peer
<1>6. RequestsOwned'
  BY <1>1, <1>2 DEF AccessInv, RequestsOwned, InProgress, Bound, Peer
<1>7. QED
  BY <1>3, <1>4, <1>5, <1>6 DEF AccessInv

LEMMA IssueRecoveryHandoffKeeps ==
    ASSUME AccessInv, IssueRecoveryHandoff
    PROVE  AccessInv'
<1>1. CodesRunOut'
  BY DEF AccessInv, CodesRunOut, IssueRecoveryHandoff
<1>2. QED
  BY <1>1, Undisturbed DEF AccessInv, IssueRecoveryHandoff

LEMMA AgentRestartsKeeps ==
    ASSUME AccessInv, AgentRestarts
    PROVE  AccessInv'
<1>1. Shapes'
  BY DEF AccessInv, Shapes, AgentRestarts
<1>2. OwnersInitialize' /\ CodesRunOut' /\ RowsAreKeyed'
  BY Undisturbed DEF AccessInv, AgentRestarts
<1>3. PeersKnown'
  BY DEF AgentRestarts, PeersKnown, NoSession
<1>4. TicketsBound' /\ RequestsOwned'
  BY DEF AgentRestarts, TicketsBound, RequestsOwned, NoTicket, InProgress, NoOp
<1>5. QED
  BY <1>1, <1>2, <1>3, <1>4 DEF AccessInv

(* A connection whose hello is accepted is nobody's yet: no request in progress came
   over one of its name. *)
LEMMA AcceptedKnown ==
    ASSUME AccessInv, NEW s \in Session, NEW p \in Peer, NEW mode, NEW token,
           Accepted(s, p, mode, token)
    PROVE  /\ DOMAIN session' = Session /\ \A t \in Session : DOMAIN session'[t] = DOMAIN NoSession
           /\ session'[s].stage = "peer" /\ session'[s].peer = p /\ session'[s].mode = mode
           /\ session'[s].token = token /\ session'[s].access = "pre-auth"
           /\ \A t \in Session : t # s => session'[t] = session[t]
           /\ \A k \in Run : InProgress(k) => op[k].session # s
  BY DEF AccessInv, Shapes, Accepted, NoSession, Busy

LEMMA AuthenticateGatewayPeerKeeps ==
    ASSUME AccessInv, NEW s \in Session, NEW p \in Peer,
           NEW mode \in {"connect", "login", "resume"}, NEW token,
           AuthenticateGatewayPeer(s, p, mode, token)
    PROVE  AccessInv'
<1>1. UNCHANGED <<passkey, password, owners, codes, handoff, issued, spent, device, op, ticket>>
  BY DEF AuthenticateGatewayPeer, Accepted
<1>2. /\ Accepted(s, p, mode, token)
      /\ (mode = "connect" => Bound(p)) /\ (mode = "resume" => token \in Run)
  BY DEF AuthenticateGatewayPeer, PeerAccepted, Trusted, Known, Bound
<1>3. Shapes'
  BY <1>1, <1>2, AcceptedKnown DEF AccessInv, Shapes
<1>4. OwnersInitialize' /\ CodesRunOut' /\ RowsAreKeyed' /\ TicketsBound'
  BY <1>1, Undisturbed DEF AccessInv
<1>5. PeersKnown'
  BY <1>1, <1>2, AcceptedKnown DEF AccessInv, PeersKnown, Bound
<1>6. RequestsOwned'
  BY <1>1, <1>2, AcceptedKnown DEF AccessInv, RequestsOwned, InProgress, Bound
<1>7. QED
  BY <1>3, <1>4, <1>5, <1>6 DEF AccessInv

(* A device that pairs had no row: nobody was bound to another key under its id. *)
LEMMA ConsumePairingKeeps ==
    ASSUME AccessInv, NEW s \in Session, NEW p \in Peer, ConsumePairing(s, p)
    PROVE  AccessInv'
<1>1. /\ UNCHANGED <<passkey, password, owners, codes, handoff, issued, spent, op, ticket>>
      /\ Accepted(s, p, "pair", None) /\ device[p.id] = NoRow
  BY DEF ConsumePairing, Accepted
<1>2. p.id \in DeviceId /\ p.key \in DevKey
  BY DEF Peer
<1>3. /\ device' \in [DeviceId -> [key : DevKey \cup {None}, revoked : BOOLEAN]]
      /\ device'[p.id].key = p.key
      /\ \A d \in DeviceId : d # p.id => device'[d] = device[d]
  BY <1>2 DEF AccessInv, Shapes, ConsumePairing
<1>4. \A q \in Peer : Bound(q) => Bound(q)'
  BY <1>1, <1>2, <1>3 DEF Bound, Peer, NoRow
<1>5. Bound(p)'
  BY <1>3 DEF Bound
<1>6. Shapes'
  BY <1>1, <1>3, AcceptedKnown DEF AccessInv, Shapes
<1>7. OwnersInitialize' /\ CodesRunOut'
  BY <1>1, Undisturbed DEF AccessInv
<1>8. RowsAreKeyed'
  BY <1>2, <1>3 DEF AccessInv, RowsAreKeyed
<1>9. PeersKnown'
  <2>1. ASSUME NEW t \in Session, t # s
        PROVE  session'[t] = session[t]
    BY <1>1, <2>1, AcceptedKnown
  <2>2. /\ session'[s].stage = "peer" /\ session'[s].access = "pre-auth" /\ session'[s].peer = p
        /\ session'[s].mode = "pair"
    BY <1>1, AcceptedKnown
  <2>3. QED
    BY <1>4, <1>5, <2>1, <2>2 DEF AccessInv, PeersKnown, Bound
<1>10. TicketsBound'
  BY <1>1, <1>4 DEF AccessInv, TicketsBound, Bound
<1>11. RequestsOwned'
  BY <1>1, <1>4, AcceptedKnown DEF AccessInv, RequestsOwned, InProgress, Bound
<1>12. QED
  BY <1>6, <1>7, <1>8, <1>9, <1>10, <1>11 DEF AccessInv

(* A connection that is closed is no longer anybody's. *)
LEMMA ClosedKeeps ==
    ASSUME AccessInv, NEW s \in Session, Closed(s),
           UNCHANGED <<passkey, password, owners, codes, handoff, issued, spent, device, op>>,
           DOMAIN ticket' = Run, \A k \in Run : ticket'[k] \in {ticket[k], NoTicket}
    PROVE  AccessInv'
<1>1. /\ DOMAIN session' = Session /\ session'[s] = NoSession
      /\ \A t \in Session : t # s => session'[t] = session[t]
  BY DEF AccessInv, Shapes, Closed
<1>2. Shapes'
  BY <1>1 DEF AccessInv, Shapes
<1>3. OwnersInitialize' /\ CodesRunOut' /\ RowsAreKeyed'
  BY Undisturbed DEF AccessInv
<1>4. PeersKnown'
  BY <1>1 DEF AccessInv, PeersKnown, NoSession, Bound
<1>5. TicketsBound'
  BY DEF AccessInv, TicketsBound, NoTicket, Bound
<1>6. RequestsOwned'
  BY <1>1 DEF AccessInv, RequestsOwned, InProgress, NoSession, Bound
<1>7. QED
  BY <1>2, <1>3, <1>4, <1>5, <1>6 DEF AccessInv

(* A session is admitted: what it counts as is what its device has shown. *)
LEMMA AdmittedKnown ==
    ASSUME AccessInv, NEW s \in Session, NEW temporary,
           session' = [session EXCEPT ![s] = Admitted(@, temporary)]
    PROVE  /\ DOMAIN session' = Session /\ \A t \in Session : DOMAIN session'[t] = DOMAIN NoSession
           /\ session'[s].stage = "open" /\ session'[s].peer = session[s].peer
           /\ session'[s].temporary = temporary
           /\ \A t \in Session : t # s => session'[t] = session[t]
  BY DEF AccessInv, Shapes, Admitted, NoSession

LEMMA CreateTransportSessionKeeps ==
    ASSUME AccessInv, NEW s \in Session, CreateTransportSession(s)
    PROVE  AccessInv'
<1>0. /\ UNCHANGED <<passkey, password, owners, codes, handoff, issued, spent, device, op, ticket>>
      /\ session[s].stage = "peer"
  BY DEF CreateTransportSession
<1>1. CASE Closed(s)
  BY <1>0, <1>1, ClosedKeeps DEF AccessInv, Shapes
<1>2. CASE \E temporary : /\ session' = [session EXCEPT ![s] = Admitted(@, temporary)]
                          /\ ~temporary => Bound(session[s].peer)
  <2>1. PICK temporary : /\ session' = [session EXCEPT ![s] = Admitted(@, temporary)]
                         /\ ~temporary => Bound(session[s].peer)
    BY <1>2
  <2>2. /\ DOMAIN session' = Session /\ \A t \in Session : DOMAIN session'[t] = DOMAIN NoSession
        /\ session'[s].stage = "open" /\ session'[s].peer = session[s].peer
        /\ session'[s].temporary = temporary
        /\ \A t \in Session : t # s => session'[t] = session[t]
    BY <2>1, AdmittedKnown
  <2>3. Shapes'
    BY <1>0, <2>2 DEF AccessInv, Shapes
  <2>4. OwnersInitialize' /\ CodesRunOut' /\ RowsAreKeyed' /\ TicketsBound'
    BY <1>0, Undisturbed DEF AccessInv
  <2>5. PeersKnown'
    BY <1>0, <2>1, <2>2 DEF AccessInv, PeersKnown, Bound
  <2>6. RequestsOwned'
    BY <1>0, <2>2 DEF AccessInv, RequestsOwned, InProgress, Bound
  <2>7. QED
    BY <2>3, <2>4, <2>5, <2>6 DEF AccessInv
<1>3. CASE session' = [session EXCEPT ![s].stage = "open"]
  <2>1. /\ DOMAIN session' = Session /\ \A t \in Session : DOMAIN session'[t] = DOMAIN NoSession
        /\ session'[s].stage = "open" /\ session'[s].peer = session[s].peer
        /\ session'[s].access = session[s].access
        /\ \A t \in Session : t # s => session'[t] = session[t]
    BY <1>3 DEF AccessInv, Shapes, NoSession
  <2>2. Shapes'
    BY <1>0, <2>1 DEF AccessInv, Shapes
  <2>3. OwnersInitialize' /\ CodesRunOut' /\ RowsAreKeyed' /\ TicketsBound'
    BY <1>0, Undisturbed DEF AccessInv
  <2>4. PeersKnown'
    BY <1>0, <2>1 DEF AccessInv, PeersKnown, Bound
  <2>5. RequestsOwned'
    BY <1>0, <2>1 DEF AccessInv, RequestsOwned, InProgress, Bound
  <2>6. QED
    BY <2>2, <2>3, <2>4, <2>5 DEF AccessInv
<1>4. Closed(s) \/ session' = [session EXCEPT ![s].stage = "open"]
        \/ \E temporary : /\ session' = [session EXCEPT ![s] = Admitted(@, temporary)]
                          /\ ~temporary => Bound(session[s].peer)
  <2>1. CASE session[s].mode \in {"pair", "connect"}
               /\ session' = [session EXCEPT ![s] = Admitted(@, FALSE)]
    BY <1>0, <2>1 DEF AccessInv, PeersKnown
  <2>2. CASE /\ session[s].mode = "resume" /\ TicketAdmits(session[s].token, session[s].peer)
             /\ session' = [session EXCEPT ![s] = Admitted(@, ticket[session[s].token].temporary)]
    BY <1>0, <2>2 DEF AccessInv, PeersKnown, TicketsBound, TicketAdmits
  <2>3. QED
    BY <2>1, <2>2 DEF CreateTransportSession
<1>5. QED
  BY <1>1, <1>2, <1>3, <1>4

-----------------------------------------------------------------------------
(***************************************************************************)
(* The requests                                                            *)
(***************************************************************************)
LEMMA SocketClosesKeeps ==
    ASSUME AccessInv, NEW s \in Session, SocketCloses(s)
    PROVE  AccessInv'
<1>1. DOMAIN ticket = Run
  BY DEF AccessInv, Shapes
<1>2. QED
  BY <1>1, ClosedKeeps DEF SocketCloses

LEMMA RequestRefusedKeeps ==
    ASSUME AccessInv, NEW s \in Session, RequestRefused(s)
    PROVE  AccessInv'
  BY ClosedKeeps DEF RequestRefused

(* A request that starts is its session's, and nobody's ticket yet. *)
LEMMA StartKeeps ==
    ASSUME AccessInv, NEW s \in Session, NEW k \in Run, NEW fields, Start(s, k, fields),
           fields.stage \in {"status", "commit", "done"},
           fields.method = "recover" => fields.code \in Issues \cup {Handoff}
    PROVE  AccessInv'
<1>1. /\ UNCHANGED <<passkey, password, owners, codes, handoff, issued, spent, device, session,
                  ticket>>
      /\ session[s].stage = "open"
  BY DEF Start
<1>2. /\ DOMAIN op' = Run /\ \A j \in Run : j # k => op'[j] = op[j]
      /\ op'[k] = [NoOp EXCEPT !.stage = fields.stage, !.key = fields.key,
                                !.method = fields.method, !.session = s, !.peer = session[s].peer,
                                !.remember = fields.remember, !.free = fields.free,
                                !.code = fields.code]
  BY DEF AccessInv, Shapes, Start
<1>3. /\ DOMAIN op'[k] = DOMAIN NoOp
      /\ op'[k].stage = fields.stage /\ op'[k].session = s /\ op'[k].peer = session[s].peer
      /\ op'[k].method = fields.method /\ op'[k].code = fields.code
  BY <1>2 DEF NoOp
<1>5. Shapes'
  <2>1. ASSUME NEW j \in Run PROVE DOMAIN op'[j] = DOMAIN NoOp
    <3>1. CASE j = k
      BY <1>3, <3>1
    <3>2. CASE j # k
      <4>1. op'[j] = op[j]
        BY <1>2, <3>2
      <4>2. QED
        BY <4>1 DEF AccessInv, Shapes
    <3>3. QED
      BY <3>1, <3>2
  <2>2. QED
    BY <1>1, <1>2, <2>1 DEF AccessInv, Shapes
<1>6. OwnersInitialize' /\ CodesRunOut' /\ RowsAreKeyed' /\ PeersKnown' /\ TicketsBound'
  BY <1>1, Undisturbed DEF AccessInv
<1>8. RequestsOwned'
  <2>1. ASSUME NEW j \in Run, j # k
        PROVE  op'[j] = op[j] /\ (InProgress(j)' <=> InProgress(j))
    BY <1>2, <2>1 DEF InProgress
  <2>2. session[s].peer \in Peer
    BY <1>1 DEF AccessInv, PeersKnown
  <2>3. InProgress(k)' => op'[k].stage \in {"status", "commit"}
    BY <1>3 DEF InProgress
  <2>4. QED
    BY <1>1, <1>3, <2>1, <2>2, <2>3 DEF AccessInv, RequestsOwned, Bound
<1>9. QED
  BY <1>5, <1>6, <1>8 DEF AccessInv

LEMMA FinishesKeeps ==
    ASSUME AccessInv, NEW s \in Session, NEW k \in Run, NEW key \in Key,
           NEW method \in Registrations \cup Logins, NEW remember,
           Finishes(s, k, key, method, remember)
    PROVE  AccessInv'
<1>1. PICK c \in challenge[s] :
        Start(s, k, [stage |-> IF method = "addPasskey" THEN "status" ELSE "commit",
                     key |-> key, method |-> method, remember |-> remember,
                     free |-> c.free, code |-> 0])
  BY DEF Finishes
<1>2. method # "recover"
  BY DEF Registrations, Logins
<1>3. QED
  BY <1>1, <1>2, StartKeeps

LEMMA RecoverKeeps ==
    ASSUME AccessInv, NEW s \in Session, NEW k \in Run, NEW key \in Key,
           NEW code \in Issues \cup {Handoff}, NEW remember, Recover(s, k, key, code, remember)
    PROVE  AccessInv'
  BY StartKeeps DEF Recover

LEMMA RotateRecoveryCodesKeeps ==
    ASSUME AccessInv, NEW s \in Session, NEW k \in Run, NEW key \in Key,
           RotateRecoveryCodes(s, k, key) \/ RefusedAtOnce(s, k, key)
    PROVE  AccessInv'
  BY StartKeeps DEF RotateRecoveryCodes, RefusedAtOnce

(* After the credential a request that remembers the device has still to bind it. *)
LEMMA RequestGoesOn ==
    ASSUME AccessInv, NEW k \in Run, InProgress(k), UNCHANGED <<session, device, ticket>>,
           Step(k, AfterCommit(k))
    PROVE  Shapes' /\ PeersKnown' /\ TicketsBound' /\ RequestsOwned'
<1>1. CASE op[k].remember
  BY <1>1, RequestSteps DEF AfterCommit
<1>2. CASE ~op[k].remember
  BY <1>2, RequestSteps DEF AfterCommit
<1>3. QED
  BY <1>1, <1>2

(* Verifying, failing and logging in leave the tables alone. *)
LEMMA AnswersKeep ==
    ASSUME AccessInv, NEW k \in Run,
           \/ ReadStatus(k) \/ VerificationFails(k) \/ TransactionFails(k)
           \/ CountUnused(k) \/ LogsIn(k)
    PROVE  AccessInv'
<1>1. UNCHANGED <<passkey, password, owners, codes, handoff, issued, spent, device, session, ticket>>
  BY DEF ReadStatus, VerificationFails, TransactionFails, CountUnused, LogsIn
<1>2. CASE ReadStatus(k)
  <2>1. /\ op' = [op EXCEPT ![k] = [@ EXCEPT !.stage = "commit", !.fresh = ~Initialized]]
        /\ InProgress(k)
    BY <1>2 DEF ReadStatus, InProgress
  <2>2. Shapes' /\ PeersKnown' /\ TicketsBound' /\ RequestsOwned'
    BY <1>1, <2>1, RequestSteps
  <2>3. QED
    BY <1>1, <2>2, Undisturbed DEF AccessInv
<1>3. CASE Settled(k)
  BY <1>1, <1>3, RequestSettles, Undisturbed DEF AccessInv
<1>4. CASE Step(k, "rotate") /\ InProgress(k)
  BY <1>1, <1>4, RequestSteps, Undisturbed DEF AccessInv
<1>5. CASE Step(k, AfterCommit(k)) /\ InProgress(k)
  BY <1>1, <1>5, RequestGoesOn, Undisturbed DEF AccessInv
<1>6. QED
  BY <1>2, <1>3, <1>4, <1>5
  DEF VerificationFails, TransactionFails, CountUnused, LogsIn, InProgress

(* A registration without authentication is the first: inside its transaction the
   identity is still not initialized. *)
LEMMA RegistersKeeps ==
    ASSUME AccessInv, NEW k \in Run, Registers(k)
    PROVE  AccessInv'
<1>1. UNCHANGED <<handoff, spent, device, session, ticket>> /\ InProgress(k)
  BY DEF Registers, InProgress
<1>2. CASE ~UninitializedIfRequired(k)
  BY <1>1, <1>2, RequestSettles, Undisturbed DEF AccessInv, Registers
<1>3. CASE UninitializedIfRequired(k)
  <2>1. OwnersInitialize'
    BY <1>3 DEF AccessInv, OwnersInitialize, Registers, UninitializedIfRequired, Initialized
  <2>2. CodesRunOut'
    BY <1>1, <1>3, NextIssueRunsOut, Undisturbed DEF AccessInv, Registers
  <2>3. Step(k, AfterCommit(k)) \/ Step(k, "unused")
    BY <1>3 DEF Registers
  <2>4. Shapes' /\ PeersKnown' /\ TicketsBound' /\ RequestsOwned'
    BY <1>1, <2>3, RequestGoesOn, RequestSteps
  <2>5. QED
    BY <1>1, <2>1, <2>2, <2>4, Undisturbed DEF AccessInv
<1>4. QED
  BY <1>2, <1>3

LEMMA RotatesKeeps ==
    ASSUME AccessInv, NEW k \in Run, Rotates(k)
    PROVE  AccessInv'
<1>1. /\ UNCHANGED <<passkey, password, owners, handoff, spent, device, session, ticket>>
      /\ ReplaceCodes /\ InProgress(k)
  BY DEF Rotates, InProgress
<1>2. CodesRunOut'
  BY <1>1, NextIssueRunsOut DEF AccessInv
<1>3. Settled(k) \/ Step(k, AfterCommit(k))
  BY DEF Rotates
<1>4. Shapes' /\ PeersKnown' /\ TicketsBound' /\ RequestsOwned'
  BY <1>1, <1>3, RequestGoesOn, RequestSettles
<1>5. QED
  BY <1>1, <1>2, <1>4, Undisturbed DEF AccessInv

(* A code is accepted while it is in force, and then it no longer is. *)
LEMMA ConsumeRecoveryAndReplaceKeeps ==
    ASSUME AccessInv, NEW k \in Run, ConsumeRecoveryAndReplace(k)
    PROVE  AccessInv'
<1>1. /\ UNCHANGED <<passkey, password, owners, device, session, ticket>>
      /\ InProgress(k) /\ op[k].code \in Issues \cup {Handoff}
  BY DEF ConsumeRecoveryAndReplace, InProgress, AccessInv, RequestsOwned
<1>2. CASE ~StillValid(op[k].code)
  BY <1>1, <1>2, RequestSettles, Undisturbed DEF AccessInv, ConsumeRecoveryAndReplace
<1>3. CASE StillValid(op[k].code)
  <2>1. /\ ReplaceCodes /\ handoff' = (handoff /\ op[k].code # Handoff)
        /\ spent' = [spent EXCEPT ![op[k].code] = @ + 1]
        /\ Step(k, AfterCommit(k))
    BY <1>3 DEF ConsumeRecoveryAndReplace
  <2>2. Handoff \notin Issues /\ \A c \in Issues : c \in Nat
    BY DEF Handoff, Issues
  <2>3. spent[op[k].code] = 0
    BY <1>1, <1>3, <2>2 DEF AccessInv, CodesRunOut, StillValid, InForce
  <2>4. /\ spent' \in [Issues \cup {Handoff} -> {0, 1}]
        /\ spent'[op[k].code] = 1
        /\ \A c \in Issues \cup {Handoff} : c # op[k].code => spent'[c] = spent[c]
    BY <1>1, <2>1, <2>3 DEF AccessInv, CodesRunOut
  <2>5. /\ issued \in Nat /\ issued' = issued + 1 /\ issued' \in 0 .. MaxIssues
        /\ codes' = {issued'} /\ codes' \subseteq 1 .. issued'
    BY <2>1 DEF AccessInv, CodesRunOut, ReplaceCodes, NextIssue
  <2>6. ASSUME NEW c \in Issues, spent'[c] = 1
        PROVE  c \notin codes' /\ c <= issued'
    <3>1. c <= issued
      <4>1. CASE c = op[k].code
        BY <1>3, <2>2, <4>1 DEF AccessInv, CodesRunOut, StillValid, InForce
      <4>2. CASE c # op[k].code
        BY <2>4, <2>6, <4>2 DEF AccessInv, CodesRunOut
      <4>3. QED
        BY <4>1, <4>2
    <3>2. QED
      BY <2>2, <2>5, <3>1
  <2>7. spent'[Handoff] = 1 => ~handoff'
    BY <2>1, <2>4 DEF AccessInv, CodesRunOut
  <2>8. CodesRunOut'
    BY <2>4, <2>5, <2>6, <2>7 DEF CodesRunOut
  <2>9. Shapes' /\ PeersKnown' /\ TicketsBound' /\ RequestsOwned'
    BY <1>1, <2>1, RequestGoesOn
  <2>10. QED
    BY <1>1, <2>8, <2>9, Undisturbed DEF AccessInv
<1>4. QED
  BY <1>2, <1>3

(* A device that is remembered keeps its key; a row that is new takes the key of the
   session. *)
LEMMA RememberDeviceKeeps ==
    ASSUME AccessInv, NEW k \in Run, RememberDevice(k)
    PROVE  AccessInv'
<1>1. /\ UNCHANGED <<passkey, password, owners, codes, handoff, issued, spent, session, ticket>>
      /\ InProgress(k) /\ op[k].stage = "remember" /\ op[k].peer \in Peer
  BY DEF RememberDevice, InProgress, AccessInv, RequestsOwned
<1>2. CASE ~Bindable(op[k].peer)
  BY <1>1, <1>2, RequestSettles, Undisturbed DEF AccessInv, RememberDevice
<1>3. CASE Bindable(op[k].peer)
  <2>0. PICK p \in Peer : p = op[k].peer
    BY <1>1
  <2>1. p.id \in DeviceId /\ p.key \in DevKey /\ p.key # None
    BY DEF Peer
  <2>2. /\ Step(k, "finish")
        /\ device' = [device EXCEPT ![p.id] =
             [key |-> IF device[p.id] = NoRow THEN p.key ELSE device[p.id].key, revoked |-> FALSE]]
    BY <1>3, <2>0 DEF RememberDevice
  <2>3. (IF device[p.id] = NoRow THEN p.key ELSE device[p.id].key) = p.key
    <3>1. device[p.id] \in [key : DevKey \cup {None}, revoked : BOOLEAN]
      BY <2>1 DEF AccessInv, Shapes
    <3>2. CASE device[p.id].key = None
      <4>1. device[p.id].revoked = FALSE
        BY <2>1, <3>1, <3>2 DEF AccessInv, RowsAreKeyed
      <4>2. device[p.id] = NoRow
        BY <3>1, <3>2, <4>1 DEF NoRow
      <4>3. QED
        BY <4>2
    <3>3. CASE device[p.id].key = p.key
      BY <2>1, <3>3 DEF NoRow
    <3>4. QED
      BY <1>3, <2>0, <3>2, <3>3 DEF Bindable
  <2>4. /\ device' \in [DeviceId -> [key : DevKey \cup {None}, revoked : BOOLEAN]]
        /\ device'[p.id].key = p.key /\ device'[p.id].revoked = FALSE
        /\ \A d \in DeviceId : d # p.id => device'[d] = device[d]
    BY <2>1, <2>2, <2>3 DEF AccessInv, Shapes
  <2>5. ASSUME NEW q \in Peer, Bound(q)
        PROVE  Bound(q)'
    <3>1. q.id \in DeviceId /\ q.key \in DevKey /\ device[q.id].key = q.key
      BY <2>5 DEF Peer, Bound
    <3>2. CASE q.id = p.id
      BY <1>3, <2>0, <2>4, <3>1, <3>2 DEF Bound, Bindable
    <3>3. CASE q.id # p.id
      BY <2>4, <3>1, <3>3 DEF Bound
    <3>4. QED
      BY <3>2, <3>3 DEF Bound
  <2>6. Bound(p)'
    BY <2>4 DEF Bound
  <2>7. /\ DOMAIN op' = Run /\ \A j \in Run : j # k => op'[j] = op[j]
        /\ op'[k] = [op[k] EXCEPT !.stage = "finish"]
        /\ DOMAIN op'[k] = DOMAIN NoOp
    BY <2>2 DEF AccessInv, Shapes, Step
  <2>8. /\ op'[k].session = op[k].session /\ op'[k].peer = op[k].peer
        /\ op'[k].method = op[k].method /\ op'[k].code = op[k].code
    BY <2>7 DEF NoOp
  <2>9. Shapes' /\ OwnersInitialize' /\ CodesRunOut'
    BY <1>1, <2>4, <2>7, Undisturbed DEF AccessInv, Shapes
  <2>10. RowsAreKeyed'
    BY <2>4 DEF AccessInv, RowsAreKeyed
  <2>11. PeersKnown' /\ TicketsBound'
    BY <1>1, <2>5 DEF AccessInv, PeersKnown, TicketsBound, Bound
  <2>12. RequestsOwned'
    <3>1. ASSUME NEW j \in Run, j # k
          PROVE  op'[j] = op[j] /\ (InProgress(j)' <=> InProgress(j))
      BY <2>7, <3>1 DEF InProgress
    <3>2. /\ op[k].method = "recover" => op[k].code \in Issues \cup {Handoff}
          /\ op[k].session \in Session
          /\ session[op[k].session].stage # "none" => session[op[k].session].peer = op[k].peer
      BY <1>1 DEF AccessInv, RequestsOwned
    <3>3. op'[k].stage = "finish" /\ Bound(op[k].peer)'
      BY <2>0, <2>4, <2>7, <2>8 DEF Bound, NoOp
    <3>4. ASSUME NEW j \in Run, j # k, InProgress(j)'
          PROVE  /\ InProgress(j) /\ op'[j] = op[j]
                 /\ (op[j].stage = "finish" /\ op[j].remember) => Bound(op[j].peer)'
      BY <2>5, <3>1, <3>4 DEF AccessInv, RequestsOwned
    <3>5. QED
      BY <1>1, <2>8, <3>2, <3>3, <3>4 DEF AccessInv, RequestsOwned, Bound
  <2>13. QED
    BY <2>9, <2>10, <2>11, <2>12 DEF AccessInv
<1>4. QED
  BY <1>2, <1>3

(* The session that is answered is the one the request came over: its device has been
   bound when it is to be remembered. *)
LEMMA AuthenticatedResultKeeps ==
    ASSUME AccessInv, NEW k \in Run, AuthenticatedResult(k)
    PROVE  AccessInv'
<1>0. PICK s : s = op[k].session
  OBVIOUS
<1>1. /\ UNCHANGED <<passkey, password, owners, codes, handoff, issued, spent, device>>
      /\ InProgress(k) /\ op[k].stage = "finish"
  BY DEF AuthenticatedResult, InProgress
<1>2. CASE session[s].stage # "open"
  BY <1>0, <1>1, <1>2, RequestSettles, Undisturbed DEF AccessInv, AuthenticatedResult
<1>3. CASE session[s].stage = "open"
  <2>1. /\ s \in Session /\ session[s].peer = op[k].peer /\ op[k].peer \in Peer
        /\ op[k].remember => Bound(session[s].peer)
    BY <1>0, <1>1, <1>3 DEF AccessInv, RequestsOwned
  <2>2. /\ session' = [session EXCEPT ![s] = Admitted(@, ~op[k].remember)]
        /\ ticket' = [ticket EXCEPT ![k] = [peer |-> session[s].peer,
                                            temporary |-> ~op[k].remember]]
        /\ Settled(k)
    BY <1>0, <1>3 DEF AuthenticatedResult, Authenticate, IssueTicket
  <2>3. /\ DOMAIN session' = Session /\ \A t \in Session : DOMAIN session'[t] = DOMAIN NoSession
        /\ session'[s].stage = "open" /\ session'[s].peer = session[s].peer
        /\ session'[s].temporary = ~op[k].remember
        /\ \A t \in Session : t # s => session'[t] = session[t]
    BY <2>1, <2>2, AdmittedKnown
  <2>4. /\ DOMAIN ticket' = Run
        /\ ticket'[k].peer = session[s].peer /\ ticket'[k].temporary = ~op[k].remember
        /\ \A j \in Run : j # k => ticket'[j] = ticket[j]
    BY <2>2 DEF AccessInv, Shapes
  <2>5. /\ DOMAIN op' = Run /\ \A j \in Run : DOMAIN op'[j] = DOMAIN NoOp
        /\ \A j \in Run : InProgress(j)' => j # k /\ InProgress(j) /\ op'[j] = op[j]
    BY <2>2, RequestSettles
  <2>6. Shapes'
    BY <1>1, <2>3, <2>4, <2>5 DEF AccessInv, Shapes
  <2>7. OwnersInitialize' /\ CodesRunOut' /\ RowsAreKeyed'
    BY <1>1, Undisturbed DEF AccessInv
  <2>8. PeersKnown'
    <3>1. ASSUME NEW t \in Session, t # s
          PROVE  session'[t] = session[t]
      BY <2>3, <3>1
    <3>2. session'[s].peer \in Peer /\ (~session'[s].temporary => Bound(session[s].peer)')
      BY <1>1, <2>1, <2>3 DEF Bound
    <3>3. QED
      BY <1>1, <2>3, <3>1, <3>2 DEF AccessInv, PeersKnown, Bound
  <2>9. TicketsBound'
    BY <1>1, <2>1, <2>4 DEF AccessInv, TicketsBound, Bound
  <2>10. RequestsOwned'
    BY <1>1, <1>3, <2>3, <2>5 DEF AccessInv, RequestsOwned, Bound
  <2>11. QED
    BY <2>6, <2>7, <2>8, <2>9, <2>10 DEF AccessInv
<1>4. QED
  BY <1>2, <1>3

-----------------------------------------------------------------------------
(***************************************************************************)
(* The theorems                                                            *)
(***************************************************************************)
LEMMA AccessInit == Init => AccessInv
<1>1. ASSUME Init PROVE Shapes /\ RowsAreKeyed
  BY <1>1 DEF Init, Shapes, RowsAreKeyed, NoRow, NoSession, NoOp
<1>2. ASSUME Init PROVE OwnersInitialize /\ CodesRunOut
  BY <1>2 DEF Init, OwnersInitialize, Initialized, CodesRunOut, Issues
<1>3. ASSUME Init PROVE PeersKnown /\ TicketsBound /\ RequestsOwned
  BY <1>3 DEF Init, PeersKnown, NoSession, TicketsBound, NoTicket, RequestsOwned,
              InProgress, NoOp
<1>4. QED
  BY <1>1, <1>2, <1>3 DEF AccessInv

LEMMA AccessNext == AccessInv /\ [Next]_vars => AccessInv'
<1> SUFFICES ASSUME AccessInv, [Next]_vars PROVE AccessInv'
  OBVIOUS
<1>1. CASE UNCHANGED vars
  BY <1>1, QuietKeeps DEF vars
<1>2. CASE IssuePairing \/ AttemptsAge
  BY <1>2, QuietKeeps DEF IssuePairing, AttemptsAge
<1>3. CASE IssueRecoveryHandoff \/ AgentRestarts
  BY <1>3, IssueRecoveryHandoffKeeps, AgentRestartsKeeps
<1>4. ASSUME NEW d \in DeviceId, RevokeDevice(d) PROVE AccessInv'
  BY <1>4, RevokeDeviceKeeps
<1>5. ASSUME NEW s \in Session, NEW p \in Peer,
             \/ ConsumePairing(s, p)
             \/ \E mode \in {"connect", "login", "resume"}, token \in Run \cup {None} :
                  AuthenticateGatewayPeer(s, p, mode, token)
      PROVE  AccessInv'
  BY <1>5, ConsumePairingKeeps, AuthenticateGatewayPeerKeeps
<1>6. ASSUME NEW s \in Session,
             CreateTransportSession(s) \/ SocketCloses(s) \/ RequestRefused(s)
      PROVE  AccessInv'
  BY <1>6, CreateTransportSessionKeeps, SocketClosesKeeps, RequestRefusedKeeps
<1>7. ASSUME NEW s \in Session,
             \/ RegistrationOptions(s) \/ PasswordRegistrationStart(s)
             \/ LoginOptions(s) \/ PasswordLoginStart(s)
      PROVE  AccessInv'
  BY <1>7, QuietKeeps DEF RegistrationOptions, PasswordRegistrationStart, StartRegistration,
                          LoginOptions, PasswordLoginStart
<1>8. ASSUME NEW s \in Session, NEW k \in Run, NEW key \in Key, NEW r \in BOOLEAN,
             \/ VerifyRegistration(s, k, key, r) \/ VerifyLogin(s, k, key, r)
             \/ PasswordRegistrationFinish(s, k, key, r) \/ PasswordLoginFinish(s, k, key, r)
      PROVE  AccessInv'
  BY <1>8, FinishesKeeps DEF VerifyRegistration, VerifyLogin, PasswordRegistrationFinish,
                             PasswordLoginFinish, Registrations, Logins
<1>9. ASSUME NEW s \in Session, NEW k \in Run, NEW key \in Key,
             \/ \E c \in Issues \cup {Handoff}, r \in BOOLEAN : Recover(s, k, key, c, r)
             \/ RotateRecoveryCodes(s, k, key) \/ RefusedAtOnce(s, k, key)
      PROVE  AccessInv'
  BY <1>9, RecoverKeeps, RotateRecoveryCodesKeeps
<1>10. ASSUME NEW k \in Run, Expires(k) \/ \E s \in Session : Replay(s, k) PROVE AccessInv'
  BY <1>10, QuietKeeps DEF Replay, Expires
<1>11. ASSUME NEW k \in Run,
              \/ ReadStatus(k) \/ VerificationFails(k) \/ TransactionFails(k)
              \/ CountUnused(k) \/ LogsIn(k)
       PROVE  AccessInv'
  BY <1>11, AnswersKeep
<1>12. ASSUME NEW k \in Run,
              \/ Registers(k) \/ Rotates(k) \/ ConsumeRecoveryAndReplace(k)
              \/ RememberDevice(k) \/ AuthenticatedResult(k)
       PROVE  AccessInv'
  BY <1>12, RegistersKeeps, RotatesKeeps, ConsumeRecoveryAndReplaceKeeps,
     RememberDeviceKeeps, AuthenticatedResultKeeps
<1>13. QED
  BY <1>1, <1>2, <1>3, <1>4, <1>5, <1>6, <1>7, <1>8, <1>9, <1>10, <1>11, <1>12
  DEF Next, Requests

(* The inductive invariant: rows keep the key they were first given, sessions, tickets
   and requests that count as remembered are bound to one, and a code that has been
   accepted is no longer in force. *)
THEOREM AccessInvariant == Spec => []AccessInv
<1>1. QED
  BY AccessInit, AccessNext, PTL DEF Spec

(* However registrations, logins, recoveries, lost connections and restarts interleave,
   an Agent has one first owner, a recovery code or handoff lets one request in, and a
   session that counts as remembered has the row of its device under its own key. *)
THEOREM AccountsAreKept == Spec => []AccountsKept
<1>1. AccessInv => AccountsKept
  BY DEF AccessInv, OwnersInitialize, CodesRunOut, PeersKnown, Bound, AccountsKept, OneOwner,
         CodesAcceptedOnce, RememberedIsBound
<1>2. QED
  BY <1>1, AccessInvariant, PTL
=============================================================================

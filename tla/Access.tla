------------------------------- MODULE Access -------------------------------
(***************************************************************************)
(* How a browser becomes a user of the agent: the handshake of a gateway   *)
(* connection (gateway-socket-connection, gateway-peer-authentication,     *)
(* createTransportSession), the authentication requests of IdentityService *)
(* over the tables of IdentityRepository, the page tickets of              *)
(* SessionTicketService, and the replay window in which the mutation       *)
(* middleware keeps the answers of these requests.                         *)
(*                                                                         *)
(* A transaction of the state file is one step (StateFile and StateLock    *)
(* are about its parts); everything between two awaits is one step too.    *)
(* A challenge, a ticket or a grant that expires is one that nobody uses   *)
(* any more, so their timers need no steps, and one of the replay window   *)
(* may be dropped at any time after it has its answer.  The execution of a *)
(* request has a name of its own: the window may drop it while it goes on, *)
(* and the same request, sent again, is then executed a second time beside *)
(* it, under the same operation key.  Cryptographic verification           *)
(* succeeds or fails; the recovery codes of one issue are one value, since *)
(* consuming any of them ends them all.                                    *)
(***************************************************************************)
EXTENDS Naturals, Sequences, FiniteSets, SequencesExt

CONSTANTS Session,        \* gateway connections
          DeviceId, DevKey, \* what a browser presents: an id and a Noise key
          Key,            \* operation keys of the requests
          None,
          EphemeralLimit, \* entries of the replay window
          AttemptLimit,   \* attempts the rate limiter admits in its window
          MaxChallenges,  \* bound on the challenges a session holds at a time
          MaxIssues,      \* bound on issues of recovery codes
          MaxConnections, \* bound on connections
          MaxRuns,        \* bound on executions of requests
          Scenes,         \* bounds: [methods, runs, commands, refusals], one of which a
                          \* behaviour keeps: the requests in use, how many are executed,
                          \* how many commands of the owner and crashes there are, and
                          \* whether requests are refused at once
          IOFaults        \* a transaction may fail

Peer == [id : DeviceId, key : DevKey]
Registrations == {"addPasskey", "savePassword"}
Logins == {"passkeyLogin", "passwordLogin"}
AllMethods == Registrations \cup Logins \cup {"recover", "rotate"}

AccessAssumption ==
    /\ EphemeralLimit \in Nat \ {0} /\ AttemptLimit \in Nat \ {0}
    /\ MaxChallenges \in Nat /\ MaxIssues \in Nat \ {0} /\ MaxConnections \in Nat /\ MaxRuns \in Nat
    /\ IOFaults \in BOOLEAN
    /\ \A c \in Scenes : c.methods \subseteq AllMethods /\ c.runs \in Nat /\ c.commands \in Nat
                      /\ c.refusals \in BOOLEAN
    /\ None \notin DevKey \cup Session \cup Key \cup (1 .. MaxRuns)

Run == 1 .. MaxRuns         \* executions, in the order of their start
Issues == 1 .. MaxIssues    \* recovery codes, named by the order of their issue
Handoff == MaxIssues + 1    \* the one-time code that an administrator hands over

ASSUME AccessAssumption

VARIABLES
    scene,                  \* the bounds of this behaviour
    passkey, password,      \* the identity has one
    codes,                  \* the issues that are in force
    handoff,                \* a handoff waits to be used
    device,                 \* the row of each device id: its key, None without a row
    pairing,                \* a pairing grant waits
    session,                \* connections and their gateway sessions
    challenge,              \* challenges each session holds
    op,                     \* executions: the operation key and the request of each
    window,                 \* executions of the replay window, the oldest first
    ticket,                 \* page ticket that an execution issued
    attempts,               \* recent attempts at passwords and recovery codes
    issued, runs, connections, commands,  \* counters of the bounds
    owners,                 \* history: registrations without authentication
    spent                   \* history: how often each recovery code was accepted

rows == <<passkey, password, codes, handoff, device, pairing>>
kept == <<challenge, ticket, attempts>>
memory == <<kept, window>>
bounds == <<issued, runs, connections, commands>>
history == <<owners, spent>>
vars == <<scene, rows, session, op, memory, bounds, history>>

NoRow == [key |-> None, revoked |-> FALSE]
NoTicket == [peer |-> None, temporary |-> TRUE]
NoSession == [stage |-> "none", peer |-> None, mode |-> "none", token |-> None,
              access |-> "pre-auth", temporary |-> TRUE]
NoOp == [stage |-> "none", key |-> None, method |-> "none", session |-> None, peer |-> None,
         remember |-> FALSE, free |-> FALSE,
         code |-> 0, fresh |-> FALSE]

(* A new host, or one whose owner has registered a Passkey before. *)
Init ==
    /\ scene \in Scenes
    /\ passkey \in BOOLEAN /\ password = FALSE /\ handoff = FALSE
    /\ issued = (IF passkey THEN 1 ELSE 0) /\ codes = 1 .. issued
    /\ device = [d \in DeviceId |-> NoRow] /\ pairing = FALSE
    /\ session = [s \in Session |-> NoSession]
    /\ challenge = [s \in Session |-> {}]
    /\ op = [k \in Run |-> NoOp]
    /\ window = <<>> /\ ticket = [k \in Run |-> NoTicket] /\ attempts = 0
    /\ runs = 0 /\ connections = 0 /\ commands = 0
    /\ owners = issued /\ spent = [c \in Issues \cup {Handoff} |-> 0]

-----------------------------------------------------------------------------
(***************************************************************************)
(* The tables                                                              *)
(***************************************************************************)
Initialized == passkey \/ password

(* matchDevice: a row of this id with another key is an error. *)
Mismatch(p) == device[p.id].key \notin {None, p.key}
Known(p) == device[p.id].key = p.key
RevokedRow(p) == Known(p) /\ device[p.id].revoked

(* verifyDevice *)
Trusted(p) == Known(p) /\ ~device[p.id].revoked

(* issuePairing, revokeDevice and issueRecoveryHandoff, at the owner's command. *)
IssuePairing ==
    /\ commands < scene.commands /\ commands' = commands + 1
    /\ pairing' = TRUE
    /\ UNCHANGED <<passkey, password, codes, handoff, device, session, op, memory,
                   issued, runs, connections, history>>

RevokeDevice(d) ==
    /\ commands < scene.commands /\ commands' = commands + 1
    /\ device[d].key # None /\ ~device[d].revoked
    /\ device' = [device EXCEPT ![d].revoked = TRUE]
    /\ UNCHANGED <<passkey, password, codes, handoff, pairing, session, op, memory,
                   issued, runs, connections, history>>

IssueRecoveryHandoff ==
    /\ commands < scene.commands /\ commands' = commands + 1
    /\ spent[Handoff] = 0 /\ handoff' = TRUE
    /\ UNCHANGED <<passkey, password, codes, device, pairing, session, op, memory,
                   issued, runs, connections, history>>

-----------------------------------------------------------------------------
(***************************************************************************)
(* Connections                                                             *)
(***************************************************************************)
InProgress(k) == op[k].stage \notin {"none", "done"}

(* The mutation queue of a connection: one request at a time. *)
Busy(s) == \E k \in Run : InProgress(k) /\ op[k].session = s

(* run: the hello of a browser.  Nothing happens before its device has been looked up,
   and a connection that is refused leaves nothing behind.  The name of a connection
   is used again when nothing refers to it. *)
Accepted(s, p, mode, token) ==
    /\ session[s].stage = "none" /\ ~Busy(s) /\ connections < MaxConnections
    /\ connections' = connections + 1
    /\ session' = [session EXCEPT ![s] = [NoSession EXCEPT !.stage = "peer",
                                          !.peer = p, !.mode = mode, !.token = token]]
    /\ UNCHANGED <<passkey, password, codes, handoff, op, memory, issued, runs, commands,
                   history>>

(* authenticateGatewayPeer with consumePairing, in one transaction: an unknown device
   and a grant in time.  A failure leaves the grant as it was, even an expired one,
   whose DELETE is rolled back. *)
ConsumePairing(s, p) ==
    /\ pairing /\ device[p.id] = NoRow
    /\ device' = [device EXCEPT ![p.id].key = p.key]
    /\ pairing' = FALSE
    /\ Accepted(s, p, "pair", None)

(* authenticateGatewayPeer in the other modes: connect wants a trusted device, resume
   a device that is not revoked, login no other key under the same id. *)
PeerAccepted(p, mode) ==
    CASE mode = "connect" -> Trusted(p)
      [] mode = "resume" -> ~RevokedRow(p)
      [] mode = "login" -> ~Mismatch(p)

AuthenticateGatewayPeer(s, p, mode, token) ==
    /\ PeerAccepted(p, mode)
    /\ IF mode = "resume" THEN token \in Run /\ ticket[token] # NoTicket
       ELSE token = None
    /\ Accepted(s, p, mode, token)
    /\ UNCHANGED <<device, pairing>>

(* The connection is given up: REAUTH_REQUIRED, an error, or the end of the socket.
   Its scope closes the gateway session; the challenges of a closed session can
   never be taken again. *)
Closed(s) ==
    /\ session' = [session EXCEPT ![s] = NoSession]
    /\ challenge' = [challenge EXCEPT ![s] = {}]

(* tickets.verify: a ticket of this very device. *)
TicketAdmits(k, p) == ticket[k].peer = p

Admitted(c, temporary) ==
    [c EXCEPT !.stage = "open", !.access = "user", !.temporary = temporary]

(* createTransportSession *)
CreateTransportSession(s) ==
    LET c == session[s] IN
    /\ c.stage = "peer"
    /\ \/ /\ c.mode \in {"pair", "connect"}
          /\ session' = [session EXCEPT ![s] = Admitted(@, FALSE)]
          /\ UNCHANGED challenge
       \/ /\ c.mode = "login"
          /\ session' = [session EXCEPT ![s].stage = "open"]
          /\ UNCHANGED challenge
       \/ /\ c.mode = "resume" /\ TicketAdmits(c.token, c.peer)
          /\ session' = [session EXCEPT ![s] = Admitted(@, ticket[c.token].temporary)]
          /\ UNCHANGED challenge
       \/ /\ c.mode = "resume" /\ ~TicketAdmits(c.token, c.peer)
          /\ Closed(s)
    /\ UNCHANGED <<rows, op, window, ticket, attempts, bounds, history>>

(* The socket closes or misses its heartbeats. *)
SocketCloses(s) ==
    /\ session[s].stage # "none" /\ Closed(s)
    /\ UNCHANGED <<rows, op, window, ticket, attempts, bounds, history>>

(* assertCurrent: a remembered session is as good as the row of its device. *)
Current(s) ==
    session[s].access = "user" /\ ~session[s].temporary => Trusted(session[s].peer)

(* A request of a session that is not current: the tickets of the device are revoked
   and the connection is closed. *)
RequestRefused(s) ==
    /\ session[s].stage = "open" /\ ~Current(s)
    /\ ticket' = [k \in Run |->
                    IF ticket[k].peer # None /\ ticket[k].peer.id = session[s].peer.id
                    THEN NoTicket ELSE ticket[k]]
    /\ Closed(s)
    /\ UNCHANGED <<rows, op, window, attempts, bounds, history>>

-----------------------------------------------------------------------------
(***************************************************************************)
(* Challenges                                                              *)
(***************************************************************************)
(* #rememberChallenge: of this kind, taken over in the session only; free when the
   identity was not yet initialized. *)
Remember(s, method, free) ==
    /\ Cardinality(challenge[s]) < MaxChallenges
    /\ challenge' = [challenge EXCEPT ![s] = @ \cup {[method |-> method, free |-> free]}]

(* A challenge for a registration: without authentication only for a new host. *)
StartRegistration(s, method) ==
    /\ session[s].stage = "open" /\ Current(s) /\ method \in scene.methods
    /\ Initialized => session[s].access = "user"
    /\ Remember(s, method, ~Initialized)
    /\ UNCHANGED <<rows, session, op, window, ticket, attempts, bounds, history>>

RegistrationOptions(s) == StartRegistration(s, "addPasskey")
PasswordRegistrationStart(s) == StartRegistration(s, "savePassword")

LoginOptions(s) ==
    /\ session[s].stage = "open" /\ Current(s) /\ "passkeyLogin" \in scene.methods
    /\ passkey /\ Remember(s, "passkeyLogin", FALSE)
    /\ UNCHANGED <<rows, session, op, window, ticket, attempts, bounds, history>>

PasswordLoginStart(s) ==
    /\ session[s].stage = "open" /\ Current(s) /\ "passwordLogin" \in scene.methods
    /\ attempts < AttemptLimit /\ attempts' = attempts + 1
    /\ password /\ Remember(s, "passwordLogin", FALSE)
    /\ UNCHANGED <<rows, session, op, window, ticket, bounds, history>>

(* consume drops the attempts that are older than the window. *)
AttemptsAge ==
    /\ attempts > 0 /\ attempts' = attempts - 1
    /\ UNCHANGED <<rows, session, op, challenge, window, ticket, bounds, history>>

-----------------------------------------------------------------------------
(***************************************************************************)
(* Requests                                                                *)
(***************************************************************************)
(* #takeChallenge: one of the session's own, and of this kind; one that was issued
   for an initialized identity wants an authenticated session. *)
Takes(s, method, c) ==
    /\ c \in challenge[s] /\ c.method = method
    /\ method \in Registrations /\ ~c.free => session[s].access = "user"

(* #runEphemeral: a key that is not in the window enters it with a new execution, for
   the oldest entry, done or not. *)
Entered(k) ==
    Append(IF Len(window) < EphemeralLimit THEN window ELSE Tail(window), k)
Touched(k) == Append(SelectSeq(window, LAMBDA e : e # k), k)

Start(s, k, fields) ==
    /\ session[s].stage = "open" /\ Current(s) /\ ~Busy(s)
    /\ fields.key \notin {op[e].key : e \in ToSet(window)}
    /\ window' = Entered(k)
    /\ op' = [op EXCEPT ![k] = [NoOp EXCEPT !.stage = fields.stage, !.key = fields.key,
                                  !.method = fields.method, !.session = s,
                                  !.peer = session[s].peer,
                                  !.remember = fields.remember, !.free = fields.free,
                                  !.code = fields.code]]
    /\ runs < scene.runs /\ runs' = k /\ k = runs + 1
    /\ UNCHANGED <<rows, session, ticket, issued, connections, commands, history>>

(* The requests that answer a challenge *)
Finishes(s, k, key, method, remember) ==
    \E c \in challenge[s] :
      /\ Takes(s, method, c)
      /\ challenge' = [challenge EXCEPT ![s] = @ \ {c}]
      /\ Start(s, k, [stage |-> IF method = "addPasskey" THEN "status" ELSE "commit",
                      key |-> key, method |-> method, remember |-> remember,
                      free |-> c.free, code |-> 0])
      /\ UNCHANGED attempts

VerifyRegistration(s, k, key, remember) == Finishes(s, k, key, "addPasskey", remember)
VerifyLogin(s, k, key, remember) == Finishes(s, k, key, "passkeyLogin", remember)
PasswordRegistrationFinish(s, k, key, remember) == Finishes(s, k, key, "savePassword", remember)
PasswordLoginFinish(s, k, key, remember) == Finishes(s, k, key, "passwordLogin", remember)

(* recoveryHashes: the codes that have not been used *)
InForce(code) == IF code = Handoff THEN handoff ELSE code \in codes

(* #recover: the code must be in force when the hashes are read. *)
Recover(s, k, key, code, remember) ==
    /\ "recover" \in scene.methods /\ InForce(code)
    /\ attempts < AttemptLimit /\ attempts' = attempts + 1
    /\ Start(s, k, [stage |-> "commit", key |-> key, method |-> "recover",
                    remember |-> remember, free |-> FALSE, code |-> code])
    /\ UNCHANGED challenge

(* auth/recovery/rotate *)
RotateRecoveryCodes(s, k, key) ==
    /\ "rotate" \in scene.methods /\ session[s].access = "user"
    /\ Start(s, k, [stage |-> "commit", key |-> key, method |-> "rotate",
                    remember |-> FALSE, free |-> FALSE, code |-> 0])
    /\ UNCHANGED <<challenge, attempts>>

(* A request that its handler refuses at once, its challenge gone, its code not in
   force or one attempt too many: the refusal takes its place in the window too. *)
RefusedAtOnce(s, k, key) ==
    /\ scene.refusals
    /\ Start(s, k, [stage |-> "done", key |-> key, method |-> "none", remember |-> FALSE,
                    free |-> FALSE, code |-> 0])
    /\ attempts' \in {attempts, attempts + 1} \cap (0 .. AttemptLimit)
    /\ UNCHANGED challenge

(* The same request again, from any connection, while the window has its execution: it
   gets, or waits for, the answer of that. *)
Replay(s, k) ==
    /\ session[s].stage = "open" /\ Current(s) /\ ~Busy(s)
    /\ k \in ToSet(window) /\ window' = Touched(k)
    /\ UNCHANGED <<rows, session, op, kept, bounds, history>>

(* An answer that is older than five minutes leaves the window. *)
Expires(k) ==
    /\ k \in ToSet(window) /\ op[k].stage = "done"
    /\ window' = SelectSeq(window, LAMBDA e : e # k)
    /\ UNCHANGED <<rows, session, op, kept, bounds, history>>

(* The execution k goes on, or it is over: the window keeps its answer, as the latest,
   if it still has the execution. *)
Step(k, stage) == op' = [op EXCEPT ![k].stage = stage] /\ UNCHANGED window
Settled(k) ==
    /\ op' = [op EXCEPT ![k] = [NoOp EXCEPT !.stage = "done", !.key = op[k].key]]
    /\ window' = IF k \in ToSet(window) THEN Touched(k) ELSE window

(* After the credential come the device, if asked for, and the answer. *)
AfterCommit(k) == IF op[k].remember THEN "remember" ELSE "finish"

(* The registration of a Passkey reads the status before its transaction: without a
   credential it brings recovery codes. *)
ReadStatus(k) ==
    /\ op[k].stage = "status"
    /\ op' = [op EXCEPT ![k] = [@ EXCEPT !.stage = "commit", !.fresh = ~Initialized]]
    /\ UNCHANGED <<rows, session, memory, bounds, history>>

(* Verification of the response fails. *)
VerificationFails(k) ==
    /\ op[k].stage \in {"status", "commit"}
    /\ op[k].method \in Logins \cup {"addPasskey"}
    /\ Settled(k)
    /\ UNCHANGED <<rows, session, kept, bounds, history>>

(* A transaction fails; the file is as it was. *)
TransactionFails(k) ==
    /\ IOFaults /\ op[k].stage \in {"commit", "rotate", "remember"}
    /\ Settled(k)
    /\ UNCHANGED <<rows, session, kept, bounds, history>>

(* Recovery codes of the next issue: addPasskey inserts them beside those in force, the
   other transactions delete these first. *)
NextIssue == issued < MaxIssues /\ issued' = issued + 1
AddCodes == NextIssue /\ codes' = codes \cup {issued'}
ReplaceCodes == NextIssue /\ codes' = {issued'}

(* Mutant: the transaction trusts what the handler has read. *)
UncheckedUninitialized(k) == TRUE

(* requireUninitialized, inside the transaction *)
UninitializedIfRequired(k) == op[k].free => ~Initialized

(* addPasskey and savePassword *)
Registers(k) ==
    /\ op[k].stage = "commit" /\ op[k].method \in Registrations
    /\ UNCHANGED <<handoff, device, pairing, session, kept, runs, connections,
                   commands, spent>>
    /\ IF ~UninitializedIfRequired(k)
       THEN Settled(k) /\ UNCHANGED <<passkey, password, codes, issued, owners>>
       ELSE /\ owners' = IF op[k].free THEN owners + 1 ELSE owners
            /\ IF op[k].method = "addPasskey"
               THEN /\ passkey' = TRUE /\ UNCHANGED password
                    /\ IF op[k].fresh
                       THEN AddCodes ELSE UNCHANGED <<codes, issued>>
                    /\ Step(k, AfterCommit(k))
               ELSE /\ password' = TRUE /\ UNCHANGED <<passkey, codes, issued>>
                    /\ Step(k, "unused")

(* The password registration then counts the unused codes, and rotates them in
   another transaction when there are none. *)
CountUnused(k) ==
    /\ op[k].stage = "unused"
    /\ Step(k, IF codes = {} THEN "rotate" ELSE AfterCommit(k))
    /\ UNCHANGED <<rows, session, kept, bounds, history>>

(* replaceRecoveryCodes *)
Rotates(k) ==
    /\ \/ op[k].stage = "rotate"
       \/ op[k].stage = "commit" /\ op[k].method = "rotate"
    /\ ReplaceCodes
    /\ IF op[k].method = "rotate" THEN Settled(k) ELSE Step(k, AfterCommit(k))
    /\ UNCHANGED <<passkey, password, handoff, device, pairing, session, kept,
                   runs, connections, commands, history>>

(* The UPDATE of consumeRecoveryAndReplace finds the code unused. *)
StillValid(code) == InForce(code)

ConsumeRecoveryAndReplace(k) ==
    /\ op[k].stage = "commit" /\ op[k].method = "recover"
    /\ IF StillValid(op[k].code)
       THEN /\ ReplaceCodes
            /\ handoff' = (handoff /\ op[k].code # Handoff)
            /\ spent' = [spent EXCEPT ![op[k].code] = @ + 1]
            /\ Step(k, AfterCommit(k))
       ELSE Settled(k) /\ UNCHANGED <<codes, handoff, issued, spent>>
    /\ UNCHANGED <<passkey, password, device, pairing, session, kept, runs,
                   connections, commands, owners>>

(* updatePasskeyCounter, or the end of the OPAQUE login *)
LogsIn(k) ==
    /\ op[k].stage = "commit" /\ op[k].method \in Logins
    /\ Step(k, AfterCommit(k))
    /\ UNCHANGED <<rows, session, kept, bounds, history>>

(* rememberDevice refuses a row with another key. *)
Bindable(p) == device[p.id].key \in {None, p.key}

(* #rememberDeviceIfRequested; a revoked device is trusted again. *)
RememberDevice(k) ==
    /\ op[k].stage = "remember"
    /\ IF Bindable(op[k].peer)
       THEN /\ Step(k, "finish")
            /\ device' = [device EXCEPT
                 ![op[k].peer.id] = [key |-> IF @ = NoRow THEN op[k].peer.key ELSE @.key,
                                    revoked |-> FALSE]]
       ELSE Settled(k) /\ UNCHANGED device
    /\ UNCHANGED <<passkey, password, codes, handoff, pairing, session, kept, bounds,
                   history>>

(* session.authenticate *)
Authenticate(s, remember) ==
    session' = [session EXCEPT ![s] = Admitted(@, ~remember)]

(* tickets.issue: a page ticket for the device of the session *)
IssueTicket(k, s, remember) ==
    ticket' = [ticket EXCEPT ![k] = [peer |-> session[s].peer, temporary |-> ~remember]]

(* #authenticatedResult: the session becomes the user's, unless it has been closed,
   and gets a page ticket. *)
AuthenticatedResult(k) ==
    LET s == op[k].session IN
    /\ op[k].stage = "finish"
    /\ IF session[s].stage = "open"
       THEN /\ Authenticate(s, op[k].remember) /\ IssueTicket(k, s, op[k].remember)
            /\ Settled(k)
       ELSE Settled(k) /\ UNCHANGED <<session, ticket>>
    /\ UNCHANGED <<rows, challenge, attempts, bounds, history>>

(* The agent stops or is killed: only the tables survive. *)
AgentRestarts ==
    /\ commands < scene.commands /\ commands' = commands + 1
    /\ session' = [s \in Session |-> NoSession]
    /\ challenge' = [s \in Session |-> {}]
    /\ op' = [k \in Run |-> NoOp]
    /\ window' = <<>> /\ ticket' = [k \in Run |-> NoTicket] /\ attempts' = 0
    /\ UNCHANGED <<rows, issued, runs, connections, history>>
-----------------------------------------------------------------------------
Requests ==
    \/ IssuePairing \/ IssueRecoveryHandoff \/ AttemptsAge
    \/ AgentRestarts
    \/ \E d \in DeviceId : RevokeDevice(d)
    \/ \E s \in Session :
         \/ \E p \in Peer :
              \/ ConsumePairing(s, p)
              \/ \E mode \in {"connect", "login", "resume"}, token \in Run \cup {None} :
                   AuthenticateGatewayPeer(s, p, mode, token)
         \/ CreateTransportSession(s) \/ SocketCloses(s) \/ RequestRefused(s)
         \/ RegistrationOptions(s) \/ PasswordRegistrationStart(s)
         \/ LoginOptions(s) \/ PasswordLoginStart(s)
         \/ \E k \in Run, key \in Key :
              \/ \E r \in BOOLEAN :
                   \/ VerifyRegistration(s, k, key, r) \/ VerifyLogin(s, k, key, r)
                   \/ PasswordRegistrationFinish(s, k, key, r)
                   \/ PasswordLoginFinish(s, k, key, r)
              \/ \E c \in Issues \cup {Handoff}, r \in BOOLEAN : Recover(s, k, key, c, r)
              \/ RotateRecoveryCodes(s, k, key) \/ RefusedAtOnce(s, k, key)
         \/ \E k \in Run : Replay(s, k)
    \/ \E k \in Run :
         \/ Expires(k)
         \/ ReadStatus(k) \/ VerificationFails(k) \/ TransactionFails(k)
         \/ Registers(k) \/ CountUnused(k) \/ Rotates(k)
         \/ ConsumeRecoveryAndReplace(k) \/ LogsIn(k) \/ RememberDevice(k)
         \/ AuthenticatedResult(k)

Next == Requests /\ UNCHANGED scene

Spec == Init /\ [][Next]_vars

-----------------------------------------------------------------------------
(***************************************************************************)
(* Properties                                                              *)
(***************************************************************************)
(* Type correctness of the tables, of the connections and of the requests. *)
TypeOK ==
    /\ passkey \in BOOLEAN /\ password \in BOOLEAN /\ handoff \in BOOLEAN
    /\ codes \subseteq Issues /\ issued \in 0 .. MaxIssues
    /\ device \in [DeviceId -> [key : DevKey \cup {None}, revoked : BOOLEAN]]
    /\ pairing \in BOOLEAN
    /\ \A s \in Session :
         /\ session[s].stage \in {"none", "peer", "open"}
         /\ session[s].peer \in Peer \cup {None}
         /\ session[s].access \in {"pre-auth", "user"}
         /\ session[s].temporary \in BOOLEAN
         /\ challenge[s] \subseteq [method : scene.methods, free : BOOLEAN]
    /\ \A k \in Run : op[k].stage \in {"none", "status", "commit", "unused", "rotate",
                                        "remember", "finish", "done"}
    /\ window \in Seq(Run) /\ Len(window) <= EphemeralLimit
    /\ attempts \in 0 .. AttemptLimit

(* Of the browsers that register the first credential at the same time, each with a
   challenge from before there was one, a single one becomes the owner: addPasskey
   and savePassword look again inside their transaction. *)
OneOwner == owners <= 1

(* No recovery code, and no handoff, lets two requests in, however their reads of the
   hashes and their transactions are interleaved. *)
CodesAcceptedOnce == \A c \in DOMAIN spent : spent[c] <= 1

(* A session that counts as remembered, whichever way it became so (pairing, connect,
   a login that asked for it, a resumed ticket), has the row of its device under its
   own key: assertCurrent can find it revoked. *)
RememberedIsBound ==
    \A s \in Session :
      session[s].stage = "open" /\ session[s].access = "user" /\ ~session[s].temporary
        => device[session[s].peer.id].key = session[s].peer.key

(* IdentityRepository: no two requests both become the first owner of an Agent, and a
   recovery code is accepted once and a remembered device stays bound to its key, with
   failing transactions, replays, lost connections and a restart. *)
AccountsKept == OneOwner /\ CodesAcceptedOnce /\ RememberedIsBound

-----------------------------------------------------------------------------
(***************************************************************************)
(* The inductive invariant behind AccountsKept                             *)
(***************************************************************************)
(* A device id keeps the key it was first seen with, and only a row is revoked. *)
Bound(p) == device[p.id].key = p.key

Shapes ==
    /\ device \in [DeviceId -> [key : DevKey \cup {None}, revoked : BOOLEAN]]
    /\ DOMAIN session = Session /\ DOMAIN op = Run /\ DOMAIN ticket = Run
    /\ \A s \in Session : DOMAIN session[s] = DOMAIN NoSession
    /\ \A k \in Run : DOMAIN op[k] = DOMAIN NoOp

OwnersInitialize == owners \in {0, 1} /\ (owners = 1 => Initialized)

(* A code that has been accepted is of an issue that is over, and no later one has its
   name. *)
CodesRunOut ==
    /\ issued \in 0 .. MaxIssues /\ codes \subseteq 1 .. issued
    /\ spent \in [Issues \cup {Handoff} -> {0, 1}]
    /\ \A c \in Issues : spent[c] = 1 => c \notin codes /\ c <= issued
    /\ spent[Handoff] = 1 => ~handoff

RowsAreKeyed == \A d \in DeviceId : device[d].key = None => ~device[d].revoked

(* What a connection is, and what it has to find in the table of the devices. *)
PeersKnown ==
    \A s \in Session :
      /\ session[s].stage \in {"none", "peer", "open"}
      /\ session[s].stage # "none" => session[s].peer \in Peer
      /\ (session[s].stage = "peer" /\ session[s].mode \in {"pair", "connect"})
           => Bound(session[s].peer)
      /\ session[s].stage = "peer" => session[s].access = "pre-auth"
      /\ (session[s].stage = "peer" /\ session[s].mode = "resume") => session[s].token \in Run
      /\ (session[s].stage = "open" /\ session[s].access = "user" /\ ~session[s].temporary)
           => Bound(session[s].peer)

TicketsBound ==
    \A k \in Run : ~ticket[k].temporary => ticket[k].peer \in Peer /\ Bound(ticket[k].peer)

(* A request is of the connection it came over, or of one that is gone. *)
RequestsOwned ==
    \A k \in Run : InProgress(k) =>
      /\ op[k].stage \in {"status", "commit", "unused", "rotate", "remember", "finish"}
      /\ op[k].session \in Session /\ op[k].peer \in Peer
      /\ session[op[k].session].stage # "none" => session[op[k].session].peer = op[k].peer
      /\ (op[k].stage = "finish" /\ op[k].remember) => Bound(op[k].peer)
      /\ op[k].method = "recover" => op[k].code \in Issues \cup {Handoff}

AccessInv ==
    /\ Shapes /\ OwnersInitialize /\ CodesRunOut /\ RowsAreKeyed
    /\ PeersKnown /\ TicketsBound /\ RequestsOwned
=============================================================================

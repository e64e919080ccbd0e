---------------------------- MODULE StorageProofs ----------------------------
(***************************************************************************)
(* Proofs about HostConfig and StateLock: for every set of writers, the    *)
(* configuration file under its lock; then, for any number of attempts and *)
(* processes, any crashes and any number of owner files, the lock: as long *)
(* as no lease has expired under a live owner, whoever has acquired it has *)
(* it alone and what he read is still the state.                           *)
(***************************************************************************)
EXTENDS HostConfig, StateLock, TLAPS

USE WritersAssumption

(* What one configuration says, part by part. *)
View(c) == [nodeId |-> c.nodeId, direct |-> directTransport(c.transport),
            relay |-> relayTransport(c.transport),
            webAuthn |-> c.webAuthn, network |-> c.network]

-----------------------------------------------------------------------------
(***************************************************************************)
(* The transports                                                          *)
(***************************************************************************)
(* What directTransport and relayTransport find in a transport. *)
LEMMA TransportParts ==
    ASSUME NEW t \in Transports
    PROVE  /\ directTransport(t) \in Nat
           /\ relayTransport(t) = NoRelay \/ relayTransport(t) \in Relays
<1>1. \A r \in Relays : r # NoRelay
  BY DEF Relays, NoRelay, Unset
<1>2. QED
  BY <1>1 DEF Transports, Unconfigured, directTransport, relayTransport, Unset

(* withDirectTransport sets the direct part and keeps the relay. *)
LEMMA DirectSet ==
    ASSUME NEW t \in Transports, NEW d \in Nat \ {0}
    PROVE  /\ withDirectTransport(t, d) \in Transports
           /\ directTransport(withDirectTransport(t, d)) = d
           /\ relayTransport(withDirectTransport(t, d)) = relayTransport(t)
<1>1. CASE relayTransport(t) = NoRelay
  <2>1. withDirectTransport(t, d) = [mode |-> "direct", direct |-> d]
    BY <1>1 DEF withDirectTransport
  <2>2. QED
    BY <1>1, <2>1 DEF Transports, directTransport, relayTransport
<1>2. CASE relayTransport(t) # NoRelay
  <2>1. relayTransport(t) \in Relays
    BY <1>2, TransportParts
  <2>2. withDirectTransport(t, d) = [mode |-> "hybrid", direct |-> d, relay |-> relayTransport(t)]
    BY <1>2 DEF withDirectTransport
  <2>3. [mode |-> "hybrid", direct |-> d, relay |-> relayTransport(t)] \in Transports
    BY <2>1 DEF Transports
  <2>4. QED
    BY <2>2, <2>3 DEF directTransport, relayTransport
<1>3. QED
  BY <1>1, <1>2

(* withRelayTransport sets the relay and keeps the direct part. *)
LEMMA RelaySet ==
    ASSUME NEW t \in Transports, NEW r \in Relays
    PROVE  /\ withRelayTransport(t, r) \in Transports
           /\ directTransport(withRelayTransport(t, r)) = directTransport(t)
           /\ relayTransport(withRelayTransport(t, r)) = r
<1>1. CASE directTransport(t) = Unset
  <2>1. withRelayTransport(t, r) = [mode |-> "relay", relay |-> r]
    BY <1>1 DEF withRelayTransport
  <2>2. QED
    BY <1>1, <2>1 DEF Transports, directTransport, relayTransport
<1>2. CASE directTransport(t) # Unset
  <2>1. directTransport(t) \in Nat \ {0}
    BY <1>2, TransportParts DEF Unset
  <2>2. withRelayTransport(t, r) =
            [mode |-> "hybrid", direct |-> directTransport(t), relay |-> r]
    BY <1>2 DEF withRelayTransport
  <2>3. [mode |-> "hybrid", direct |-> directTransport(t), relay |-> r] \in Transports
    BY <2>1 DEF Transports
  <2>4. QED
    BY <2>2, <2>3 DEF directTransport, relayTransport
<1>3. QED
  BY <1>1, <1>2

-----------------------------------------------------------------------------
(***************************************************************************)
(* The updaters                                                            *)
(***************************************************************************)
(* A fresh configuration is one, with nothing in it but its node id. *)
LEMMA FreshConfig ==
    ASSUME NEW n \in Nat \ {0}
    PROVE  /\ createHostConfig(n) \in Configs /\ createHostConfig(n).nodeId = n
           /\ View(createHostConfig(n)) = [View(NoFile) EXCEPT !.nodeId = n]
           /\ NoFile \notin Configs /\ NoFile.nodeId = 0
  BY DEF createHostConfig, Configs, Transports, View, NoFile, Unset, Unconfigured,
         directTransport, relayTransport

(* What an updater that does not refuse makes of a configuration: a
   configuration that differs in the parts the update is about. *)
LEMMA Updated ==
    ASSUME NEW c \in Configs, NEW p, p.kind \in Kinds, p.n \in Nat \ {0},
           ~Refused(p, c)
    PROVE  /\ Update(p, c) \in Configs
           /\ View(Update(p, c)) =
                [nodeId |-> c.nodeId,
                 direct |-> IF p.kind = "direct" THEN p.n
                            ELSE directTransport(c.transport),
                 relay |-> CASE p.kind \in {"relay", "grant"} ->
                                  [route |-> p.n, capability |-> p.n]
                             [] p.kind = "renew" ->
                                  [relayTransport(c.transport) EXCEPT !.capability = p.n]
                             [] OTHER -> relayTransport(c.transport),
                 webAuthn |-> IF p.kind \in {"webAuthn", "grant"} THEN p.n ELSE c.webAuthn,
                 network |-> IF p.kind = "network" \/ (p.kind = "grant" /\ c.network = Unset)
                             THEN p.n ELSE c.network]
<1> DEFINE t == c.transport
           new == [route |-> p.n, capability |-> p.n]
<1>a. /\ t \in Transports /\ c.nodeId \in Nat \ {0} /\ c.webAuthn \in Nat /\ c.network \in Nat
      /\ c = [nodeId |-> c.nodeId, transport |-> t, webAuthn |-> c.webAuthn,
              network |-> c.network]
  BY DEF Configs
<1>b. new \in Relays
  BY DEF Relays
<1>c. \A x \in Transports, y \in Nat, z \in Nat :
        /\ [nodeId |-> c.nodeId, transport |-> x, webAuthn |-> y, network |-> z] \in Configs
        /\ View([nodeId |-> c.nodeId, transport |-> x, webAuthn |-> y, network |-> z]) =
             [nodeId |-> c.nodeId, direct |-> directTransport(x),
              relay |-> relayTransport(x), webAuthn |-> y, network |-> z]
  BY <1>a DEF Configs, View
<1>1. CASE p.kind = "initialize"
  <2>1. Update(p, c) = c
    BY <1>1 DEF Update
  <2>2. /\ c \in Configs
        /\ View(c) = [nodeId |-> c.nodeId, direct |-> directTransport(t),
                      relay |-> relayTransport(t), webAuthn |-> c.webAuthn,
                      network |-> c.network]
    BY <1>a DEF View
  <2>3. QED
    BY <1>1, <2>1, <2>2
<1>2. CASE p.kind = "direct"
  <2>1. Update(p, c) = [nodeId |-> c.nodeId, transport |-> withDirectTransport(t, p.n),
                        webAuthn |-> c.webAuthn, network |-> c.network]
    BY <1>2, <1>a DEF Update, TransportDirect
  <2>2. /\ withDirectTransport(t, p.n) \in Transports
        /\ directTransport(withDirectTransport(t, p.n)) = p.n
        /\ relayTransport(withDirectTransport(t, p.n)) = relayTransport(t)
    BY <1>a, DirectSet
  <2>3. QED
    BY <1>2, <1>a, <1>c, <2>1, <2>2
<1>3. CASE p.kind = "relay"
  <2>1. Update(p, c) = [nodeId |-> c.nodeId, transport |-> withRelayTransport(t, new),
                        webAuthn |-> c.webAuthn, network |-> c.network]
    BY <1>3, <1>a DEF Update, TransportRelay
  <2>2. QED
    BY <1>3, <1>a, <1>b, <1>c, <2>1, RelaySet
<1>4. CASE p.kind = "grant"
  <2>1. Update(p, c) = [nodeId |-> c.nodeId, transport |-> withRelayTransport(t, new),
                        webAuthn |-> p.n,
                        network |-> IF c.network = Unset THEN p.n ELSE c.network]
    BY <1>4, <1>a DEF Update, Grant, TransportRelay
  <2>2. QED
    BY <1>4, <1>a, <1>b, <1>c, <2>1, RelaySet
<1>5. CASE p.kind = "renew"
  <2> DEFINE r == [relayTransport(t) EXCEPT !.capability = p.n]
  <2>1. Update(p, c) = [nodeId |-> c.nodeId, transport |-> withRelayTransport(t, r),
                        webAuthn |-> c.webAuthn, network |-> c.network]
    BY <1>5, <1>a DEF Update, Renew
  <2>2. relayTransport(t) \in Relays
    BY <1>5, <1>a, TransportParts DEF Refused
  <2>3. r \in Relays
    BY <2>2 DEF Relays
  <2>4. QED
    BY <1>5, <1>a, <1>c, <2>1, <2>3, RelaySet
<1>6. CASE p.kind = "webAuthn"
  <2>1. Update(p, c) = [nodeId |-> c.nodeId, transport |-> t,
                        webAuthn |-> p.n, network |-> c.network]
    BY <1>6, <1>a DEF Update, Origin
  <2>2. QED
    BY <1>6, <1>a, <1>c, <2>1
<1>7. CASE p.kind = "network"
  <2>1. Update(p, c) = [nodeId |-> c.nodeId, transport |-> t,
                        webAuthn |-> c.webAuthn, network |-> p.n]
    BY <1>7, <1>a DEF Update, Network
  <2>2. QED
    BY <1>7, <1>a, <1>c, <2>1
<1>8. QED
  BY <1>1, <1>2, <1>3, <1>4, <1>5, <1>6, <1>7 DEF Kinds

-----------------------------------------------------------------------------
(***************************************************************************)
(* The invariant                                                           *)
(***************************************************************************)
LEMMA ConfigStarts == ConfigInit => ConfigInv
<1> SUFFICES ASSUME ConfigInit PROVE ConfigInv
  OBVIOUS
<1>1. Idle \in [at : {"idle", "waiting", "locked", "read", "written", "leaving"},
               kind : Kinds \cup {"none"}, n : Nat, expected : Nat,
               config : Configs \cup {NoFile}]
  BY DEF Idle, Unset
<1>2. \A w \in Writers : proc[w] = Idle /\ proc[w].at = "idle"
  BY DEF ConfigInit, Idle
<1>3. ConfigTypeOK
  BY <1>1 DEF ConfigInit, ConfigTypeOK
<1>4. LockHeld /\ WorkIsCurrent
  BY <1>2 DEF ConfigInit, LockHeld, WorkIsCurrent, Nobody
<1>5. UpdatesKept
  BY DEF ConfigInit, UpdatesKept, NoFile, createHostConfig, directTransport, relayTransport,
         Unconfigured, Unset
<1>6. QED
  BY <1>3, <1>4, <1>5 DEF ConfigInv

(* The rename publishes what it says: the parts of the update in place, the others
   as they were published last. *)
LEMMA RenameKeeps ==
    ASSUME ConfigInv, NEW w \in Writers, Rename(w)
    PROVE  UpdatesKept' /\ file' \in Configs
<1> DEFINE p == proc[w]
           c == Base(p)
<1>a. /\ p.at = "written" /\ p.kind \in Kinds /\ p.n \in Nat \ {0}
      /\ p.config = Update(p, c) /\ ~Refused(p, c)
      /\ file' = p.config /\ last' = Published(p)
      /\ file \in Configs \cup {NoFile} /\ last = View(file)
  BY DEF ConfigInv, ConfigTypeOK, WorkIsCurrent, UpdatesKept, View, Rename
<1>b. /\ c \in Configs
      /\ file = NoFile => last.nodeId = Unset /\ View(c) = [last EXCEPT !.nodeId = c.nodeId]
      /\ file # NoFile => last.nodeId # Unset /\ View(c) = last
  <2>1. CASE file = NoFile
    BY <1>a, <2>1, FreshConfig DEF Base, View, Unset
  <2>2. CASE file # NoFile
    BY <1>a, <2>2 DEF Base, Configs, View, Unset
  <2>3. QED
    BY <2>1, <2>2
<1>c. /\ last.direct = directTransport(c.transport) /\ last.relay = relayTransport(c.transport)
      /\ last.webAuthn = c.webAuthn /\ last.network = c.network
      /\ (IF last.nodeId = Unset THEN c.nodeId ELSE last.nodeId) = c.nodeId
  BY <1>a, <1>b DEF View
<1> HIDE DEF p, c
<1>d. Update(p, c) \in Configs /\ Update(p, c).nodeId = c.nodeId
  BY <1>a, <1>b, Updated DEF View
<1>e. p.kind = "renew" => last.relay.capability = p.expected
  BY <1>a, <1>c DEF Refused
<1>f. Published(p) = View(Update(p, c))
  BY <1>a, <1>b, <1>c, <1>d, <1>e, Updated DEF Published
<1>g. QED
  BY <1>a, <1>d, <1>f DEF UpdatesKept, View

LEMMA ConfigStep == ConfigInv /\ [ConfigNext]_configVars => ConfigInv'
<1> SUFFICES ASSUME ConfigInv, [ConfigNext]_configVars PROVE ConfigInv'
  OBVIOUS
<1> DEFINE Proc == [at : {"idle", "waiting", "locked", "read", "written", "leaving"},
                    kind : Kinds \cup {"none"}, n : Nat, expected : Nat,
                    config : Configs \cup {NoFile}]
<1>a. /\ file \in Configs \cup {NoFile} /\ holder \in Writers \cup {Nobody}
      /\ proc \in [Writers -> Proc] /\ updates \in Nat /\ Nobody \notin Writers
  BY DEF ConfigInv, ConfigTypeOK, Nobody
<1>b. LockHeld /\ WorkIsCurrent /\ UpdatesKept
  BY DEF ConfigInv
<1>c. ASSUME NEW w \in Writers, NEW q \in Proc, proc' = [proc EXCEPT ![w] = q],
             UNCHANGED <<file, last>>, updates' \in Nat, holder' \in Writers \cup {Nobody},
             \A x \in Writers : x # w => (holder' = x <=> holder = x),
             q.at \in {"locked", "read", "written", "leaving"} <=> holder' = w,
             q.at # "idle" => q.kind \in Kinds /\ q.n # 0,
             q.at = "read" => q.config = Base(q),
             q.at = "written" => q.config = Update(q, Base(q)) /\ ~Refused(q, Base(q))
      PROVE  ConfigInv'
  <2>1. ConfigTypeOK'
    BY <1>a, <1>c DEF ConfigTypeOK
  <2>2. \A x \in Writers : proc'[x] = IF x = w THEN q ELSE proc[x]
    BY <1>a, <1>c
  <2>3. LockHeld'
    BY <1>b, <1>c, <2>2 DEF LockHeld
  <2>4. \A x : Base(x)' = Base(x)
    BY <1>c DEF Base
  <2>5. WorkIsCurrent'
    BY <1>b, <1>c, <2>2, <2>4 DEF WorkIsCurrent, Base
  <2>6. UpdatesKept'
    BY <1>b, <1>c DEF UpdatesKept
  <2>7. QED
    BY <2>1, <2>3, <2>5, <2>6 DEF ConfigInv
<1>d. Idle \in Proc /\ Idle.at = "idle"
  BY DEF Idle, Unset
<1>1. ASSUME NEW w \in Writers, BeginUpdate(w) PROVE ConfigInv'
  <2>1. PICK kind \in Kinds :
          /\ proc' = [proc EXCEPT ![w] =
                        [Idle EXCEPT !.at = "waiting", !.kind = kind, !.n = updates + 1,
                           !.expected = relayTransport(file.transport).capability]]
    BY <1>1 DEF BeginUpdate
  <2> DEFINE q == [Idle EXCEPT !.at = "waiting", !.kind = kind, !.n = updates + 1,
                           !.expected = relayTransport(file.transport).capability]
  <2>2. /\ updates' = updates + 1 /\ UNCHANGED <<file, holder, last>>
        /\ proc[w].at = "idle"
    BY <1>1 DEF BeginUpdate
  <2>3. relayTransport(file.transport).capability \in Nat
    <3>1. file.transport \in Transports
      BY <1>a DEF Configs, NoFile, createHostConfig, Transports
    <3>2. QED
      BY <3>1, TransportParts DEF NoRelay, Relays, Unset
  <2>4. /\ q \in Proc /\ q.at = "waiting" /\ q.kind \in Kinds /\ q.n # 0
    <3> DEFINE n == updates + 1
               c == relayTransport(file.transport).capability
    <3>1. n \in Nat /\ n # 0 /\ c \in Nat
      BY <1>a, <2>3
    <3> HIDE DEF n, c
    <3>2. q = [Idle EXCEPT !.at = "waiting", !.kind = kind, !.n = n, !.expected = c]
      BY DEF n, c
    <3> HIDE DEF q
    <3>3. q = [at |-> "waiting", kind |-> kind, n |-> n, expected |-> c, config |-> NoFile]
      BY <3>2 DEF Idle
    <3>4. QED
      BY <3>1, <3>3
  <2>5. holder # w
    BY <1>b, <2>2 DEF LockHeld
  <2> HIDE DEF q
  <2>6. QED
    BY <1>a, <1>c, <2>1, <2>2, <2>4, <2>5 DEF q
<1>e. ASSUME NEW w \in Writers, NEW l \in {"locked", "leaving"},
             proc' = [proc EXCEPT ![w].at = l], UNCHANGED <<file, last, updates>>,
             proc[w].at # "idle", holder' = w, holder \in {Nobody, w}
      PROVE  ConfigInv'
  <2> DEFINE q == [proc[w] EXCEPT !.at = l]
  <2>1. proc' = [proc EXCEPT ![w] = q]
    BY <1>a, <1>e
  <2>2. q \in Proc /\ q.at = l /\ q.kind = proc[w].kind /\ q.n = proc[w].n
    BY <1>a, <1>e
  <2>3. q.kind \in Kinds /\ q.n # 0
    BY <1>b, <1>e, <2>2 DEF WorkIsCurrent
  <2>4. /\ \A x \in Writers : x # w => (holder' = x <=> holder = x)
        /\ holder' \in Writers \cup {Nobody} /\ updates' \in Nat
        /\ q.at \in {"locked", "read", "written", "leaving"} <=> holder' = w
        /\ q.at # "read" /\ q.at # "written"
    BY <1>a, <1>e, <2>2
  <2> HIDE DEF q
  <2>5. QED
    BY <1>c, <1>e, <2>1, <2>2, <2>3, <2>4
<1>2. ASSUME NEW w \in Writers, AcquireLock(w) PROVE ConfigInv'
  BY <1>2, <1>e DEF AcquireLock
<1>3. ASSUME NEW w \in Writers, ReadConfig(w) PROVE ConfigInv'
  <2> DEFINE q == [proc[w] EXCEPT !.at = "read", !.config = Base(proc[w])]
  <2>1. proc' = [proc EXCEPT ![w] = q] /\ UNCHANGED <<file, holder, last, updates>>
    BY <1>a, <1>3 DEF ReadConfig, Base
  <2>2. proc[w].at = "locked" /\ holder = w /\ proc[w].kind \in Kinds /\ proc[w].n # 0
    BY <1>b, <1>3 DEF ReadConfig, LockHeld, WorkIsCurrent
  <2>3. Base(proc[w]) \in Configs
    BY <1>a, <2>2, FreshConfig DEF Base
  <2>4. /\ q \in Proc /\ q.at = "read" /\ q.kind = proc[w].kind /\ q.n = proc[w].n
        /\ q.config = Base(proc[w])
    BY <1>a, <2>3
  <2>5. q.config = Base(q)
    BY <2>4 DEF Base
  <2> HIDE DEF q
  <2>6. QED
    BY <1>a, <1>c, <2>1, <2>2, <2>4, <2>5
<1>4. ASSUME NEW w \in Writers, Apply(w) PROVE ConfigInv'
  <2> DEFINE p == proc[w]
             q == [p EXCEPT !.at = "written", !.config = Update(p, p.config)]
  <2>1. /\ p.at = "read" /\ UNCHANGED <<file, holder, last, updates>>
        /\ holder = w /\ p.kind \in Kinds /\ p.n \in Nat \ {0} /\ p.config = Base(p)
    BY <1>a, <1>b, <1>4 DEF Apply, LockHeld, WorkIsCurrent
  <2>2. CASE Refused(p, p.config) \/ (file # NoFile /\ Update(p, p.config) = p.config)
    <3>1. proc' = [proc EXCEPT ![w].at = "leaving"]
      BY <1>a, <1>4, <2>2 DEF Apply
    <3>2. QED
      BY <1>e, <2>1, <3>1
  <2>3. CASE ~(Refused(p, p.config) \/ (file # NoFile /\ Update(p, p.config) = p.config))
    <3>1. proc' = [proc EXCEPT ![w] = q]
      BY <1>4, <2>3 DEF Apply
    <3>2. Base(p) \in Configs
      BY <1>a, <2>1, FreshConfig DEF Base
    <3>3. Update(p, p.config) \in Configs
      BY <2>1, <2>3, <3>2, Updated
    <3>4. /\ q \in Proc /\ q.at = "written" /\ q.kind = p.kind /\ q.n = p.n
          /\ q.expected = p.expected /\ q.config = Update(p, p.config)
      BY <1>a, <3>3
    <3>5. Base(q) = Base(p) /\ Update(q, p.config) = Update(p, p.config)
          /\ (Refused(q, p.config) <=> Refused(p, p.config))
      BY <3>4 DEF Base, Update, Refused
    <3> HIDE DEF q, p
    <3>6. QED
      BY <1>a, <1>c, <2>1, <2>3, <3>1, <3>4, <3>5
  <2>4. QED
    BY <2>2, <2>3
<1>5. ASSUME NEW w \in Writers, Rename(w) PROVE ConfigInv'
  <2>1. /\ proc' = [proc EXCEPT ![w].at = "leaving"] /\ UNCHANGED <<holder, updates>>
        /\ proc[w].at = "written"
    BY <1>5 DEF Rename
  <2>2. UpdatesKept' /\ file' \in Configs
    BY <1>5, RenameKeeps
  <2>3. ConfigTypeOK'
    BY <1>a, <2>1, <2>2 DEF ConfigTypeOK
  <2>4. holder = w /\ \A x \in Writers : x # w => proc[x].at \in {"idle", "waiting"}
    BY <1>a, <1>b, <2>1 DEF LockHeld
  <2>5. \A x \in Writers : /\ x # w => proc'[x] = proc[x]
                           /\ proc'[w].at = "leaving"
                           /\ proc'[w].kind = proc[w].kind /\ proc'[w].n = proc[w].n
    BY <1>a, <2>1
  <2>6. LockHeld' /\ WorkIsCurrent'
    BY <1>b, <2>1, <2>4, <2>5 DEF LockHeld, WorkIsCurrent
  <2>7. QED
    BY <2>2, <2>3, <2>6 DEF ConfigInv
<1>6. ASSUME NEW w \in Writers, WriteFails(w) PROVE ConfigInv'
  <2>1. proc[w].at = "written" /\ holder = w
    BY <1>b, <1>6 DEF WriteFails, LockHeld
  <2>2. QED
    BY <1>6, <1>e, <2>1 DEF WriteFails
<1>7. ASSUME NEW w \in Writers, ReleaseLock(w) \/ WriterCrash(w) PROVE ConfigInv'
  <2>1. /\ proc' = [proc EXCEPT ![w] = Idle] /\ UNCHANGED <<file, last, updates>>
        /\ holder' = IF holder = w THEN Nobody ELSE holder
    BY <1>7 DEF ReleaseLock, WriterCrash, Unlocked
  <2>2. QED
    BY <1>a, <1>c, <1>d, <2>1
<1>8. CASE UNCHANGED configVars
  BY <1>8 DEF configVars, ConfigInv, ConfigTypeOK, LockHeld, WorkIsCurrent, UpdatesKept, Base
<1>9. QED
  BY <1>1, <1>2, <1>3, <1>4, <1>5, <1>6, <1>7, <1>8 DEF ConfigNext

(* updateHostConfig replaces the file only with an update of what it holds. *)
THEOREM ConfigInvariant == ConfigSpec => []ConfigInv
  BY ConfigStarts, ConfigStep, PTL DEF ConfigSpec

(* No update of the configuration file undoes another one, however many writers
   there are, whichever of them dies and whichever write fails. *)
THEOREM ConfigUpdatesKept == ConfigSpec => []UpdatesKept
<1>1. ConfigInv => UpdatesKept
  BY DEF ConfigInv
<1>2. QED
  BY <1>1, ConfigInvariant, PTL

-----------------------------------------------------------------------------
(***************************************************************************)
(* The lock files                                                          *)
(***************************************************************************)
USE NoFileAssumption
USE DEF Labels, Sites, Looking, Holding, Owns, others, fileVars, Goto, Call, Again, At, Runs

-----------------------------------------------------------------------------
(***************************************************************************)
(* What several steps need                                                 *)
(***************************************************************************)
(* The lock of a live owner is active for everyone. *)
LEMMA OwnersAreActive ==
    ASSUME LockInv, expiries = 0, NEW a \in Attempts, NEW b \in Attempts, Owns(b)
    PROVE  mine[b] \in Files /\ mine[b] # None /\ mine[b][1] = b /\ ~MayBeStale(a, mine[b])
<1>1. mine[b] \in Files /\ mine[b] # None /\ mine[b][1] = b /\ ProcessOf[b] \notin dead
  BY DEF LockInv, Shapes
<1>2. mine[b] \notin expired
  BY <1>1 DEF LockInv, LocksKept, ProcessLives, Writer
<1>3. QED
  BY <1>1, <1>2 DEF MayBeStale, ProcessLives, Writer

(* A step that leaves the lock files alone and brings nobody nearer to the lock. *)
Quiet ==
    /\ UNCHANGED <<lock, quar, listed, mine, dead, fresh, expired, expiries, crowded>>
    /\ \A b \in Attempts :
         Owns(b)' => Owns(b) /\ (pc'[b] = pc[b] \/ (pc'[b] \in Holding /\ pc[b] \in Holding))

LEMMA QuietKeeps == LockInv /\ Shapes' /\ SitesAgree' /\ Quiet => LockInv'
<1> SUFFICES ASSUME LockInv, Shapes', SitesAgree', Quiet PROVE LockInv'
  OBVIOUS
<1>1. LocksKept => LocksKept'
  <2> HIDE DEF Owns
  <2>1. QED
    BY DEF Quiet, LocksKept, InQuarantine, ProcessLives, Writer
<1>2. OneHolder => OneHolder'
  <2> SUFFICES ASSUME OneHolder PROVE OneHolder'
    OBVIOUS
  <2>1. \A x, y \in Attempts : Owns(x)' /\ Overlap(x, y) => Overlap(x, y)'
    BY DEF Quiet, Overlap, Sees
  <2>2. \A x \in Attempts : pc'[x] \in Holding => pc[x] \in Holding
    BY DEF Quiet
  <2> HIDE DEF Owns
  <2>3. QED
    BY <2>1, <2>2 DEF Quiet, OneHolder
<1>3. QED
  BY <1>1, <1>2 DEF Quiet, LockInv

(* A step of one attempt that moves locks between their place and the quarantines or
   removes some: those of owners are still there, and who could find one still can. *)
Moves ==
    /\ UNCHANGED <<dead, expired, expiries, fresh, mine>> /\ (crowded => crowded')
    /\ \A b \in Attempts : /\ Owns(b)' => Owns(b)
                           /\ pc'[b] \in Holding => pc[b] \in Holding
Kept == \A b \in Attempts : Owns(b) /\ (lock = mine[b] \/ InQuarantine(mine[b]))
                              => lock' = mine[b] \/ InQuarantine(mine[b])'
Seen == \A x, y \in Attempts :
          Owns(x)' /\ Owns(y)' /\ x # y /\ Overlap(x, y) => Overlap(x, y)'

LEMMA MoveKeeps ==
    ASSUME LockInv, Shapes', SitesAgree', Moves, expiries = 0 => Kept,
           expiries = 0 /\ ~crowded' /\ OneHolder => Seen
    PROVE  LockInv'
<1> HIDE DEF Owns, Holding
<1>1. ASSUME expiries = 0 PROVE LocksKept'
  BY <1>1 DEF Moves, Kept, LockInv, LocksKept, ProcessLives, Writer
<1>2. ASSUME expiries = 0, ~crowded' PROVE OneHolder'
  <2>1. OneHolder /\ Seen
    BY <1>2 DEF LockInv, Moves
  <2>2. QED
    BY <2>1 DEF Moves, OneHolder, Seen
<1>3. QED
  BY <1>1, <1>2 DEF Moves, LockInv

(* Where stateCommitFenceIsBlocking leads back to. *)
LEMMA FenceBlocked ==
    ASSUME NEW a \in Attempts, FenceBlocks(a),
           site[a] \in {"top", "reclaim", "recheck", "release", "unlock"}
    PROVE  \/ Again(a)
           \/ site[a] = "recheck" /\ Goto(a, "restore")
           \/ site[a] \in {"release", "unlock"} /\ Goto(a, "relinquish")
<1>1. CASE site[a] \in {"top", "reclaim"}
  BY <1>1 DEF FenceBlocks
<1>2. CASE site[a] = "recheck"
  BY <1>2 DEF FenceBlocks
<1>3. CASE site[a] \in {"release", "unlock"}
  BY <1>3 DEF FenceBlocks
<1>4. QED
  BY <1>1, <1>2, <1>3

(* The three operations of hasBlockingQuarantine, for either of its callers. *)
LEMMA LooksShaped ==
    ASSUME LockInv, NEW a \in Attempts, ListNames(a) \/ ReadName(a) \/ EndLook(a)
    PROVE  Shapes' /\ SitesAgree'
<1> USE DEF LockInv
<1>a. Names \in SUBSET (Attempts \X Files)
  BY DEF Names
<1>b. pc[a] \in Looking /\ site[a] \in {"top", "published"} /\ UNCHANGED <<lock, moved, mine, dead, expiries, crowded>>
  BY DEF ListNames, ReadName, EndLook, SitesAgree
<1>c. /\ quar' \in [Attempts -> SUBSET Files]
      /\ listed' \in [Attempts -> SUBSET (Attempts \X Files)]
  BY <1>a DEF ListNames, ReadName, EndLook, Drop, Shapes
<1>d. \/ UNCHANGED <<pc, site>>
      \/ Goto(a, "blocked") \/ Goto(a, "reading")
      \/ Again(a) \/ Call(a, "relinquish", "backoff")
      \/ NotBlocked(a)
  BY DEF ListNames, ReadName, EndLook, Blocked
<1>e. \/ UNCHANGED <<pc, site>>
      \/ Goto(a, "blocked") \/ Goto(a, "reading")
      \/ Again(a) \/ Call(a, "relinquish", "backoff") \/ Call(a, "relinquish", "giveup")
      \/ (site[a] = "top" /\ Goto(a, "link"))
      \/ (site[a] = "published" /\ Goto(a, "held"))
  BY <1>d DEF NotBlocked
<1>1. Shapes'
  BY <1>b, <1>c, <1>e DEF Shapes
<1>2. SitesAgree'
  BY <1>b, <1>e DEF Shapes, SitesAgree
<1>3. QED
  BY <1>1, <1>2

(* The shape of the state, and what each operation is done for. *)
LEMMA Shaped ==
    ASSUME LockInv, NEW a \in Attempts, Begin(a) \/ Step(a) \/ TimeOut(a)
    PROVE  Shapes' /\ SitesAgree'
<1> USE DEF LockInv
<1>1. CASE ProveFence(a)
  <2>1. Shapes'
    BY <1>1 DEF ProveFence, FenceFree, Shapes, SitesAgree
  <2>2. SitesAgree'
    BY <1>1 DEF ProveFence, FenceFree, Shapes, SitesAgree
  <2>3. QED
    BY <2>1, <2>2
<1>2. CASE ReadFence(a)
  <2>1. CASE FenceBlocks(a) /\ proof' = [proof EXCEPT ![a] = None]
    BY <1>2, <2>1, FenceBlocked DEF ReadFence, Shapes, SitesAgree
  <2>2. CASE Goto(a, "fenceTake")
    BY <1>2, <2>2 DEF ReadFence, Shapes, SitesAgree
  <2>3. QED
    BY <1>2, <2>1, <2>2 DEF ReadFence
<1>3. CASE TakeFence(a)
  <2>1. Shapes'
    BY <1>3 DEF TakeFence, FenceFree, Shapes, SitesAgree
  <2>2. SitesAgree'
    BY <1>3 DEF TakeFence, FenceFree, Shapes, SitesAgree
  <2>3. QED
    BY <2>1, <2>2
<1>4. CASE RestoreFence(a)
  BY <1>4, FenceBlocked DEF RestoreFence, Shapes, SitesAgree
<1>5. CASE ListNames(a) \/ ReadName(a) \/ EndLook(a)
  BY <1>5, LooksShaped
<1>6. CASE Publish(a)
  <2>1. CASE Call(a, "fence", "reclaim") /\ UNCHANGED <<lock, mine>>
    BY <1>6, <2>1 DEF Publish, Shapes, SitesAgree
  <2>2. ASSUME NEW i \in 1 .. MaxSpares, lock' = <<a, i>>, mine' = [mine EXCEPT ![a] = <<a, i>>],
               Call(a, "quarantine", "published")
        PROVE  Shapes' /\ SitesAgree'
    <3>1. <<a, i>> \in Files /\ <<a, i>> # None /\ <<a, i>>[1] = a
      BY DEF Files
    <3>2. Shapes'
      BY <1>6, <2>2, <3>1 DEF Publish, Shapes
    <3>3. SitesAgree'
      BY <1>6, <2>2 DEF Publish, Shapes, SitesAgree
    <3>4. QED
      BY <3>2, <3>3
  <2>3. QED
    BY <1>6, <2>1, <2>2 DEF Publish
<1>8. CASE ProveLock(a)
  <2>1. Shapes'
    BY <1>8 DEF ProveLock, Shapes, SitesAgree
  <2>2. SitesAgree'
    BY <1>8 DEF ProveLock, Shapes, SitesAgree
  <2>3. QED
    BY <2>1, <2>2
<1>9. CASE ReadLock(a)
  <2>1. Shapes'
    BY <1>9 DEF ReadLock, Shapes, SitesAgree
  <2>2. SitesAgree'
    BY <1>9 DEF ReadLock, Shapes, SitesAgree
  <2>3. QED
    BY <2>1, <2>2
<1>10. CASE TakeLock(a)
  <2>1. Shapes'
    BY <1>10 DEF TakeLock, Shapes, SitesAgree
  <2>2. SitesAgree'
    BY <1>10 DEF TakeLock, Shapes, SitesAgree
  <2>3. QED
    BY <2>1, <2>2
<1>11. CASE RemoveLock(a)
  <2>1. Shapes'
    BY <1>11 DEF RemoveLock, Drop, Shapes, SitesAgree
  <2>2. SitesAgree'
    BY <1>11 DEF RemoveLock, Shapes, SitesAgree
  <2>3. QED
    BY <2>1, <2>2
<1>12. CASE RestoreLock(a)
  <2>1. Shapes'
    BY <1>12 DEF RestoreLock, Drop, Shapes, SitesAgree
  <2>2. SitesAgree'
    BY <1>12 DEF RestoreLock, Shapes, SitesAgree
  <2>3. QED
    BY <2>1, <2>2
<1>13. CASE LinkFence(a)
  <2>1. Shapes'
    BY <1>13 DEF LinkFence, Shapes, SitesAgree
  <2>2. SitesAgree'
    BY <1>13 DEF LinkFence, Shapes, SitesAgree
  <2>3. QED
    BY <2>1, <2>2
<1>14. CASE AssertOwned(a)
  <2>1. Shapes'
    BY <1>14 DEF AssertOwned, Shapes, SitesAgree
  <2>2. SitesAgree'
    BY <1>14 DEF AssertOwned, Shapes, SitesAgree
  <2>3. QED
    BY <2>1, <2>2
<1>15. CASE Commit(a)
  <2>1. Shapes'
    BY <1>15 DEF Commit, Shapes, SitesAgree
  <2>2. SitesAgree'
    BY <1>15 DEF Commit, Shapes, SitesAgree
  <2>3. QED
    BY <2>1, <2>2
<1>16. CASE Unlock(a)
  <2>1. Shapes'
    BY <1>16 DEF Unlock, Shapes, SitesAgree
  <2>2. SitesAgree'
    BY <1>16 DEF Unlock, Shapes, SitesAgree
  <2>3. QED
    BY <2>1, <2>2
<1>17. CASE Discard(a)
  <2>1. Shapes'
    BY <1>17 DEF Discard, Shapes, SitesAgree
  <2>2. SitesAgree'
    BY <1>17 DEF Discard, Shapes, SitesAgree
  <2>3. QED
    BY <2>1, <2>2
<1>18. CASE ReleaseFence(a)
  <2>1. Shapes'
    BY <1>18 DEF ReleaseFence, Shapes, SitesAgree
  <2>2. SitesAgree'
    BY <1>18 DEF ReleaseFence, Shapes, SitesAgree
  <2>3. QED
    BY <2>1, <2>2
<1>19. CASE Relinquish(a)
  <2>1. Shapes'
    BY <1>19 DEF Relinquish, Shapes, SitesAgree
  <2>2. SitesAgree'
    BY <1>19 DEF Relinquish, Shapes, SitesAgree
  <2>3. QED
    BY <2>1, <2>2
<1>20. CASE RetryRelease(a)
  <2>1. Shapes'
    BY <1>20 DEF RetryRelease, Shapes, SitesAgree
  <2>2. SitesAgree'
    BY <1>20 DEF RetryRelease, Shapes, SitesAgree
  <2>3. QED
    BY <2>1, <2>2
<1>21. CASE RemoveOwn(a)
  <2>1. site[a] \in {"backoff", "giveup", "release", "unlock"}
    BY <1>21 DEF RemoveOwn, SitesAgree
  <2>2. Again(a) \/ Goto(a, "failed") \/ Goto(a, "done")
    <3>1. CASE site[a] = "backoff"
      BY <1>21, <3>1 DEF RemoveOwn
    <3>2. CASE site[a] = "giveup"
      BY <1>21, <3>2 DEF RemoveOwn
    <3>3. CASE site[a] \in {"release", "unlock"}
      BY <1>21, <3>3 DEF RemoveOwn
    <3>4. QED
      BY <2>1, <3>1, <3>2, <3>3
  <2>3. Shapes'
    BY <1>21, <2>2 DEF RemoveOwn, Drop, Shapes
  <2>4. SitesAgree'
    BY <1>21, <2>2 DEF RemoveOwn, Shapes, SitesAgree
  <2>5. QED
    BY <2>3, <2>4
<1>22. CASE Begin(a)
  <2>1. Shapes'
    BY <1>22 DEF Begin, Shapes, SitesAgree
  <2>2. SitesAgree'
    BY <1>22 DEF Begin, Shapes, SitesAgree
  <2>3. QED
    BY <2>1, <2>2
<1>23. CASE TimeOut(a)
  <2>1. CASE /\ pc[a] = "fence" /\ site[a] = "top" /\ Goto(a, "failed")
    BY <1>23, <2>1 DEF TimeOut, Shapes, SitesAgree
  <2>2. CASE /\ pc[a] = "fenceRestore"
             /\ Goto(a, IF site[a] = "release" THEN "relinquish" ELSE "failed")
    BY <1>23, <2>2 DEF TimeOut, Shapes, SitesAgree
  <2>3. CASE pc[a] = "restore" /\ site[a] \in {"reclaim", "recheck"}
    <3>1. Goto(a, "failed") /\ UNCHANGED <<quar, listed, moved, mine, lock, dead, expiries, crowded>>
      BY <1>23, <2>3 DEF TimeOut
    <3>2. QED
      BY <2>3, <3>1 DEF Shapes, SitesAgree
  <2>4. CASE pc[a] = "restore" /\ site[a] = "backoff"
    BY <1>23, <2>4 DEF TimeOut, Shapes, SitesAgree
  <2>5. CASE pc[a] = "restore" /\ site[a] \in {"giveup", "release", "unlock"}
    <3>1. Goto(a, "abandoned") /\ UNCHANGED <<quar, listed, moved, mine, lock, dead, expiries, crowded>>
      BY <1>23, <2>5 DEF TimeOut
    <3>2. QED
      BY <2>5, <3>1 DEF Shapes, SitesAgree
  <2>6. QED
    BY <1>23, <2>1, <2>2, <2>3, <2>4, <2>5 DEF TimeOut, SitesAgree
<1>24. QED
  BY <1>1, <1>2, <1>3, <1>4, <1>5, <1>6, <1>8, <1>9, <1>10, <1>11, <1>12, <1>13, <1>14, <1>15, <1>16, <1>17, <1>18, <1>19, <1>20, <1>21, <1>22, <1>23 DEF Step

(* Operations on the fence, looks at the lock, and steps of the caller. *)
LEMMA QuietSteps ==
    ASSUME LockInv, NEW a \in Attempts,
           \/ ProveFence(a) \/ ReadFence(a) \/ TakeFence(a) \/ RestoreFence(a) \/ ProveLock(a)
           \/ ReadLock(a) \/ LinkFence(a) \/ AssertOwned(a) \/ Unlock(a) \/ Discard(a)
           \/ ReleaseFence(a) \/ RetryRelease(a) \/ Begin(a) \/ TimeOut(a)
    PROVE  LockInv'
<1>1. Shapes' /\ SitesAgree'
  BY Shaped DEF Step
<1>16. Quiet => LockInv'
  BY <1>1, QuietKeeps
<1> USE DEF LockInv, Shapes, SitesAgree, Quiet
<1>2. ProveFence(a) => Quiet
  BY DEF ProveFence, FenceFree
<1>3. ReadFence(a) => Quiet
  BY FenceBlocked DEF ReadFence
<1>4. TakeFence(a) => Quiet
  BY DEF TakeFence, FenceFree
<1>5. RestoreFence(a) => Quiet
  BY FenceBlocked DEF RestoreFence
<1>6. ProveLock(a) => Quiet
  BY DEF ProveLock
<1>7. ReadLock(a) => Quiet
  BY DEF ReadLock
<1>8. LinkFence(a) => Quiet
  BY DEF LinkFence
<1>9. AssertOwned(a) => Quiet
  BY DEF AssertOwned
<1>10. Unlock(a) => Quiet
  BY DEF Unlock
<1>11. Discard(a) => Quiet
  BY DEF Discard
<1>12. ReleaseFence(a) => Quiet
  BY DEF ReleaseFence
<1>13. RetryRelease(a) => Quiet
  BY DEF RetryRelease
<1>14. Begin(a) => Quiet
  BY DEF Begin
<1>15. TimeOut(a) => Quiet
  <2>1. CASE pc[a] = "restore" /\ site[a] \in {"reclaim", "recheck"}
    BY <2>1, ZenonT(40) DEF TimeOut
  <2>2. CASE pc[a] = "restore" /\ site[a] = "backoff"
    BY <2>2, ZenonT(40) DEF TimeOut
  <2>3. CASE pc[a] = "restore" /\ site[a] \in {"giveup", "release", "unlock"}
    BY <2>3, ZenonT(40) DEF TimeOut
  <2>4. CASE pc[a] # "restore"
    BY <2>4, ZenonT(40) DEF TimeOut
  <2>5. QED
    BY <2>1, <2>2, <2>3, <2>4
<1>17. QED
  BY <1>2, <1>3, <1>4, <1>5, <1>6, <1>7, <1>8, <1>9, <1>10, <1>11, <1>12, <1>13, <1>14, <1>15, <1>16, Zenon

(* A lock is moved aside: when it is that of an owner there is no other owner, or two had
   one published. *)
LEMMA AsideKeeps ==
    ASSUME LockInv, NEW a \in Attempts, TakeLock(a) \/ Relinquish(a)
    PROVE  LockInv'
<1>1. Shapes' /\ SitesAgree' /\ Shapes /\ SitesAgree
  BY Shaped DEF Step, LockInv
<1>2. Moves /\ ~Owns(a) /\ (\A b \in Attempts : lock = mine[b] /\ b # a /\ mine[b] # None => mine[b] \in quar'[a])
      /\ (\A c \in Attempts : quar[c] \subseteq quar'[c]) /\ (crowded' <=> (crowded \/ Crowds))
  <2>1. CASE TakeLock(a)
    <3>1. crowded' = (crowded \/ Crowds)
      BY <2>1, Zenon DEF TakeLock
    <3>2. Moves
      BY <1>1, <2>1, <3>1 DEF Moves, TakeLock, Shapes
    <3>3. ~Owns(a) /\ \A b \in Attempts : lock = mine[b] /\ mine[b] # None => mine[b] \in quar'[a]
      BY <1>1, <2>1 DEF TakeLock, Shapes
    <3>4. \A c \in Attempts : quar[c] \subseteq quar'[c]
      BY <1>1, <2>1 DEF TakeLock, Shapes
    <3>5. QED
      BY <3>1, <3>2, <3>3, <3>4, Zenon
  <2>2. CASE Relinquish(a)
    <3>1. crowded' = (crowded \/ Crowds)
      BY <2>2, Zenon DEF Relinquish
    <3>2. Moves
      BY <1>1, <2>2, <3>1 DEF Moves, Relinquish, Shapes
    <3>3. /\ ~Owns(a)
          /\ \A b \in Attempts : lock = mine[b] /\ b # a /\ mine[b] # None => mine[b] \in quar'[a]
      BY <1>1, <2>2 DEF Relinquish, Shapes
    <3>4. \A c \in Attempts : quar[c] \subseteq quar'[c]
      BY <1>1, <2>2 DEF Relinquish, Shapes
    <3>5. QED
      BY <3>1, <3>2, <3>3, <3>4, Zenon
  <2>3. QED
    BY <2>1, <2>2
<1>3. expiries = 0 => Kept
  <2> SUFFICES ASSUME expiries = 0, NEW b \in Attempts, Owns(b) PROVE
        lock = mine[b] \/ InQuarantine(mine[b]) => InQuarantine(mine[b])'
    BY DEF Kept
  <2>1. mine[b] # None /\ mine' = mine /\ b # a
    BY <1>2, OwnersAreActive DEF Moves
  <2>2. QED
    BY <1>2, <2>1 DEF InQuarantine
<1>4. ~crowded' /\ OneHolder => Seen
  <2> HIDE DEF Owns
  <2>1. QED
    BY <1>2 DEF Seen, Moves, Crowds, Overlap
<1>5. QED
  BY <1>1, <1>2, <1>3, <1>4, MoveKeeps

(* Names of quarantines are removed, none of them of an owner: or its lock is back in its
   place, where there was none. *)
LEMMA RemovalsKeep ==
    ASSUME LockInv, NEW a \in Attempts, RemoveLock(a) \/ RestoreLock(a) \/ ReadName(a)
    PROVE  LockInv'
<1>1. Shapes' /\ SitesAgree' /\ Shapes /\ SitesAgree
  BY Shaped DEF Step, LockInv
<1>a. \A b \in Attempts : expiries = 0 /\ Owns(b) =>
         mine[b] \in Files /\ mine[b] # None /\ mine[b][1] = b /\ ~MayBeStale(a, mine[b])
  BY OwnersAreActive
<1>2. Moves /\ crowded' = crowded
  <2>1. CASE RemoveLock(a)
    BY <1>1, <2>1 DEF Moves, RemoveLock, Shapes
  <2>2. CASE RestoreLock(a)
    BY <1>1, <2>2 DEF Moves, RestoreLock, Shapes
  <2>3. CASE ReadName(a)
    <3>1. UNCHANGED <<pc, site>> \/ (pc[a] \in {"reading", "blocked"} /\ Goto(a, "blocked"))
      BY <2>3 DEF ReadName
    <3>2. UNCHANGED <<dead, expired, expiries, fresh, mine, crowded>>
      BY <2>3 DEF ReadName
    <3>3. QED
      BY <1>1, <3>1, <3>2 DEF Moves, Shapes
  <2>4. QED
    BY <2>1, <2>2, <2>3
<1>3. CASE RemoveLock(a) \/ RestoreLock(a)
  <2>1. \A b \in Attempts : Owns(b)' => b # a /\ pc'[b] = pc[b]
    BY <1>1, <1>3 DEF RemoveLock, RestoreLock, Shapes
  <2>2. CASE UNCHANGED <<lock, quar, listed>>
    <3>1. Kept /\ Seen
      BY <2>1, <2>2, <1>2 DEF Kept, Seen, Moves, InQuarantine, Overlap, Sees
    <3>2. QED
      BY <1>1, <1>2, <3>1, MoveKeeps
  <2>3. CASE Drop({<<a, moved[a]>>})
    <3> DEFINE f == moved[a]
    <3>1. \A b, c \in Attempts : mine[b] \in quar[c] /\ <<c, mine[b]>> # <<a, f>> => mine[b] \in quar'[c]
      BY <1>1, <2>3 DEF Drop, Shapes
    <3>2. \A b \in Attempts : expiries = 0 /\ Owns(b) /\ mine[b] = f /\ f \in quar[a] =>
             RestoreLock(a) /\ lock' = f /\ lock \in {None, f}
      <4>1. CASE RemoveLock(a)
        <5>1. f \notin quar[a] \/ MayBeStale(a, f) \/ quar' = quar
          BY <4>1 DEF RemoveLock
        <5>2. f \notin quar'[a]
          BY <2>3 DEF Drop
        <5>3. QED
          BY <1>a, <5>1, <5>2
      <4>2. CASE RestoreLock(a)
        BY <4>2, Zenon DEF RestoreLock
      <4>3. QED
        BY <1>3, <4>1, <4>2
    <3>3. f \notin quar[a] \/ ~RestoreLock(a) => lock' = lock
      BY <1>3 DEF RemoveLock, RestoreLock
    <3>4. f \in quar[a] /\ RestoreLock(a) => lock' = f /\ lock \in {None, f}
      BY DEF RestoreLock
    <3>5. expiries = 0 => Kept
      <4> SUFFICES ASSUME expiries = 0, NEW b \in Attempts, Owns(b),
                          lock = mine[b] \/ InQuarantine(mine[b])
                   PROVE  lock' = mine[b] \/ InQuarantine(mine[b])'
        BY DEF Kept
      <4> HIDE DEF f, Owns
      <4>1. mine[b] # None /\ mine' = mine
        BY <1>a, <1>2 DEF Moves
      <4>2. CASE lock = mine[b]
        BY <4>1, <4>2, <3>3, <3>4
      <4>3. CASE mine[b] = f /\ f \in quar[a]
        BY <4>3, <3>2
      <4>4. CASE InQuarantine(mine[b]) /\ ~(mine[b] = f /\ f \in quar[a])
        BY <4>1, <4>4, <3>1 DEF InQuarantine
      <4>5. QED
        BY <4>2, <4>3, <4>4
    <3>6. expiries = 0 => Seen
      <4> SUFFICES ASSUME expiries = 0, NEW x \in Attempts, NEW y \in Attempts, Owns(x)',
                          Owns(y)', x # y, Overlap(x, y)
                   PROVE  Overlap(x, y)'
        BY DEF Seen
      <4>1. Owns(x) /\ Owns(y) /\ pc'[x] = pc[x] /\ mine' = mine
        BY <1>2, <2>1 DEF Moves
      <4>2. mine[x] # mine[y] /\ mine[x] # None
        BY <1>a, <4>1
      <4> HIDE DEF f, Owns, Holding
      <4>3. PICK c \in Attempts : mine[y] \in quar[c] /\ Sees(x, c, mine[y])
        BY DEF Overlap
      <4>4. lock = mine[x]
        BY DEF Overlap
      <4>5. <<c, mine[y]>> # <<a, f>>
        BY <4>1, <4>2, <4>3, <4>4, <3>2
      <4>6. lock' = mine[x]
        BY <4>2, <4>4, <3>3, <3>4
      <4>7. mine[y] \in quar'[c] /\ Sees(x, c, mine[y])'
        BY <1>1, <2>3, <3>1, <4>1, <4>3, <4>5 DEF Sees, Drop, Shapes, f
      <4>8. QED
        BY <4>1, <4>6, <4>7 DEF Overlap
    <3>7. QED
      BY <1>1, <1>2, <3>5, <3>6, MoveKeeps
  <2>4. QED
    BY <1>3, <2>2, <2>3 DEF RemoveLock, RestoreLock
<1>4. CASE ReadName(a)
  <2>1. PICK n \in listed[a] :
          \/ /\ listed' = [listed EXCEPT ![a] = @ \ {n}] /\ UNCHANGED quar
             /\ Goto(a, "blocked")
          \/ /\ MayBeStale(a, n[2]) /\ Drop({n}) /\ UNCHANGED <<pc, site>>
    BY <1>4 DEF ReadName
  <2>2. n = <<n[1], n[2]>> /\ n[1] \in Attempts /\ n[2] \in Files /\ lock' = lock /\ mine' = mine
    BY <1>1, <1>4, <2>1 DEF Shapes, ReadName
  <2>3. CASE Goto(a, "blocked") /\ UNCHANGED quar /\ listed' = [listed EXCEPT ![a] = @ \ {n}]
    <3>1. Kept
      BY <2>2, <2>3 DEF Kept, InQuarantine
    <3>2. \A b \in Attempts \ {a} : pc'[b] = pc[b] /\ listed'[b] = listed[b]
      BY <1>1, <2>3 DEF Shapes
    <3>3. pc'[a] = "blocked"
      BY <1>1, <2>3 DEF Shapes
    <3>4. \A x, c \in Attempts, f \in Files : Sees(x, c, f) => Sees(x, c, f)'
      BY <3>2, <3>3 DEF Sees
    <3>5. \A y, c \in Attempts : mine[y] \in quar[c] => mine[y] \in Files
      BY <1>1 DEF Shapes
    <3>6. Seen
      BY <2>2, <2>3, <3>4, <3>5 DEF Seen, Overlap
    <3>7. QED
      BY <1>1, <1>2, <3>1, <3>6, MoveKeeps
  <2>4. CASE MayBeStale(a, n[2]) /\ Drop({n}) /\ UNCHANGED <<pc, site>>
    <3>1. \A b, c \in Attempts : expiries = 0 /\ Owns(b) /\ mine[b] \in quar[c] => mine[b] \in quar'[c]
      BY <1>1, <1>a, <2>2, <2>4 DEF Drop, Shapes
    <3>2. \A x, c \in Attempts, f \in Files : <<c, f>> # n /\ Sees(x, c, f) => Sees(x, c, f)'
      BY <1>1, <2>4 DEF Sees, Drop, Shapes
    <3>3. \A b, c \in Attempts : expiries = 0 /\ Owns(b) => <<c, mine[b]>> # n /\ mine[b] \in Files
      BY <1>a, <2>2, <2>4
    <3>4. expiries = 0 => Kept
      <4> HIDE DEF Owns
      <4>1. QED
        BY <2>2, <3>1 DEF Kept, InQuarantine
    <3>5. expiries = 0 => Seen
      <4> HIDE DEF Owns
      <4>1. QED
        BY <1>2, <2>2, <3>1, <3>2, <3>3 DEF Seen, Overlap, Moves
    <3>6. QED
      BY <1>1, <1>2, <3>4, <3>5, MoveKeeps
  <2>5. QED
    BY <2>1, <2>3, <2>4
<1>5. QED
  BY <1>3, <1>4

(* link(ownerPath, path): `path` was free, so the lock of an owner is in a quarantine,
   and this one has its look at them before it. *)
LEMMA PublishKeeps ==
    ASSUME LockInv, NEW a \in Attempts, Publish(a)
    PROVE  LockInv'
<1>1. Shapes' /\ SitesAgree' /\ Shapes /\ SitesAgree
  BY Shaped DEF Step, LockInv
<1>2. CASE Call(a, "fence", "reclaim") /\ UNCHANGED <<lock, mine, expired>>
  <2>1. Quiet
    BY <1>1, <1>2 DEF Publish, Shapes, Quiet
  <2>2. QED
    BY <1>1, <2>1, QuietKeeps
<1>3. ASSUME NEW i \in 1 .. MaxSpares, lock = None, lock' = <<a, i>>, mine' = [mine EXCEPT ![a] = <<a, i>>],
             expired' = expired \ {<<a, i>>}, Call(a, "quarantine", "published")
      PROVE  LockInv'
  <2>1. /\ UNCHANGED <<quar, listed, dead, fresh, expiries, crowded>>
        /\ mine'[a] = <<a, i>> /\ lock' = mine'[a] /\ ~Owns(a) /\ pc'[a] = "quarantine"
        /\ \A b \in Attempts \ {a} : mine'[b] = mine[b]
        /\ \A b \in Attempts : pc'[b] \in Holding => pc[b] \in Holding
        /\ \A b \in Attempts \ {a} : Owns(b)' => Owns(b) /\ mine[b] # None
    BY <1>1, <1>3 DEF Publish, Shapes
  <2> HIDE DEF Owns
  <2>2. LocksKept => LocksKept'
    BY <1>3, <2>1 DEF LocksKept, InQuarantine, ProcessLives, Writer
  <2>3. LocksKept /\ OneHolder => OneHolder'
    <3> SUFFICES ASSUME LocksKept, OneHolder PROVE OneHolder'
      OBVIOUS
    <3>1. \A x, y \in Attempts \ {a} : Owns(x)' /\ Owns(y)' => x = y
      BY <1>3, <2>1 DEF OneHolder, Overlap
    <3>2. \A y \in Attempts \ {a} : Owns(y)' => Overlap(a, y)'
      BY <1>3, <2>1 DEF LocksKept, InQuarantine, Overlap, Sees
    <3>3. QED
      BY <2>1, <3>1, <3>2 DEF OneHolder
  <2>4. QED
    BY <1>1, <2>1, <2>2, <2>3 DEF LockInv
<1>4. QED
  BY <1>2, <1>3 DEF Publish

(* readdir: the name of every owner's lock that is not in its place is listed; with no
   name there is no other owner. *)
LEMMA ListKeeps ==
    ASSUME LockInv, NEW a \in Attempts, ListNames(a)
    PROVE  LockInv'
<1>1. Shapes' /\ SitesAgree' /\ Shapes /\ SitesAgree
  BY Shaped DEF Step, LockInv
<1>2. /\ UNCHANGED <<lock, quar, mine, dead, expired, expiries, crowded>> /\ pc[a] = "quarantine"
      /\ \A b \in Attempts \ {a} : pc'[b] = pc[b] /\ site'[b] = site[b] /\ listed'[b] = listed[b]
      /\ fresh \subseteq fresh' /\ (Owns(a)' => Owns(a))
  BY <1>1 DEF ListNames, NotBlocked, Shapes
<1>3. LocksKept => LocksKept'
  <2>1. \A b \in Attempts : Owns(b)' => Owns(b)
    BY <1>2
  <2> HIDE DEF Owns
  <2>2. QED
    BY <1>2, <2>1 DEF LocksKept, InQuarantine, ProcessLives, Writer
<1>4. OneHolder => OneHolder'
  <2> SUFFICES ASSUME OneHolder PROVE OneHolder'
    OBVIOUS
  <2>1. \A x, y \in Attempts : x # a /\ Overlap(x, y) => Overlap(x, y)'
    BY <1>2 DEF Overlap, Sees
  <2>a. \A b, c \in Attempts : mine[b] \in quar[c] => <<c, mine[b]>> \in Names
    <3>1. \A c \in Attempts, f \in Files : f \in quar[c] => <<c, f>> \in Names
      BY DEF Names
    <3>2. QED
      BY <1>1, <3>1 DEF Shapes
  <2>2. \A y \in Attempts : Overlap(a, y) => Names # {} /\ \E c \in Attempts : mine[y] \in quar[c] /\ <<c, mine[y]>> \in Names
    BY <2>a DEF Overlap
  <2>3. \A y \in Attempts : Overlap(y, a) => Names # {}
    BY <2>a DEF Overlap
  <2>4. CASE Names # {}
    <3>1. pc'[a] = "reading" /\ listed'[a] = Names /\ fresh' = fresh
      BY <1>1, <2>4 DEF ListNames, Shapes
    <3>2. \A y \in Attempts : Overlap(a, y) => Overlap(a, y)'
      BY <1>2, <2>2, <3>1 DEF Overlap, Sees
    <3>3. \A b \in Attempts : /\ Owns(b)' => Owns(b)
                              /\ pc'[b] \in Holding => pc[b] \in Holding
      BY <1>2, <3>1
    <3> HIDE DEF Owns, Holding
    <3>4. \A x, y \in Attempts : Overlap(x, y) => Overlap(x, y)'
      BY <2>1, <3>2
    <3>5. QED
      BY <3>1, <3>3, <3>4 DEF OneHolder
  <2>5. CASE Names = {}
    <3>1. NotBlocked(a)
      BY <2>5 DEF ListNames
    <3>2. CASE Owns(a)
      <4>1. \A b \in Attempts \ {a} : ~Owns(b) /\ ~Owns(b)'
        BY <1>2, <2>2, <2>3, <2>5, <3>2 DEF OneHolder
      <4>2. pc'[a] \in Holding => a \in fresh'
        BY <1>1, <3>1 DEF NotBlocked, Shapes
      <4>3. QED
        BY <4>1, <4>2 DEF OneHolder
    <3>3. CASE ~Owns(a)
      <4>1. ~Owns(a)' /\ \A b \in Attempts : /\ Owns(b)' => Owns(b) /\ b # a
                                             /\ pc'[b] \in Holding => pc[b] \in Holding
        BY <1>2, <3>3
      <4> HIDE DEF Owns, Holding
      <4>2. fresh \subseteq fresh'
        BY <1>2
      <4>3. \A x, y \in Attempts : Owns(x)' /\ Owns(y)' /\ x # y => Overlap(x, y)' \/ Overlap(y, x)'
        BY <2>1, <4>1 DEF OneHolder
      <4>4. \A x \in Attempts : pc'[x] \in Holding => x \in fresh'
        BY <4>1, <4>2 DEF OneHolder
      <4>5. QED
        BY <4>3, <4>4 DEF OneHolder
    <3>4. QED
      BY <3>2, <3>3
  <2>6. QED
    BY <2>4, <2>5
<1>5. QED
  BY <1>1, <1>2, <1>3, <1>4 DEF LockInv

(* The end of a look that found nothing: whoever has his lock in a quarantine was not
   to be found, so he is no owner; and the one who has his in its place will find this
   one. *)
LEMMA EndLookKeeps ==
    ASSUME LockInv, NEW a \in Attempts, EndLook(a)
    PROVE  LockInv'
<1>1. Shapes' /\ SitesAgree' /\ Shapes /\ SitesAgree
  BY Shaped DEF Step, LockInv
<1>2. /\ UNCHANGED <<lock, quar, listed, mine, dead, expired, expiries, crowded>>
      /\ pc[a] \in {"reading", "blocked"} /\ listed[a] = {} /\ fresh \subseteq fresh'
      /\ \A b \in Attempts \ {a} : pc'[b] = pc[b] /\ site'[b] = site[b]
  BY <1>1 DEF EndLook, Blocked, NotBlocked, Shapes
<1>3. /\ Owns(a)' => Owns(a) /\ pc[a] = "reading"
      /\ pc'[a] \in Holding => a \in fresh'
  <2>1. CASE pc[a] = "blocked"
    <3>1. Blocked(a)
      BY <2>1 DEF EndLook
    <3>2. pc'[a] \in {"fence", "relinquish"}
      BY <1>1, <3>1 DEF Blocked, Shapes
    <3>3. QED
      BY <3>2
  <2>2. CASE pc[a] = "reading"
    <3>1. NotBlocked(a)
      BY <2>2 DEF EndLook
    <3>2. QED
      BY <1>1, <2>2, <3>1 DEF NotBlocked, Shapes
  <2>3. QED
    BY <1>2, <2>1, <2>2
<1>4. \A b \in Attempts : Owns(b)' => Owns(b)
  BY <1>2, <1>3
<1>5. \A b \in Attempts \ {a} : pc'[b] \in Holding => pc[b] \in Holding
  BY <1>2
<1>6. \A x, y \in Attempts : Owns(x)' /\ Owns(y)' /\ Overlap(x, y) => Overlap(x, y)'
  BY <1>2, <1>3 DEF Overlap, Sees
<1> HIDE DEF Owns, Holding
<1>7. LocksKept => LocksKept'
  BY <1>2, <1>4 DEF LocksKept, InQuarantine, ProcessLives, Writer
<1>8. OneHolder => OneHolder'
  BY <1>2, <1>3, <1>4, <1>5, <1>6 DEF OneHolder
<1>9. QED
  BY <1>1, <1>2, <1>7, <1>8 DEF LockInv

(* A commit makes what everybody else has read stale, but nobody else has the lock. *)
LEMMA CommitKeeps ==
    ASSUME LockInv, NEW a \in Attempts, Commit(a)
    PROVE  LockInv'
<1>1. Shapes' /\ SitesAgree' /\ Shapes
  BY Shaped DEF Step, LockInv
<1>2. /\ UNCHANGED <<lock, quar, listed, mine, dead, expired, expiries, crowded>> /\ pc[a] \in Holding
      /\ ~Owns(a)' /\ pc'[a] \notin Holding
      /\ \A b \in Attempts \ {a} : pc'[b] = pc[b] /\ site'[b] = site[b]
  BY <1>1 DEF Commit, Shapes
<1>3. \A b \in Attempts : Owns(b)' => Owns(b) /\ b # a
  BY <1>2
<1>4. \A x, y \in Attempts : x # a /\ Overlap(x, y) => Overlap(x, y)'
  BY <1>2 DEF Overlap, Sees
<1>5. OneHolder => \A b \in Attempts : pc[b] \in Holding => b = a
  BY <1>2 DEF OneHolder, Overlap, Sees
<1> HIDE DEF Owns
<1>6. LocksKept => LocksKept'
  BY <1>2, <1>3 DEF LocksKept, InQuarantine, ProcessLives, Writer
<1>7. OneHolder => OneHolder'
  BY <1>2, <1>3, <1>4, <1>5 DEF OneHolder
<1>8. QED
  BY <1>1, <1>2, <1>6, <1>7 DEF LockInv

(* What an attempt removes from the quarantines is its own. *)
LEMMA RemoveOwnKeeps ==
    ASSUME LockInv, NEW a \in Attempts, RemoveOwn(a)
    PROVE  LockInv'
<1>1. Shapes' /\ SitesAgree' /\ Shapes /\ SitesAgree
  BY Shaped DEF Step, LockInv
<1>2. Again(a) \/ Goto(a, "failed") \/ Goto(a, "done")
  <2>1. CASE site[a] = "backoff"
    BY <2>1 DEF RemoveOwn
  <2>2. CASE site[a] = "giveup"
    BY <2>2 DEF RemoveOwn
  <2>3. CASE site[a] \in {"release", "unlock"}
    BY <2>3 DEF RemoveOwn
  <2>4. QED
    BY <1>1, <2>1, <2>2, <2>3 DEF SitesAgree, RemoveOwn
<1>3. /\ UNCHANGED <<lock, dead, expired, expiries, crowded>> /\ fresh' = fresh \ {a}
      /\ ~Owns(a)' /\ ~Owns(a) /\ pc'[a] \notin Holding
      /\ \A b \in Attempts \ {a} : /\ pc'[b] = pc[b] /\ site'[b] = site[b] /\ mine'[b] = mine[b]
                                   /\ Owns(b) => mine[b] # mine[a]
  BY <1>1, <1>2 DEF RemoveOwn, Shapes
<1>4. /\ \A b \in Attempts : quar'[b] = {f \in quar[b] : <<b, f>> \notin Attempts \X {mine[a]}}
      /\ \A b \in Attempts : listed'[b] = listed[b] \ (Attempts \X {mine[a]})
  BY DEF RemoveOwn, Drop
<1>5. \A b \in Attempts : Owns(b)' => Owns(b) /\ b # a
  BY <1>3
<1>6. \A c \in Attempts : \A f \in quar[c] : f # mine[a] => f \in quar'[c]
  BY <1>4
<1>7. \A x, y \in Attempts : Owns(x)' /\ Owns(y)' /\ Overlap(x, y) => Overlap(x, y)'
  BY <1>3, <1>4, <1>5 DEF Overlap, Sees
<1> HIDE DEF Owns
<1>8. LocksKept => LocksKept'
  BY <1>3, <1>5, <1>6 DEF LocksKept, InQuarantine, ProcessLives, Writer
<1>9. OneHolder => OneHolder'
  BY <1>3, <1>5, <1>7 DEF OneHolder
<1>10. QED
  BY <1>1, <1>3, <1>8, <1>9 DEF LockInv

(* The death of a process takes its attempts out of the protocol; its files stay. *)
LEMMA CrashKeeps ==
    ASSUME LockInv, NEW p \in Processes, Crash(p)
    PROVE  LockInv'
<1>1. Shapes /\ SitesAgree
  BY DEF LockInv
<1>2. /\ UNCHANGED <<lock, quar, mine, expired, expiries, site, crowded>> /\ dead' = dead \cup {p}
      /\ \A b \in Attempts :
           IF ProcessOf[b] = p THEN pc'[b] = "failed"
           ELSE pc'[b] = pc[b] /\ listed'[b] = listed[b] /\ (b \in fresh => b \in fresh')
  BY DEF Crash
<1>3. Shapes'
  BY <1>1, <1>2 DEF Crash, Shapes
<1>4. SitesAgree'
  BY <1>1, <1>2 DEF SitesAgree
<1>5. \A b \in Attempts : Owns(b)' => Owns(b) /\ ProcessOf[b] # p
  BY <1>2
<1>6. \A x, y \in Attempts : Owns(x)' /\ Overlap(x, y) => Overlap(x, y)'
  BY <1>2, <1>5 DEF Overlap, Sees
<1>7. \A b \in Attempts : pc'[b] \in Holding => pc[b] \in Holding /\ (b \in fresh => b \in fresh')
  BY <1>2
<1> HIDE DEF Owns, Holding
<1>8. LocksKept => LocksKept'
  BY <1>2, <1>5 DEF LocksKept, InQuarantine, ProcessLives, Writer
<1>9. OneHolder => OneHolder'
  BY <1>5, <1>6, <1>7 DEF OneHolder
<1>10. QED
  BY <1>2, <1>3, <1>4, <1>8, <1>9 DEF LockInv

(* The lease of a lock ends: that of a dead owner, or there is one expiry more. *)
LEMMA ExpireKeeps ==
    ASSUME LockInv, NEW f \in Files, Expire(f)
    PROVE  LockInv'
<1>1. Shapes' /\ SitesAgree'
  BY DEF LockInv, Expire, Shapes, SitesAgree, attemptVars
<1>2. expiries' = 0 => expiries = 0 /\ ~ProcessLives(f)
  BY DEF LockInv, Shapes, Expire
<1>3. expiries' = 0 => LocksKept'
  BY <1>2 DEF LockInv, LocksKept, InQuarantine, Expire, ProcessLives, Writer, attemptVars
<1>4. expiries' = 0 /\ ~crowded' => OneHolder'
  BY <1>2 DEF LockInv, OneHolder, Overlap, Sees, Expire, attemptVars
<1>5. QED
  BY <1>1, <1>3, <1>4 DEF LockInv

-----------------------------------------------------------------------------
(***************************************************************************)
(* The theorems                                                            *)
(***************************************************************************)
LEMMA LockInit == Init => LockInv
<1> SUFFICES ASSUME Init PROVE LockInv
  OBVIOUS
<1>1. Left \subseteq Files
  BY LockAssumption DEF Left, Files
<1>2. Shapes
  BY <1>1 DEF Init, Shapes
<1>3. SitesAgree /\ LocksKept /\ OneHolder
  BY DEF Init, SitesAgree, LocksKept, OneHolder
<1>4. QED
  BY <1>2, <1>3 DEF LockInv

LEMMA LockNext == LockInv /\ [Next]_vars => LockInv'
<1> SUFFICES ASSUME LockInv, [Next]_vars PROVE LockInv'
  OBVIOUS
<1>1. ASSUME NEW a \in Attempts, Begin(a) \/ Step(a) \/ TimeOut(a) PROVE LockInv'
  BY <1>1, QuietSteps, AsideKeeps, RemovalsKeep, PublishKeeps, ListKeeps, EndLookKeeps,
     CommitKeeps, RemoveOwnKeeps
  DEF Step
<1>2. ASSUME NEW p \in Processes, Crash(p) PROVE LockInv'
  BY <1>2, CrashKeeps
<1>3. ASSUME NEW f \in Files, Expire(f) PROVE LockInv'
  BY <1>3, ExpireKeeps
<1>4. CASE UNCHANGED vars
  <2>1. Shapes' /\ SitesAgree'
    BY <1>4 DEF vars, attemptVars, LockInv, Shapes, SitesAgree
  <2>2. Quiet
    BY <1>4 DEF vars, attemptVars, Quiet
  <2>3. QED
    BY <2>1, <2>2, QuietKeeps
<1>5. QED
  BY <1>1, <1>2, <1>3, <1>4 DEF Next

(* The inductive invariant: the lock of a live owner is never lost, and as long as nobody
   moves aside the lock of one of two owners, the one that has his in its place has yet to
   find that of the other, so that one at most has passed its look at the quarantines. *)
THEOREM LockInvariant == Spec => []LockInv
<1>1. Init => LockInv
  BY LockInit
<1>2. LockInv /\ [Next]_vars => LockInv'
  BY LockNext
<1>3. QED
  BY <1>1, <1>2, PTL DEF Spec

(* acquireStateLock and withStateLock: however many processes find the lock of one that
   died, and wherever they are killed, one at most is between the check of its lock and the
   release of its fence, and what it publishes was computed from the file as it is then, as
   long as the heartbeat keeps the leases of live owners and no lock is moved aside while
   two live attempts have one published: then hasBlockingQuarantine may miss a lock. *)
THEOREM LocksAreSafe == Spec => [](expiries = 0 /\ ~crowded => LockSafety)
<1>1. LockInv => (expiries = 0 /\ ~crowded => LockSafety)
  <2> SUFFICES ASSUME LockInv, expiries = 0, ~crowded PROVE LockSafety
    OBVIOUS
  <2>1. \A a, b \in Attempts : pc[a] \in Holding /\ pc[b] \in Holding => a = b
    BY DEF LockInv, OneHolder, Overlap, Sees
  <2>2. QED
    BY <2>1 DEF LockInv, OneHolder, LockSafety, MutualExclusion, NoStaleCommit, InSection
<1>2. QED
  BY <1>1, LockInvariant, PTL
=============================================================================

---------------------------- MODULE Provisioning ----------------------------
(***************************************************************************)
(* How a Unix account of the host gets its Relay route and keeps it: the   *)
(* rootless provisioner, a daemon that answers request files in a shared   *)
(* directory; the sudo helper that a first pairing falls back to; root's   *)
(* installation of the Administrator Controller; and the clients, which    *)
(* are `ce device pair` and the renewal loops of the users' Agents and of  *)
(* the Controller.                                                         *)
(*                                                                         *)
(* A capability names the route, the account and the provisioner's         *)
(* credential that signed it, and ends with that credential.  Credentials  *)
(* are numbered in the order in which they are issued and end.             *)
(*                                                                         *)
(* The daemon handles one request at a time and alone writes the           *)
(* registries of routes; root, the clients and a rotation of credentials   *)
(* run beside it in other processes, each file is replaced atomically, and *)
(* any process can be killed between two of its steps.                     *)
(***************************************************************************)
EXTENDS Naturals, FiniteSets

CONSTANTS Uids,         \* Unix user ids
          Names,        \* login names
          Administrator,\* the account the Controller runs as: [uid, name]
          Handle,       \* the administrator's name at the Relay
          Controller,   \* the Controller's renewal loop, as a client
          None,         \* no login name
          Scenes,       \* bounds: [clients, credentials, budget], one of which a behaviour keeps:
                        \* who acts, the credentials issued, and how many deaths, late
                        \* answers, wiped homes and changed accounts there are
          MaxFiles      \* bound: requests and answers on disk at a time

ASSUME ProvisioningAssumption ==
  /\ Controller \notin Uids /\ Administrator.uid \in Uids
  /\ \A s \in Scenes : s.clients \subseteq Uids \cup {Controller}

VARIABLES login,        \* the host's accounts: uid -> login name
          expired,      \* the credentials that have ended are 1..expired
          scene,        \* the bounds of this behaviour
          rootless,     \* the daemon's configuration: [active, kept]
          root,         \* the credential of the sudo helper and of root
          registered,   \* managed_users of the daemon's database and of root's: [by, uid, name]
          bindings,     \* route-bindings.json and admin-route-bindings.json
          up,           \* the daemon runs
          descriptor,   \* its descriptor file is there
          job,          \* the request it is handling
          requests, answers,     \* the two shared directories
          client,       \* what each client is doing
          held,         \* the capability in each client's configuration
          installation, \* the route root has registered for the Controller; 0: none
          installer,    \* root's installation: [at, grant]
          routes,       \* random routes drawn so far
          budget,       \* for the bound
          known,        \* ghost: credentials the daemon was ever given
          granted       \* ghost: what was handed out, by whom to whom

clock   == <<expired, scene>>
daemon  == <<up, descriptor, job>>
stores  == <<rootless, root, registered, bindings>>
files   == <<requests, answers>>
rooted  == <<installation, installer>>
ghosts  == <<known, granted>>
vars    == <<login, clock, stores, daemon, files, client, held, rooted, routes, budget, ghosts>>

Clients == Uids \cup {Controller}
Owner(c) == IF c = Controller THEN Administrator.uid ELSE c
NoCap  == [route |-> 0, cred |-> 0, name |-> None]
NoJob  == [at |-> "none"]
Idle   == [at |-> "idle", id |-> 0, op |-> "none", grant |-> NoCap]
Expired == 1..expired
Spend  == budget < scene.budget /\ budget' = budget + 1

TypeOK ==
  /\ login \in [Uids -> Names \cup {None}]
  /\ expired \in 0..scene.credentials /\ scene \in Scenes
  /\ rootless.active \in 1..scene.credentials /\ rootless.kept \subseteq 1..scene.credentials
  /\ \A b \in bindings : \A o \in bindings : (b.kind = o.kind /\ b.route = o.route) => b = o
  /\ \A m \in registered, o \in registered :
       (m.by = o.by /\ (m.uid = o.uid \/ m.name = o.name)) => m = o
  /\ up \in BOOLEAN /\ descriptor \in BOOLEAN
  /\ \A r \in requests : r.id \in 1..MaxFiles
  /\ \A c \in Clients : client[c].at \in {"idle", "waiting", "apply"} /\ held[c].cred \in 0..scene.credentials
  /\ installer.at \in {"idle", "config", "publish"}

Init ==
  /\ login = [u \in Uids |-> IF u = Administrator.uid THEN Administrator.name ELSE None]
  /\ expired = 0 /\ scene \in Scenes
  /\ rootless = [active |-> 1, kept |-> {}] /\ root = 1 /\ known = {1}
  /\ registered = {} /\ bindings = {} /\ granted = {}
  /\ up \in BOOLEAN /\ descriptor = up /\ job = NoJob
  /\ requests = {} /\ answers = {}
  /\ client = [c \in Clients |-> Idle] /\ held = [c \in Clients |-> NoCap]
  /\ installation = 0 /\ installer = [at |-> "idle", grant |-> NoCap]
  /\ routes = 0 /\ budget = 0

-----------------------------------------------------------------------------
(* Credentials.  The new one becomes active, and every other that has not
   ended stays for verifying what it signed. *)

MutKept(c) == {rootless.active} \ (Expired \cup {c})
Kept(c) == ({rootless.active} \cup rootless.kept) \ (Expired \cup {c})

\* ce provisioner install, under the configuration's lock
InstallRootless(c) ==
  /\ c \notin Expired /\ c > rootless.active
  /\ rootless' = [active |-> c, kept |-> Kept(c)]
  /\ known' = known \cup {c}
  /\ UNCHANGED <<login, clock, root, registered, bindings, daemon, files, client, held, rooted, routes, budget, granted>>

\* the daemon's maintenance, under the same lock
Prune ==
  /\ up /\ job = NoJob
  /\ rootless.kept \cap Expired # {}
  /\ rootless' = [rootless EXCEPT !.kept = @ \ Expired]
  /\ UNCHANGED <<login, clock, root, registered, bindings, daemon, files, client, held, rooted, routes, budget, ghosts>>

\* ce admin install-provisioner, by root
InstallRoot(c) ==
  /\ c \notin Expired /\ c > root
  /\ root' = c
  /\ UNCHANGED <<login, clock, rootless, registered, bindings, daemon, files, client, held, rooted, routes, budget, ghosts>>

\* the oldest credential ends
Expire ==
  /\ expired < scene.credentials - 1 /\ expired' = expired + 1
  /\ UNCHANGED <<login, scene, stores, daemon, files, client, held, rooted, routes, budget, ghosts>>

-----------------------------------------------------------------------------
(* AdminRepository.register: a row for an account that is new to the database, none
   and an error for one whose uid or name has a row of another account.  No command
   removes a row, and none changes a status in these two databases, which are not the
   Controller's. *)

Conflict(by, u, n) ==
  \E m \in registered : m.by = by /\ (m.uid = u \/ m.name = n) /\ (m.uid # u \/ m.name # n)

Register(by, u, n) ==
  registered' = IF Conflict(by, u, n) THEN registered
                ELSE registered \cup {[by |-> by, uid |-> u, name |-> n]}

-----------------------------------------------------------------------------
(* The decision on a request, from what the daemon loaded when it took it. *)

\* a capability is worth the credential that signed it, which must be here and in force
Signed(route, cred, name) == [route |-> route, cred |-> cred, name |-> name]
Verifies(j, name) == j.cap.cred \in ({j.active} \cup j.kept) \ j.ended /\ j.cap.name = name
Eligible(j) == j.login # None /\ j.active \notin j.ended

Touching(j, kind) == {b \in bindings : b.kind = kind /\ (b.uid = j.uid \/ b.name = j.login)}
Own(j, kind)      == {b \in bindings : b.kind = kind /\ b.uid = j.uid /\ b.name = j.login}

\* resolveProvisionedRouteBinding: the route of the grant; 0: draw a new one; nothing: refuse
UserRoutes(j) ==
  IF Touching(j, "user") # {}
  THEN IF Touching(j, "user") = Own(j, "user")
       THEN {b.route : b \in {o \in Own(j, "user") : j.op = "renew" => j.cap.route = o.route}}
       ELSE {}
  ELSE IF j.op = "initialize" THEN {0}
  ELSE IF Verifies(j, j.login) THEN {j.cap.route} ELSE {}

Registered(j) ==
  j.installation # 0 /\ j.uid = Administrator.uid /\ j.login = Administrator.name

\* the first renewal of the Controller proves its route with its capability
InitialAdminRoutes(j) == IF Verifies(j, Handle) THEN {j.installation} ELSE {}

\* issueAdminRouteRenewalGrantForAccount
AdminRoutes(j) ==
  IF ~Registered(j) \/ j.cap.name # Handle \/ j.cap.route # j.installation THEN {}
  ELSE IF Touching(j, "admin") = {} THEN InitialAdminRoutes(j)
  ELSE {b.route : b \in {o \in Own(j, "admin") : o.route = j.installation}}

RoutesFor(j) ==
  IF ~Eligible(j) THEN {}
  ELSE IF j.op = "admin" THEN AdminRoutes(j)
  ELSE IF j.conflict THEN {} ELSE UserRoutes(j)

MutSaved(j, route) == bindings
Saved(j, route) ==
  {b \in bindings : b.kind # "user" \/ (b.uid # j.uid /\ b.name # j.login)}
    \cup {[kind |-> "user", uid |-> j.uid, name |-> j.login, route |-> route]}
SavedAdmin(j, route) ==
  {b \in bindings : b.kind # "admin" \/ (b.uid # j.uid /\ b.name # j.login /\ b.route # route)}
    \cup {[kind |-> "admin", uid |-> j.uid, name |-> j.login, route |-> route]}

-----------------------------------------------------------------------------
(* The daemon. *)

Waiting(id) == \E c \in Clients : client[c].at = "waiting" /\ client[c].id = id

\* it opens a file, learns its owner, loads the configurations it decides from, and
\* enters a user it may serve in its database
Take(r) ==
  /\ up /\ job = NoJob
  /\ LET name == login[r.uid]
         user == r.op # "admin" /\ name # None /\ rootless.active \notin Expired
     IN  /\ job' = [at |-> "loaded", id |-> r.id, op |-> r.op, cap |-> r.cap, uid |-> r.uid,
                    login |-> name, active |-> rootless.active, kept |-> rootless.kept,
                    ended |-> Expired, installation |-> installation, known |-> known,
                    conflict |-> Conflict("daemon", r.uid, name)]
         /\ IF user THEN Register("daemon", r.uid, name) ELSE UNCHANGED registered
  /\ UNCHANGED <<login, clock, rootless, root, bindings, up, descriptor, files, client, held, rooted, routes, budget, ghosts>>

\* the decision, the signature and the registry
Decide ==
  /\ job.at = "loaded"
  /\ LET found == RoutesFor(job)
         route == IF 0 \in found THEN routes + 1 ELSE CHOOSE x \in found : TRUE
         name  == IF job.op = "admin" THEN Handle ELSE job.login
     IN  IF found = {}
         THEN /\ job' = [at |-> "answer", id |-> job.id, op |-> job.op, uid |-> job.uid,
                         login |-> job.login, ok |-> FALSE, cap |-> NoCap]
              /\ UNCHANGED <<bindings, routes>>
         ELSE /\ job' = [at |-> "answer", id |-> job.id, op |-> job.op, uid |-> job.uid,
                         login |-> job.login, ok |-> TRUE,
                         cap |-> Signed(route, job.active, name)]
              /\ bindings' = IF job.op = "admin" THEN SavedAdmin(job, route) ELSE Saved(job, route)
              /\ routes' = IF 0 \in found THEN routes + 1 ELSE routes
  /\ UNCHANGED <<login, clock, rootless, root, registered, up, descriptor, files, client, held, rooted, budget, ghosts>>

Respond ==
  /\ job.at = "answer"
  /\ answers' = {a \in answers : a.id # job.id} \cup {[id |-> job.id, ok |-> job.ok, cap |-> job.cap]}
  /\ granted' = IF job.ok
                THEN granted \cup {[kind |-> IF job.op = "admin" THEN "admin" ELSE "user",
                                    uid |-> job.uid, name |-> job.login, route |-> job.cap.route]}
                ELSE granted
  /\ job' = [at |-> "remove", id |-> job.id]
  /\ UNCHANGED <<login, clock, stores, up, descriptor, requests, client, held, rooted, routes, budget, known>>

\* the request file goes, whatever came of it
Remove ==
  /\ job.at = "remove"
  /\ requests' = {r \in requests : r.id # job.id}
  /\ job' = NoJob
  /\ UNCHANGED <<login, clock, stores, up, descriptor, answers, client, held, rooted, routes, budget, ghosts>>

\* a request that has become too old is removed without an answer
Discard(r) ==
  /\ up /\ job = NoJob /\ ~Waiting(r.id)
  /\ requests' = requests \ {r}
  /\ UNCHANGED <<login, clock, stores, daemon, answers, client, held, rooted, routes, budget, ghosts>>

\* an answer nobody reads any more
CleanupExpiredResponses ==
  /\ up /\ job = NoJob
  /\ \E a \in answers : ~Waiting(a.id) /\ answers' = answers \ {a}
  /\ UNCHANGED <<login, clock, stores, daemon, requests, client, held, rooted, routes, budget, ghosts>>

\* the watchdog; a configuration whose credential has ended does not load
Start ==
  /\ ~up /\ rootless.active \notin Expired
  /\ up' = TRUE /\ descriptor' = TRUE
  /\ UNCHANGED <<login, clock, stores, job, files, client, held, rooted, routes, budget, ghosts>>

\* SIGTERM is seen between two requests; the descriptor goes with the process
Stop ==
  /\ up /\ job = NoJob /\ Spend
  /\ up' = FALSE /\ descriptor' = FALSE
  /\ UNCHANGED <<login, clock, stores, job, files, client, held, rooted, routes, ghosts>>

\* a killed daemon leaves its descriptor and the file it was working on
Die ==
  /\ up /\ Spend
  /\ up' = FALSE /\ job' = NoJob
  /\ UNCHANGED <<login, clock, stores, descriptor, files, client, held, rooted, routes, ghosts>>
-----------------------------------------------------------------------------
(* The clients. *)

\* the daemon's descriptor is there, and it and the directories belong to its account
Reachable == descriptor

FreeIds == (1..MaxFiles) \ ({r.id : r \in requests} \cup {a.id : a \in answers}
                            \cup {client[c].id : c \in Clients})

Post(c, op) ==
  /\ FreeIds # {}
  /\ LET id == CHOOSE i \in FreeIds : TRUE
     IN  /\ requests' = requests \cup {[id |-> id, op |-> op, uid |-> Owner(c), cap |-> held[c]]}
         /\ client' = [client EXCEPT ![c] = [at |-> "waiting", id |-> id, op |-> op, grant |-> held[c]]]

\* ce device pair on a host without a Relay transport
Pair(c) ==
  /\ c \in Uids /\ login[c] # None
  /\ client[c] = Idle /\ held[c] = NoCap
  /\ Reachable /\ Post(c, "initialize")
  /\ UNCHANGED <<login, clock, stores, daemon, answers, held, rooted, routes, budget, ghosts>>

\* the sudo helper: a new route, signed with root's credential, for an account it can
\* enter in root's database; the route is entered nowhere
SudoGrant(c) ==
  IF root \in Expired \/ login[c] = None
  THEN UNCHANGED <<held, routes, registered>>
  ELSE /\ Register("root", c, login[c])
       /\ IF Conflict("root", c, login[c])
          THEN UNCHANGED <<held, routes>>
          ELSE /\ held' = [held EXCEPT ![c] = Signed(routes + 1, root, login[c])]
               /\ routes' = routes + 1

\* without a descriptor the helper is asked at once
PairBySudo(c) ==
  /\ c \in Uids /\ login[c] # None
  /\ client[c] = Idle /\ held[c] = NoCap
  /\ ~Reachable /\ SudoGrant(c)
  /\ UNCHANGED <<login, clock, rootless, root, bindings, daemon, files, client, rooted, budget, ghosts>>

\* an attempt of a renewal loop
Renew(c) ==
  /\ client[c] = Idle /\ held[c] # NoCap
  /\ login[Owner(c)] # None /\ (c = Controller => login[Owner(c)] = Administrator.name)
  /\ Reachable /\ Post(c, IF c = Controller THEN "admin" ELSE "renew")
  /\ UNCHANGED <<login, clock, stores, daemon, answers, held, rooted, routes, budget, ghosts>>

\* the loop's next attempt is scheduled whatever came of this one
MutRescheduled == [Idle EXCEPT !.op = "stopped"]
Rescheduled == Idle

\* nobody answered in time: a first pairing asks sudo, a renewal fails and is tried again
Timeout(c) ==
  /\ client[c].at = "waiting"
  /\ \A a \in answers : a.id # client[c].id
  /\ IF up THEN Spend ELSE UNCHANGED budget
  /\ IF client[c].op = "initialize" THEN SudoGrant(c) ELSE UNCHANGED <<held, routes, registered>>
  /\ client' = [client EXCEPT ![c] = Rescheduled]
  /\ UNCHANGED <<login, clock, rootless, root, bindings, daemon, files, rooted, ghosts>>

\* a renewal is taken only for the same route and the same account, and if it ends later
Extends(old, new) == new.route = old.route /\ new.name = old.name /\ new.cred > old.cred

\* A first grant replaces the transport; a renewal is applied to the capability it
\* was asked with, in one transaction of the configuration, by a user's Agent.  The
\* Controller has no such lock: what it has checked it writes in its next step.
Answer(c) ==
  /\ client[c].at = "waiting"
  /\ \E a \in answers :
       /\ a.id = client[c].id
       /\ LET sent == client[c].grant IN
          IF ~a.ok \/ (client[c].op # "initialize" /\ ~(Extends(sent, a.cap) /\ held[c] = sent))
          THEN client' = [client EXCEPT ![c] = Rescheduled] /\ UNCHANGED held
          ELSE IF c = Controller
          THEN client' = [client EXCEPT ![c] = [at |-> "apply", id |-> @.id, op |-> @.op, grant |-> a.cap]]
               /\ UNCHANGED held
          ELSE /\ held' = [held EXCEPT ![c] = a.cap]
               /\ client' = [client EXCEPT ![c] = Idle]
  /\ UNCHANGED <<login, clock, stores, daemon, files, rooted, routes, budget, ghosts>>

ApplyAdmin ==
  /\ client[Controller].at = "apply"
  /\ held' = [held EXCEPT ![Controller] = client[Controller].grant]
  /\ client' = [client EXCEPT ![Controller] = Idle]
  /\ UNCHANGED <<login, clock, stores, daemon, files, rooted, routes, budget, ghosts>>
-----------------------------------------------------------------------------
(* Root's installation of the Controller, which may be run again. *)

ReinstalledRoute == IF held[Controller] = NoCap THEN routes + 1 ELSE held[Controller].route

InstallController ==
  /\ installer.at = "idle" /\ root \notin Expired
  /\ login[Administrator.uid] = Administrator.name
  /\ Controller \in scene.clients /\ (held[Controller].cred # root \/ installation = 0)
  /\ installer' = [at |-> "config", grant |-> Signed(ReinstalledRoute, root, Handle)]
  /\ routes' = IF ReinstalledRoute > routes THEN ReinstalledRoute ELSE routes
  /\ UNCHANGED <<login, clock, stores, daemon, files, client, held, installation, budget, ghosts>>

\* the private configuration first, then the public registration
WriteConfig ==
  /\ installer.at = "config"
  /\ held' = [held EXCEPT ![Controller] = installer.grant]
  /\ installer' = [installer EXCEPT !.at = "publish"]
  /\ granted' = granted \cup {[kind |-> "admin", uid |-> Administrator.uid,
                               name |-> Administrator.name, route |-> installer.grant.route]}
  /\ UNCHANGED <<login, clock, stores, daemon, files, client, installation, routes, budget, known>>

WritePublicInstallation ==
  /\ installer.at = "publish"
  /\ installation' = installer.grant.route
  /\ installer' = [at |-> "idle", grant |-> NoCap]
  /\ UNCHANGED <<login, clock, stores, daemon, files, client, held, routes, budget, ghosts>>

InstallerDies ==
  /\ installer.at # "idle" /\ Spend
  /\ installer' = [at |-> "idle", grant |-> NoCap]
  /\ UNCHANGED <<login, clock, stores, daemon, files, client, held, installation, routes, ghosts>>
-----------------------------------------------------------------------------
(* The host around them. *)

\* an account is deleted with its home, or created with a free uid and a free name
RemoveAccount(u) ==
  /\ login[u] # None /\ Spend
  /\ login' = [login EXCEPT ![u] = None]
  /\ held' = [held EXCEPT ![u] = NoCap] /\ client' = [client EXCEPT ![u] = Idle]
  /\ UNCHANGED <<clock, stores, daemon, files, rooted, routes, ghosts>>

CreateAccount(u, n) ==
  /\ login[u] = None /\ (\A v \in Uids : login[v] # n) /\ Spend
  /\ login' = [login EXCEPT ![u] = n]
  /\ UNCHANGED <<clock, stores, daemon, files, client, held, rooted, routes, ghosts>>

\* ~/.codex-everywhere is removed; its processes with it
WipeHome(u) ==
  /\ held[u] # NoCap /\ Spend
  /\ held' = [held EXCEPT ![u] = NoCap] /\ client' = [client EXCEPT ![u] = Idle]
  /\ UNCHANGED <<login, clock, stores, daemon, files, rooted, routes, ghosts>>

Daemon ==
  \/ \E r \in requests : Take(r) \/ Discard(r)
  \/ Decide \/ Respond \/ Remove \/ CleanupExpiredResponses \/ Prune \/ Start \/ Stop \/ Die

\* the accounts of those who act in this scene
Concerned(u) == \E c \in scene.clients : u = Owner(c)

ClientStep(c) == Pair(c) \/ PairBySudo(c) \/ Renew(c) \/ Timeout(c) \/ Answer(c)

Operators == Expire \/ \E c \in 1..scene.credentials : InstallRootless(c) \/ InstallRoot(c)

Root == InstallController \/ WriteConfig \/ WritePublicInstallation \/ InstallerDies

Accounts == \E u \in Uids : Concerned(u) /\ (RemoveAccount(u) \/ WipeHome(u) \/ \E n \in Names : CreateAccount(u, n))

Next == Daemon \/ (\E c \in scene.clients : ClientStep(c)) \/ ApplyAdmin \/ Operators \/ Root \/ Accounts

Spec == Init /\ [][Next]_vars

TakeFile(i) == \E r \in requests : r.id = i /\ Take(r)
Acts(c) == c \in scene.clients

\* the daemon's loop, which goes through all the files it finds, its watchdog, the
\* clients' timers and loops, and a started installation go on; nobody need rotate
\* a credential, pair or change an account
Fairness ==
  /\ \A i \in 1..MaxFiles : SF_vars(TakeFile(i))
  /\ WF_vars(Decide \/ Respond \/ Remove \/ Start)
  /\ WF_vars(CleanupExpiredResponses)
  /\ \A c \in Clients : /\ SF_vars(Acts(c) /\ Renew(c))
                        /\ WF_vars(Answer(c) \/ Timeout(c))
  /\ WF_vars(ApplyAdmin) /\ WF_vars(WriteConfig \/ WritePublicInstallation)

FairSpec == Spec /\ Fairness
-----------------------------------------------------------------------------
(* Properties *)

\* One account, one route: whatever the daemon hands to an account, and whatever
\* root and the daemon hand to the Controller, is on the route of its first grant,
\* and no route is handed to two accounts, with the daemon killed between signing,
\* registering and answering, answers lost, homes wiped and accounts recycled
\* (self-provision.ts, admin-route-provisioning.ts, controller-config.ts).
OneRoute ==
  \A g, h \in granted :
    /\ (g.kind = h.kind /\ g.uid = h.uid /\ g.name = h.name) => g.route = h.route
    /\ g.route = h.route => (g.kind = h.kind /\ g.uid = h.uid /\ g.name = h.name)

\* what entitles the daemon to refuse a renewal
Refusable(j) ==
  LET kind == IF j.op = "admin" THEN "admin" ELSE "user" IN
  \/ j.login = None \/ j.active \in j.ended
  \/ j.op # "admin" /\ Conflict("daemon", j.uid, j.login)
  \/ \E b \in Touching(j, kind) : b.uid # j.uid \/ b.name # j.login \/ b.route # j.cap.route
  \/ /\ Touching(j, kind) = {}
     /\ j.cap.cred \in j.ended \/ j.cap.cred \notin j.known
  \/ j.op = "renew" /\ j.cap.name # j.login
  \/ j.op = "admin" /\ (j.login # Administrator.name \/ j.uid # Administrator.uid \/ j.installation # j.cap.route)

\* a client that has everything a renewal needs
Renewable(c) ==
  LET kind == IF c = Controller THEN "admin" ELSE "user"
      name == login[Owner(c)]
  IN  /\ held[c] # NoCap /\ name # None
      /\ held[c].cred \notin Expired /\ held[c].cred \in known
      /\ rootless.active > held[c].cred /\ rootless.active \notin Expired
      /\ \A b \in bindings : (b.kind = kind /\ (b.uid = Owner(c) \/ b.name = name))
                               => (b.uid = Owner(c) /\ b.name = name /\ b.route = held[c].route)
      /\ IF c = Controller THEN name = Administrator.name /\ installation = held[c].route
         ELSE ~Conflict("daemon", c, name)

\* A renewal is refused only for a reason of the account's: a capability on the
\* account's own route is renewed however many credentials were installed since it
\* was signed, as long as the one that signed it has not ended or the route is
\* registered (readRenewalVerificationCredentials, prune, resolve...Binding), unless
\* the uid or the login name was an earlier account's, whose row in managed_users or
\* whose route is never removed: such an account is refused for ever.  And the
\* loops catch up: once a later credential is installed, no capability that can be
\* renewed stays as it is, whatever requests, answers and daemons were lost on the
\* way (startAdminRelayCapabilityRenewalLoop, startRelayCapabilityRenewalLoop).
RenewalCatchesUp ==
  /\ [][(job.at = "loaded" /\ job.op # "initialize" /\ job'.at = "answer" /\ ~job'.ok) => Refusable(job)]_vars
  /\ []<>(\A c \in Clients : ~Renewable(c))
-----------------------------------------------------------------------------
(* The inductive invariant behind OneRoute *)

Domains == DOMAIN client = Clients /\ DOMAIN held = Clients /\ scene \in Scenes

Bound(kind, u, n, route) ==
  \E b \in bindings : b.kind = kind /\ b.uid = u /\ b.name = n /\ b.route = route

\* Who has a claim to a user's route: the registry says so, or a capability in a home,
\* on its way to the daemon, or before it. Route 0 is no route.
Claims ==
  {[uid |-> b.uid, name |-> b.name, route |-> b.route] : b \in {o \in bindings : o.kind = "user"}}
  \cup {[uid |-> u, name |-> held[u].name, route |-> held[u].route] : u \in Uids}
  \cup {[uid |-> q.uid, name |-> q.cap.name, route |-> q.cap.route] :
          q \in {o \in requests : o.op # "admin"}}
  \cup {[uid |-> j.uid, name |-> j.cap.name, route |-> j.cap.route] :
          j \in {o \in {job} : o.at = "loaded" /\ o.op # "admin"}}

OneClaim ==
  \A x, y \in Claims : (x.route = y.route /\ x.route # 0) => (x.uid = y.uid /\ x.name = y.name)

\* Every route was drawn.
Drawn ==
  /\ routes \in Nat
  /\ \A x \in Claims : x.route \in 0..routes
  /\ \A b \in bindings : b.kind \in {"user", "admin"} /\ b.route \in 1..routes

\* The registry has one route for a user.
OneBinding ==
  \A b, o \in bindings :
    (b.kind = "user" /\ o.kind = "user" /\ b.uid = o.uid) => (b.name = o.name /\ b.route = o.route)

\* A request, the job it becomes and the client that waits for it are about the same.
IdsMatch ==
  /\ \A q \in requests : q.id # 0 /\ \A c \in Clients : q.id = client[c].id => (q.uid = Owner(c) /\ q.op = client[c].op)
  /\ job.at \in {"none", "loaded", "answer", "remove"}
  /\ job.at # "none" => \E q \in requests :
        q.id = job.id /\ (job.at \in {"loaded", "answer"} => (q.uid = job.uid /\ q.op = job.op))
  /\ \A c \in Clients : client[c].op # (IF c = Controller THEN "initialize" ELSE "admin")

\* What is granted to a user was registered before, and so was what an answer gives to
\* the user who waits for it.
GrantsBound ==
  /\ \A g \in granted : g.kind \in {"user", "admin"}
                          /\ (g.kind = "user" => Bound("user", g.uid, g.name, g.route))
  /\ (job.at = "answer" /\ job.op # "admin") =>
        (job.ok => Bound("user", job.uid, job.login, job.cap.route) /\ job.cap.name = job.login)
  /\ \A a \in answers : \A u \in Uids :
        (a.ok /\ client[u].at = "waiting" /\ client[u].id = a.id /\ client[u].op = "initialize")
           => Bound("user", u, a.cap.name, a.cap.route)

\* The Controller's route is the one in its configuration, or about to get there.
AdminRoute == IF held[Controller] # NoCap THEN held[Controller].route
              ELSE IF installer.at = "config" THEN installer.grant.route ELSE 0

Admins(b) == b.uid = Administrator.uid /\ b.name = Administrator.name /\ b.route = AdminRoute

AdminKeeps ==
  /\ AdminRoute \in 0..routes
  /\ AdminRoute # 0 => \A x \in Claims : x.route # AdminRoute
  /\ installer.at \in {"idle", "config", "publish"}
  /\ installer.at # "idle" => (installer.grant.route = AdminRoute /\ AdminRoute # 0)
  /\ \A b \in bindings : b.kind = "admin" => Admins(b)
  /\ \A g \in granted : g.kind = "admin" => Admins(g)
  /\ installation \in {0, AdminRoute}
  /\ job.at = "loaded" => job.installation \in {0, AdminRoute}
  /\ (job.at = "answer" /\ job.op = "admin" /\ job.ok) =>
        (job.uid = Administrator.uid /\ job.login = Administrator.name /\ job.cap.route = AdminRoute)
  /\ client[Controller].at = "apply" => client[Controller].grant.route = AdminRoute

\* Before the Controller has its first configuration nothing knows its route, and its
\* configuration is never lost.
NoAdminYet ==
  IF held[Controller] # NoCap THEN held[Controller].route # 0
  ELSE /\ installation = 0 /\ installer.at # "publish"
       /\ \A b \in bindings \cup granted : b.kind # "admin"
       /\ job.at = "loaded" => job.installation = 0
       /\ (job.at = "answer" /\ job.op = "admin") => ~job.ok
       /\ client[Controller].at = "idle"

ProvisioningInv ==
  /\ Domains /\ OneClaim /\ Drawn /\ OneBinding /\ IdsMatch /\ GrantsBound /\ AdminKeeps /\ NoAdminYet
=============================================================================

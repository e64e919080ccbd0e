------------------------- MODULE ProvisioningProofs -------------------------
(***************************************************************************)
(* Proofs about Provisioning, for any users, names and credentials, and    *)
(* any number of deaths, lost answers and changed accounts: the inductive  *)
(* invariant, and that an account has one route and a route one account.   *)
(***************************************************************************)
EXTENDS Provisioning, TLAPS

USE ProvisioningAssumption DEF clock, daemon, stores, files, rooted, ghosts

-----------------------------------------------------------------------------
(***************************************************************************)
(* Steps that add no claim but one                                         *)
(***************************************************************************)
(* A claim to a route nobody has a claim to leaves one owner to every route. *)
LEMMA OneMoreClaim ==
    ASSUME OneClaim, NEW new, \A x \in Claims : x.route # new.route,
           \A x \in Claims' : x \in Claims \/ x = new
    PROVE  OneClaim'
  BY DEF OneClaim

LEMMA NoMoreClaims ==
    ASSUME OneClaim, \A x \in Claims' : x \in Claims \/ x.route = 0
    PROVE  OneClaim'
  BY DEF OneClaim

LEMMA NoNewClaims ==
    ASSUME OneClaim, Drawn, bindings' = bindings, routes' \in Nat, routes' >= routes,
           \A x \in Claims' : x \in Claims \/ x.route = 0
    PROVE  OneClaim' /\ Drawn'
  BY NoMoreClaims DEF Drawn

(* What the sudo helper gives: nothing, or the next route. *)
LEMMA MaybeOneClaim ==
    ASSUME OneClaim, Drawn, bindings' = bindings, routes' \in {routes, routes + 1},
           NEW P, NEW u, NEW n,
           \A x \in Claims' : x \in Claims
              \/ (P /\ routes' = routes + 1 /\ x = [uid |-> u, name |-> n, route |-> routes + 1])
    PROVE  OneClaim' /\ Drawn'
<1> DEFINE new == [uid |-> u, name |-> n, route |-> routes + 1]
<1>1. \A x \in Claims : x.route # new.route
  BY DEF Drawn
<1>2. \A x \in Claims' : x \in Claims \/ (routes' = routes + 1 /\ x = new)
  OBVIOUS
<1>3. OneClaim'
  BY <1>1, <1>2, OneMoreClaim, ZenonT(40)
<1>4. Drawn'
  BY <1>2 DEF Drawn
<1>5. QED
  BY <1>3, <1>4

(* Who has a claim, source by source. *)
LEMMA ClaimSources ==
    /\ \A b \in bindings : b.kind = "user" =>
         [uid |-> b.uid, name |-> b.name, route |-> b.route] \in Claims
    /\ \A u \in Uids : [uid |-> u, name |-> held[u].name, route |-> held[u].route] \in Claims
    /\ \A q \in requests : q.op # "admin" =>
         [uid |-> q.uid, name |-> q.cap.name, route |-> q.cap.route] \in Claims
    /\ (job.at = "loaded" /\ job.op # "admin") =>
         [uid |-> job.uid, name |-> job.cap.name, route |-> job.cap.route] \in Claims
    /\ \A x \in Claims :
         \/ \E b \in bindings : b.kind = "user" /\ x = [uid |-> b.uid, name |-> b.name, route |-> b.route]
         \/ \E u \in Uids : x = [uid |-> u, name |-> held[u].name, route |-> held[u].route]
         \/ \E q \in requests : q.op # "admin" /\ x = [uid |-> q.uid, name |-> q.cap.name, route |-> q.cap.route]
         \/ /\ job.at = "loaded" /\ job.op # "admin"
            /\ x = [uid |-> job.uid, name |-> job.cap.name, route |-> job.cap.route]
  BY DEF Claims

(* What each part of the invariant is about: a step that leaves that alone keeps it. *)
LEMMA Undisturbed ==
    ASSUME ProvisioningInv, UNCHANGED <<scene, bindings>>
    PROVE  /\ UNCHANGED <<client, held>> => Domains'
           /\ OneBinding'
           /\ UNCHANGED <<requests, job, client>> => IdsMatch'
           /\ UNCHANGED <<job, answers, client, granted>> => GrantsBound'
           /\ UNCHANGED <<job, client, held, installation, installer, granted>> => NoAdminYet'
           /\ (/\ UNCHANGED <<job, client, held, installation, installer, routes, granted>>
               /\ \A x \in Claims' : x \in Claims \/ x.route = 0) => AdminKeeps'
<1>1. (UNCHANGED <<client, held>> => Domains') /\ OneBinding'
  BY DEF ProvisioningInv, Domains, Clients, OneBinding
<1>2. /\ UNCHANGED <<requests, job, client>> => IdsMatch'
      /\ UNCHANGED <<job, answers, client, granted>> => GrantsBound'
  BY DEF ProvisioningInv, IdsMatch, Clients, GrantsBound, Bound
<1>3. UNCHANGED <<job, client, held, installation, installer, granted>> => NoAdminYet'
  BY DEF ProvisioningInv, NoAdminYet
<1>4. (/\ UNCHANGED <<job, client, held, installation, installer, routes, granted>>
       /\ \A x \in Claims' : x \in Claims \/ x.route = 0) => AdminKeeps'
  BY DEF ProvisioningInv, AdminKeeps, AdminRoute, Admins
<1>5. QED
  BY <1>1, <1>2, <1>3, <1>4

-----------------------------------------------------------------------------
(***************************************************************************)
(* What every step keeps                                                   *)
(***************************************************************************)
(* A request the daemon takes is as its file says. *)
LEMMA TakeKeeps ==
    ASSUME ProvisioningInv, NEW r \in requests, Take(r)
    PROVE  ProvisioningInv'
<1>1. \A x \in Claims' : x \in Claims
  BY DEF ProvisioningInv, Claims, Take
<1>2. OneClaim' /\ Drawn'
  BY <1>1, NoNewClaims DEF ProvisioningInv, Drawn, Take
<1>3. Domains' /\ OneBinding'
  BY Undisturbed DEF Take
<1>4. IdsMatch'
  BY DEF ProvisioningInv, IdsMatch, Take
<1>5. GrantsBound'
  BY DEF ProvisioningInv, GrantsBound, Bound, Take
<1>6. AdminKeeps'
  BY <1>1 DEF ProvisioningInv, AdminKeeps, AdminRoute, Admins, Take
<1>7. NoAdminYet'
  BY DEF ProvisioningInv, NoAdminYet, Take
<1>8. QED
  BY <1>2, <1>3, <1>4, <1>5, <1>6, <1>7 DEF ProvisioningInv

LEMMA DiscardKeeps ==
    ASSUME ProvisioningInv, NEW r \in requests, Discard(r)
    PROVE  ProvisioningInv'
<1>1. \A x \in Claims' : x \in Claims
  BY DEF ProvisioningInv, Claims, Discard
<1>2. OneClaim' /\ Drawn'
  BY <1>1, NoNewClaims DEF ProvisioningInv, Drawn, Discard
<1>3. Domains' /\ OneBinding' /\ GrantsBound' /\ AdminKeeps' /\ NoAdminYet'
  BY <1>1, Undisturbed DEF Discard
<1>4. IdsMatch'
  BY DEF ProvisioningInv, IdsMatch, Discard, NoJob
<1>5. QED
  BY <1>2, <1>3, <1>4 DEF ProvisioningInv

(* What is handed out was registered before. *)
LEMMA RespondKeeps ==
    ASSUME ProvisioningInv, Respond
    PROVE  ProvisioningInv'
<1>1. \A x \in Claims' : x \in Claims
  BY DEF ProvisioningInv, Claims, Respond
<1>2. OneClaim' /\ Drawn'
  BY <1>1, NoNewClaims DEF ProvisioningInv, Drawn, Respond
<1>3. Domains' /\ OneBinding'
  BY Undisturbed DEF Respond
<1>4. IdsMatch'
  BY DEF ProvisioningInv, IdsMatch, Respond
<1>5. GrantsBound'
  BY DEF ProvisioningInv, GrantsBound, Bound, Clients, IdsMatch, Owner, Respond
<1>6. AdminKeeps'
  BY <1>1 DEF ProvisioningInv, AdminKeeps, AdminRoute, Admins, Respond
<1>7. NoAdminYet'
  BY DEF ProvisioningInv, NoAdminYet, Respond
<1>8. QED
  BY <1>2, <1>3, <1>4, <1>5, <1>6, <1>7 DEF ProvisioningInv

LEMMA RemoveKeeps ==
    ASSUME ProvisioningInv, Remove
    PROVE  ProvisioningInv'
<1>1. \A x \in Claims' : x \in Claims
  BY DEF ProvisioningInv, Claims, Remove, NoJob
<1>2. OneClaim' /\ Drawn'
  BY <1>1, NoNewClaims DEF ProvisioningInv, Drawn, Remove
<1>3. Domains' /\ OneBinding'
  BY Undisturbed DEF Remove
<1>4. IdsMatch'
  BY DEF ProvisioningInv, IdsMatch, Remove, NoJob
<1>5. GrantsBound'
  BY DEF ProvisioningInv, GrantsBound, Bound, Remove, NoJob
<1>6. AdminKeeps'
  BY <1>1 DEF ProvisioningInv, AdminKeeps, AdminRoute, Admins, Remove, NoJob
<1>7. NoAdminYet'
  BY DEF ProvisioningInv, NoAdminYet, Remove, NoJob
<1>8. QED
  BY <1>2, <1>3, <1>4, <1>5, <1>6, <1>7 DEF ProvisioningInv

LEMMA CleanupKeeps ==
    ASSUME ProvisioningInv, CleanupExpiredResponses
    PROVE  ProvisioningInv'
<1>1. \A x \in Claims' : x \in Claims
  BY DEF ProvisioningInv, Claims, CleanupExpiredResponses
<1>2. OneClaim' /\ Drawn'
  BY <1>1, NoNewClaims DEF ProvisioningInv, Drawn, CleanupExpiredResponses
<1>3. Domains' /\ OneBinding' /\ IdsMatch' /\ AdminKeeps' /\ NoAdminYet'
  BY <1>1, Undisturbed DEF CleanupExpiredResponses
<1>4. GrantsBound'
  BY DEF ProvisioningInv, GrantsBound, Bound, CleanupExpiredResponses
<1>5. QED
  BY <1>2, <1>3, <1>4 DEF ProvisioningInv

(* A killed daemon forgets its job; the request stays. *)
LEMMA DieKeeps ==
    ASSUME ProvisioningInv, Die
    PROVE  ProvisioningInv'
<1>1. \A x \in Claims' : x \in Claims
  BY DEF ProvisioningInv, Claims, Die, NoJob
<1>2. OneClaim' /\ Drawn'
  BY <1>1, NoNewClaims DEF ProvisioningInv, Drawn, Die
<1>3. Domains' /\ OneBinding'
  BY Undisturbed DEF Die
<1>4. IdsMatch'
  BY DEF ProvisioningInv, IdsMatch, Die, NoJob
<1>5. GrantsBound'
  BY DEF ProvisioningInv, GrantsBound, Bound, Die, NoJob
<1>6. AdminKeeps'
  BY <1>1 DEF ProvisioningInv, AdminKeeps, AdminRoute, Admins, Die, NoJob
<1>7. NoAdminYet'
  BY DEF ProvisioningInv, NoAdminYet, Die, NoJob
<1>8. QED
  BY <1>2, <1>3, <1>4, <1>5, <1>6, <1>7 DEF ProvisioningInv

(* A client posts a request with the capability it holds, under a free id. *)
LEMMA PairKeeps ==
    ASSUME ProvisioningInv, NEW c \in Uids, Pair(c)
    PROVE  ProvisioningInv'
<1>1. \A x \in Claims' : x \in Claims
  BY DEF ProvisioningInv, Claims, Pair, Post, Owner
<1>2. OneClaim' /\ Drawn'
  BY <1>1, NoNewClaims DEF ProvisioningInv, Drawn, Pair
<1>3. OneBinding'
  BY Undisturbed DEF Pair
<1>4. Domains'
  BY DEF ProvisioningInv, Domains, Pair, Post
<1>5. IdsMatch'
  BY DEF ProvisioningInv, IdsMatch, Pair, Post, FreeIds
<1>6. GrantsBound'
  BY DEF ProvisioningInv, GrantsBound, Bound, Pair, Post, FreeIds
<1>7. AdminKeeps'
  BY <1>1 DEF ProvisioningInv, AdminKeeps, AdminRoute, Admins, Pair, Post
<1>8. NoAdminYet'
  BY DEF ProvisioningInv, NoAdminYet, Pair, Post
<1>9. QED
  BY <1>2, <1>3, <1>4, <1>5, <1>6, <1>7, <1>8 DEF ProvisioningInv

LEMMA RenewKeeps ==
    ASSUME ProvisioningInv, NEW c \in Clients, Renew(c)
    PROVE  ProvisioningInv'
<1>1. \A x \in Claims' : x \in Claims
  BY DEF ProvisioningInv, Clients, Claims, Renew, Post, Owner
<1>2. OneClaim' /\ Drawn'
  BY <1>1, NoNewClaims DEF ProvisioningInv, Drawn, Renew
<1>3. OneBinding'
  BY Undisturbed DEF Renew
<1>4. Domains'
  BY DEF ProvisioningInv, Domains, Renew, Post
<1>5. IdsMatch'
  BY DEF ProvisioningInv, IdsMatch, Renew, Post, FreeIds
<1>6. GrantsBound'
  BY DEF ProvisioningInv, GrantsBound, Bound, Renew, Post
<1>7. AdminKeeps'
  BY <1>1 DEF ProvisioningInv, AdminKeeps, AdminRoute, Admins, Renew, Post
<1>8. NoAdminYet'
  BY DEF ProvisioningInv, NoAdminYet, Renew, Post
<1>9. QED
  BY <1>2, <1>3, <1>4, <1>5, <1>6, <1>7, <1>8 DEF ProvisioningInv

(* The sudo helper's route is a new one, or it gives none. *)
LEMMA PairBySudoKeeps ==
    ASSUME ProvisioningInv, NEW c \in Uids, PairBySudo(c)
    PROVE  ProvisioningInv'
<1>1. /\ routes' \in {routes, routes + 1} /\ held'[Controller] = held[Controller]
      /\ \A x \in Claims' : x \in Claims \/ (c \in Uids /\ routes' = routes + 1 /\ x = [uid |-> c, name |-> login[c], route |-> routes + 1])
  <2>1. CASE UNCHANGED <<held, routes>>
    BY <2>1 DEF Claims, PairBySudo
  <2>2. CASE held' = [held EXCEPT ![c] = Signed(routes + 1, root, login[c])] /\ routes' = routes + 1
    BY <2>2 DEF ProvisioningInv, Domains, Clients, Claims, PairBySudo, Signed
  <2>3. QED
    BY <2>1, <2>2 DEF ProvisioningInv, PairBySudo, SudoGrant
<1>2. OneClaim' /\ Drawn'
  BY <1>1, MaybeOneClaim DEF ProvisioningInv, PairBySudo
<1>3. OneBinding' /\ IdsMatch' /\ GrantsBound'
  BY Undisturbed DEF PairBySudo
<1>4. Domains'
  BY DEF ProvisioningInv, Domains, PairBySudo, SudoGrant
<1>5. AdminKeeps'
  <2>1. AdminRoute' = AdminRoute /\ AdminRoute \in 0..routes /\ AdminRoute' \in 0..routes'
    BY <1>1 DEF ProvisioningInv, AdminRoute, AdminKeeps, Drawn, PairBySudo
  <2>2. AdminRoute # 0 => \A x \in Claims' : x.route # AdminRoute
    BY <1>1, <2>1 DEF ProvisioningInv, AdminKeeps, Drawn
  <2>3. QED
    BY <2>1, <2>2 DEF ProvisioningInv, Domains, AdminKeeps, Admins, PairBySudo
<1>6. NoAdminYet'
  BY <1>1 DEF ProvisioningInv, Domains, NoAdminYet, AdminKeeps, PairBySudo
<1>7. QED
  BY <1>2, <1>3, <1>4, <1>5, <1>6 DEF ProvisioningInv

LEMMA TimeoutKeeps ==
    ASSUME ProvisioningInv, NEW c \in Clients, Timeout(c)
    PROVE  ProvisioningInv'
<1>1. /\ routes' \in {routes, routes + 1} /\ held'[Controller] = held[Controller]
      /\ \A x \in Claims' : x \in Claims \/ (c \in Uids /\ routes' = routes + 1 /\ x = [uid |-> c, name |-> login[c], route |-> routes + 1])
  <2>1. CASE UNCHANGED <<held, routes>>
    BY <2>1 DEF Claims, Timeout
  <2>2. CASE c \in Uids /\ held' = [held EXCEPT ![c] = Signed(routes + 1, root, login[c])] /\ routes' = routes + 1
    BY <2>2 DEF ProvisioningInv, Domains, Clients, Claims, Timeout, Signed
  <2>3. QED
    BY <2>1, <2>2 DEF ProvisioningInv, Timeout, SudoGrant, IdsMatch, Clients
<1>2. OneClaim' /\ Drawn'
  BY <1>1, MaybeOneClaim DEF ProvisioningInv, Timeout
<1>3. OneBinding'
  BY Undisturbed DEF Timeout
<1>4. Domains'
  BY DEF ProvisioningInv, Domains, Timeout, SudoGrant
<1>5. IdsMatch'
  BY DEF ProvisioningInv, IdsMatch, Timeout, Rescheduled, Idle
<1>6. GrantsBound'
  BY DEF ProvisioningInv, GrantsBound, Bound, Timeout, Rescheduled, Idle
<1>7. AdminKeeps'
  <2>1. AdminRoute' = AdminRoute /\ AdminRoute \in 0..routes /\ AdminRoute' \in 0..routes'
    BY <1>1 DEF ProvisioningInv, AdminRoute, AdminKeeps, Drawn, Timeout
  <2>2. AdminRoute # 0 => \A x \in Claims' : x.route # AdminRoute
    BY <1>1, <2>1 DEF ProvisioningInv, AdminKeeps, Drawn
  <2>3. QED
    BY <2>1, <2>2 DEF ProvisioningInv, Domains, AdminKeeps, Admins, Timeout, Rescheduled, Idle, Clients
<1>8. NoAdminYet'
  BY <1>1 DEF ProvisioningInv, Domains, NoAdminYet, AdminKeeps, Timeout, Rescheduled, Idle, Clients
<1>9. QED
  BY <1>2, <1>3, <1>4, <1>5, <1>6, <1>7, <1>8 DEF ProvisioningInv

(* A client takes over a binding of its own, or a capability on the route it holds. *)
LEMMA AnswerKeeps ==
    ASSUME ProvisioningInv, NEW c \in Clients, Answer(c)
    PROVE  ProvisioningInv'
<1>1. \A x \in Claims' : x \in Claims
  BY DEF ProvisioningInv, Domains, Clients, GrantsBound, Bound, Claims, Answer, Extends
<1>2. OneClaim' /\ Drawn'
  BY <1>1, NoNewClaims DEF ProvisioningInv, Drawn, Answer
<1>3. OneBinding'
  BY Undisturbed DEF Answer
<1>4. Domains'
  BY DEF ProvisioningInv, Domains, Answer
<1>5. IdsMatch'
  <2>1. \A d \in Clients : \/ client'[d].id = client[d].id /\ client'[d].op = client[d].op
                           \/ client'[d].id = 0 /\ client'[d].op = "none"
    BY DEF ProvisioningInv, Domains, Answer, Rescheduled, Idle
  <2>2. QED
    BY <2>1 DEF ProvisioningInv, IdsMatch, Clients, Answer
<1>6. GrantsBound'
  BY DEF ProvisioningInv, GrantsBound, Bound, Domains, Clients, Answer, Rescheduled, Idle
<1>7. AdminKeeps'
  <2>1. held'[Controller] = held[Controller]
    BY DEF ProvisioningInv, Domains, Answer, Clients
  <2>2. AdminRoute' = AdminRoute
    BY <2>1 DEF AdminRoute, Answer
  <2>3. client'[Controller].at = "apply" => client'[Controller].grant.route = AdminRoute
    <3>1. CASE c = Controller
      BY <3>1 DEF ProvisioningInv, Domains, AdminKeeps, IdsMatch, NoAdminYet, AdminRoute, Answer, Extends,
                  Rescheduled, Idle, Clients
    <3>2. CASE c # Controller
      BY <3>2 DEF ProvisioningInv, Domains, AdminKeeps, Answer, Rescheduled, Idle, Clients
    <3>3. QED
      BY <3>1, <3>2
  <2>4. QED
    BY <1>1, <2>2, <2>3 DEF ProvisioningInv, AdminKeeps, Admins, Answer
<1>8. NoAdminYet'
  BY DEF ProvisioningInv, NoAdminYet, Domains, Clients, Answer
<1>9. QED
  BY <1>2, <1>3, <1>4, <1>5, <1>6, <1>7, <1>8 DEF ProvisioningInv

(* The Controller writes what it has checked: the route is the one it has. *)
LEMMA ApplyAdminKeeps ==
    ASSUME ProvisioningInv, ApplyAdmin
    PROVE  ProvisioningInv'
<1>1. \A x \in Claims' : x \in Claims
  BY DEF ProvisioningInv, Claims, ApplyAdmin
<1>2. OneClaim' /\ Drawn'
  BY <1>1, NoNewClaims DEF ProvisioningInv, Drawn, ApplyAdmin
<1>3. OneBinding'
  BY Undisturbed DEF ApplyAdmin
<1>4. Domains'
  BY DEF ProvisioningInv, Domains, ApplyAdmin
<1>5. IdsMatch'
  BY DEF ProvisioningInv, IdsMatch, ApplyAdmin, Idle
<1>6. GrantsBound'
  BY DEF ProvisioningInv, GrantsBound, Bound, ApplyAdmin
<1>7. AdminKeeps'
  BY <1>1 DEF ProvisioningInv, AdminKeeps, AdminRoute, Admins, ApplyAdmin, Idle, NoCap
<1>8. NoAdminYet'
  BY DEF ProvisioningInv, NoAdminYet, AdminKeeps, AdminRoute, ApplyAdmin, NoCap
<1>9. QED
  BY <1>2, <1>3, <1>4, <1>5, <1>6, <1>7, <1>8 DEF ProvisioningInv

(* Root draws the Controller's route, or keeps the one in its configuration. *)
LEMMA InstallControllerKeeps ==
    ASSUME ProvisioningInv, InstallController
    PROVE  ProvisioningInv'
<1>1. \A x \in Claims' : x \in Claims
  BY DEF ProvisioningInv, Claims, InstallController
<1>2. OneClaim' /\ Drawn'
  BY <1>1, NoNewClaims DEF ProvisioningInv, Drawn, InstallController, ReinstalledRoute
<1>3. Domains' /\ OneBinding' /\ IdsMatch' /\ GrantsBound'
  BY Undisturbed DEF InstallController
<1>4. AdminKeeps'
  BY <1>1
     DEF ProvisioningInv, AdminKeeps, AdminRoute, Admins, Drawn, NoAdminYet,
         InstallController, ReinstalledRoute, Signed
<1>5. NoAdminYet'
  BY DEF ProvisioningInv, NoAdminYet, InstallController
<1>6. QED
  BY <1>2, <1>3, <1>4, <1>5 DEF ProvisioningInv

LEMMA WriteConfigKeeps ==
    ASSUME ProvisioningInv, WriteConfig
    PROVE  ProvisioningInv'
<1>1. \A x \in Claims' : x \in Claims
  BY DEF ProvisioningInv, Claims, WriteConfig
<1>2. OneClaim' /\ Drawn'
  BY <1>1, NoNewClaims DEF ProvisioningInv, Drawn, WriteConfig
<1>3. OneBinding' /\ IdsMatch'
  BY Undisturbed DEF WriteConfig
<1>4. Domains'
  BY DEF ProvisioningInv, Domains, WriteConfig
<1>5. GrantsBound'
  BY DEF ProvisioningInv, GrantsBound, Bound, WriteConfig
<1>6. AdminKeeps'
  BY <1>1
     DEF ProvisioningInv, AdminKeeps, AdminRoute, Admins, Domains, Clients, WriteConfig,
         NoCap
<1>7. NoAdminYet'
  BY DEF ProvisioningInv, NoAdminYet, Domains, Clients, AdminKeeps, WriteConfig, NoCap
<1>8. QED
  BY <1>2, <1>3, <1>4, <1>5, <1>6, <1>7 DEF ProvisioningInv

LEMMA WritePublicKeeps ==
    ASSUME ProvisioningInv, WritePublicInstallation
    PROVE  ProvisioningInv'
<1>1. \A x \in Claims' : x \in Claims
  BY DEF ProvisioningInv, Claims, WritePublicInstallation
<1>2. OneClaim' /\ Drawn'
  BY <1>1, NoNewClaims DEF ProvisioningInv, Drawn, WritePublicInstallation
<1>3. Domains' /\ OneBinding' /\ IdsMatch' /\ GrantsBound'
  BY Undisturbed DEF WritePublicInstallation
<1>4. AdminKeeps'
  BY <1>1 DEF ProvisioningInv, AdminKeeps, AdminRoute, Admins, WritePublicInstallation
<1>5. NoAdminYet'
  BY DEF ProvisioningInv, NoAdminYet, WritePublicInstallation
<1>6. QED
  BY <1>2, <1>3, <1>4, <1>5 DEF ProvisioningInv

LEMMA InstallerDiesKeeps ==
    ASSUME ProvisioningInv, InstallerDies
    PROVE  ProvisioningInv'
<1>1. \A x \in Claims' : x \in Claims
  BY DEF ProvisioningInv, Claims, InstallerDies
<1>2. OneClaim' /\ Drawn'
  BY <1>1, NoNewClaims DEF ProvisioningInv, Drawn, InstallerDies
<1>3. Domains' /\ OneBinding' /\ IdsMatch' /\ GrantsBound'
  BY Undisturbed DEF InstallerDies
<1>4. AdminKeeps'
  BY <1>1
     DEF ProvisioningInv, AdminKeeps, AdminRoute, Admins, Drawn, NoAdminYet, InstallerDies
<1>5. NoAdminYet'
  BY DEF ProvisioningInv, NoAdminYet, InstallerDies
<1>6. QED
  BY <1>2, <1>3, <1>4, <1>5 DEF ProvisioningInv

(* A wiped home loses a capability; the registry keeps the account. *)
LEMMA RemoveAccountKeeps ==
    ASSUME ProvisioningInv, NEW u \in Uids, RemoveAccount(u)
    PROVE  ProvisioningInv'
<1>1. \A x \in Claims' : x \in Claims \/ x.route = 0
  BY DEF ProvisioningInv, Claims, RemoveAccount, NoCap
<1>2. OneClaim' /\ Drawn'
  BY <1>1, NoNewClaims DEF ProvisioningInv, Drawn, RemoveAccount
<1>3. OneBinding'
  BY Undisturbed DEF RemoveAccount
<1>4. Domains'
  BY DEF ProvisioningInv, Domains, RemoveAccount
<1>5. IdsMatch'
  BY DEF ProvisioningInv, IdsMatch, RemoveAccount, Idle
<1>6. GrantsBound'
  BY DEF ProvisioningInv, GrantsBound, Bound, RemoveAccount, Idle
<1>7. AdminKeeps'
  BY <1>1 DEF ProvisioningInv, AdminKeeps, AdminRoute, Admins, RemoveAccount
<1>8. NoAdminYet'
  BY DEF ProvisioningInv, NoAdminYet, RemoveAccount
<1>9. QED
  BY <1>2, <1>3, <1>4, <1>5, <1>6, <1>7, <1>8 DEF ProvisioningInv

LEMMA WipeHomeKeeps ==
    ASSUME ProvisioningInv, NEW u \in Uids, WipeHome(u)
    PROVE  ProvisioningInv'
<1>1. \A x \in Claims' : x \in Claims \/ x.route = 0
  BY DEF ProvisioningInv, Claims, WipeHome, NoCap
<1>2. OneClaim' /\ Drawn'
  BY <1>1, NoNewClaims DEF ProvisioningInv, Drawn, WipeHome
<1>3. OneBinding'
  BY Undisturbed DEF WipeHome
<1>4. Domains'
  BY DEF ProvisioningInv, Domains, WipeHome
<1>5. IdsMatch'
  BY DEF ProvisioningInv, IdsMatch, WipeHome, Idle
<1>6. GrantsBound'
  BY DEF ProvisioningInv, GrantsBound, Bound, WipeHome, Idle
<1>7. AdminKeeps'
  BY <1>1 DEF ProvisioningInv, AdminKeeps, AdminRoute, Admins, WipeHome
<1>8. NoAdminYet'
  BY DEF ProvisioningInv, NoAdminYet, WipeHome
<1>9. QED
  BY <1>2, <1>3, <1>4, <1>5, <1>6, <1>7, <1>8 DEF ProvisioningInv

-----------------------------------------------------------------------------
(***************************************************************************)
(* The daemon's decision                                                   *)
(***************************************************************************)
Granted(route) == [uid |-> job.uid, name |-> job.login, route |-> route]

(* What registers a user's route: every binding of the user or of its name is the
   user's own and on that route, and the route is the user's already or a new one. *)
UserDecision(route) ==
  /\ job' = [at |-> "answer", id |-> job.id, op |-> job.op, uid |-> job.uid, login |-> job.login,
             ok |-> TRUE, cap |-> Signed(route, job.active, job.login)]
  /\ bindings' = Saved(job, route)
  /\ \A b \in Touching(job, "user") : b \in Own(job, "user") /\ b.route = route
  /\ \/ routes' = routes /\ Granted(route) \in Claims /\ route # 0
     \/ routes' = routes + 1 /\ route = routes + 1

(* A request of a user's that is granted. *)
LEMMA UserDecided ==
    ASSUME ProvisioningInv, Decide, job.op # "admin", RoutesFor(job) # {}
    PROVE  \E route : UserDecision(route)
<1>a. OneBinding /\ Drawn
  BY DEF ProvisioningInv
<1> DEFINE found == RoutesFor(job)
           route == IF 0 \in found THEN routes + 1 ELSE CHOOSE x \in found : TRUE
<1>1. /\ found = UserRoutes(job) /\ found # {}
      /\ job' = [at |-> "answer", id |-> job.id, op |-> job.op, uid |-> job.uid, login |-> job.login,
                 ok |-> TRUE, cap |-> Signed(route, job.active, job.login)]
      /\ bindings' = Saved(job, route)
      /\ routes' = IF 0 \in found THEN routes + 1 ELSE routes
  BY DEF Decide, RoutesFor
<1>2. 0 \notin found => route \in found
  BY <1>1
<1> HIDE DEF found, route
<1>3. CASE Touching(job, "user") # {}
  <2>1. /\ Touching(job, "user") = Own(job, "user")
        /\ \A x \in found : \E b \in Own(job, "user") : x = b.route
    BY <1>1, <1>3 DEF UserRoutes
  <2>2. 0 \notin found
    BY <2>1, <1>a DEF Own, Drawn
  <2>3. PICK b \in Own(job, "user") : route = b.route
    BY <1>2, <2>1, <2>2
  <2>4. \A o \in Touching(job, "user") : o \in Own(job, "user") /\ o.route = route
    BY <2>1, <2>3, <1>a DEF Own, OneBinding
  <2>5. Granted(route) \in Claims /\ route # 0
    <3>1. b \in bindings /\ b.kind = "user" /\ b.uid = job.uid /\ b.name = job.login
      BY DEF Own
    <3>2. QED
      BY <2>3, <3>1, <1>a, ClaimSources DEF Granted, Drawn
  <2>6. QED
    BY <1>1, <2>2, <2>4, <2>5 DEF UserDecision
<1>4. CASE Touching(job, "user") = {}
  <2>1. CASE 0 \in found
    BY <1>1, <1>4, <2>1 DEF UserDecision, route
  <2>2. CASE 0 \notin found
    <3>1. route = job.cap.route /\ job.cap.name = job.login
      BY <1>1, <1>2, <1>4, <2>2 DEF UserRoutes, Verifies
    <3>2. Granted(route) \in Claims
      BY <3>1, ClaimSources DEF Granted, Decide
    <3>3. route # 0
      BY <1>2, <2>2
    <3>4. QED
      BY <1>1, <1>4, <2>2, <3>2, <3>3 DEF UserDecision
  <2>3. QED
    BY <2>1, <2>2
<1>5. QED
  BY <1>3, <1>4

BoundNext(kind, u, n, route) ==
  \E b \in bindings' : b.kind = kind /\ b.uid = u /\ b.name = n /\ b.route = route

(* Registering it, no user loses a binding. *)
LEMMA BindingsOutliveSaving ==
    ASSUME NEW route, \A b \in Touching(job, "user") : b \in Own(job, "user") /\ b.route = route,
           bindings' = Saved(job, route), NEW u, NEW n, NEW r, Bound("user", u, n, r)
    PROVE  BoundNext("user", u, n, r)
<1>1. PICK b \in bindings : b.kind = "user" /\ b.uid = u /\ b.name = n /\ b.route = r
  BY DEF Bound
<1>2. CASE b \in Touching(job, "user")
  <2>1. b.uid = job.uid /\ b.name = job.login /\ b.route = route
    BY <1>2 DEF Own
  <2> DEFINE new == [kind |-> "user", uid |-> job.uid, name |-> job.login, route |-> route]
  <2>2. new \in bindings'
    BY DEF Saved
  <2>3. new.kind = "user" /\ new.uid = u /\ new.name = n /\ new.route = r
    BY <1>1, <2>1
  <2>4. QED
    BY <2>2, <2>3 DEF BoundNext
<1>3. CASE b \notin Touching(job, "user")
  BY <1>1, <1>3 DEF BoundNext, Touching, Saved
<1>4. QED
  BY <1>2, <1>3

LEMMA UserDecisionKeeps ==
    ASSUME ProvisioningInv, Decide, NEW route, UserDecision(route), job.op # "admin"
    PROVE  ProvisioningInv'
<1>a. Domains /\ OneClaim /\ Drawn /\ OneBinding
  BY DEF ProvisioningInv
<1>b. IdsMatch /\ GrantsBound
  BY DEF ProvisioningInv
<1>c. AdminKeeps /\ NoAdminYet
  BY DEF ProvisioningInv
<1>0. /\ job.at = "loaded"
      /\ UNCHANGED <<scene, held, client, requests, answers, granted, installation, installer>>
  BY DEF Decide, clock, files, rooted, ghosts
<1>1. \A x \in Claims' : x \in Claims \/ x = Granted(route)
  BY <1>0 DEF Claims, UserDecision, Saved, Granted
<1>2. OneClaim'
  <2>1. CASE Granted(route) \in Claims
    BY <1>a, <1>1, <2>1, NoMoreClaims
  <2>2. CASE route = routes + 1
    <3>1. Granted(route).route \notin 0..routes
      BY <1>a, <2>2 DEF Drawn, Granted
    <3>2. \A x \in Claims : x.route # Granted(route).route
      BY <1>a, <3>1 DEF Drawn
    <3>3. QED
      BY <1>a, <1>1, <3>2, OneMoreClaim
  <2>3. QED
    BY <2>1, <2>2 DEF UserDecision
<1>3. /\ routes' \in Nat /\ routes' >= routes /\ route \in 1..routes'
  BY <1>a DEF Drawn, Granted, UserDecision
<1>4. Drawn'
  <2>1. \A x \in Claims' : x.route \in 0..routes'
    BY <1>a, <1>1, <1>3 DEF Drawn, Granted
  <2>2. \A b \in bindings' : b.kind \in {"user", "admin"} /\ b.route \in 1..routes'
    BY <1>a, <1>3 DEF Drawn, UserDecision, Saved
  <2>3. QED
    BY <1>3, <2>1, <2>2 DEF Drawn
<1>5. OneBinding'
  BY <1>a DEF OneBinding, UserDecision, Saved
<1>6. IdsMatch'
  BY <1>0, <1>b DEF IdsMatch, Clients, UserDecision
<1>7. GrantsBound'
  <2>1. \A u, n, r : Bound("user", u, n, r) => BoundNext("user", u, n, r)
    BY BindingsOutliveSaving DEF UserDecision
  <2>2. BoundNext("user", job.uid, job.login, route)
    <3>1. [kind |-> "user", uid |-> job.uid, name |-> job.login, route |-> route] \in bindings'
      BY DEF UserDecision, Saved
    <3>2. QED
      BY <3>1 DEF BoundNext
  <2>3. \A g \in granted' : g.kind \in {"user", "admin"}
                          /\ (g.kind = "user" => BoundNext("user", g.uid, g.name, g.route))
    BY <1>0, <1>b, <2>1 DEF GrantsBound
  <2>4. \A a \in answers' : \A u \in Uids :
          (a.ok /\ client'[u].at = "waiting" /\ client'[u].id = a.id /\ client'[u].op = "initialize")
             => BoundNext("user", u, a.cap.name, a.cap.route)
    BY <1>0, <1>b, <2>1 DEF GrantsBound
  <2>5. BoundNext("user", job'.uid, job'.login, job'.cap.route) /\ job'.cap.name = job'.login
    BY <2>2 DEF UserDecision, Signed
  <2>6. QED
    BY <2>3, <2>4, <2>5 DEF GrantsBound, Bound, BoundNext
<1>8. AdminKeeps'
  <2>1. AdminRoute' = AdminRoute
    BY <1>0 DEF AdminRoute
  <2>2. AdminRoute \in 0..routes /\ AdminRoute \in 0..routes'
    BY <1>a, <1>c, <1>3 DEF AdminKeeps, Drawn
  <2>3. AdminRoute # 0 => \A x \in Claims' : x.route # AdminRoute
    BY <1>a, <1>c, <1>1, <2>2 DEF AdminKeeps, Drawn, Granted, UserDecision
  <2>4. \A b \in bindings' : b.kind = "admin" => b \in bindings
    BY DEF UserDecision, Saved
  <2>5. QED
    BY <1>0, <1>c, <2>1, <2>2, <2>3, <2>4 DEF AdminKeeps, Admins, UserDecision
<1>9. NoAdminYet'
  <2>1. \A b \in bindings' : b.kind = "admin" => b \in bindings
    BY DEF UserDecision, Saved
  <2>2. QED
    BY <1>0, <1>c, <2>1 DEF NoAdminYet, UserDecision
<1>10. QED
  BY <1>0, <1>a, <1>2, <1>4, <1>5, <1>6, <1>7, <1>8, <1>9 DEF ProvisioningInv, Domains, Clients

(* A request of the Controller's that is granted: its route, to its account. *)
LEMMA AdminDecided ==
    ASSUME ProvisioningInv, Decide, job.op = "admin", RoutesFor(job) # {}
    PROVE  /\ job.uid = Administrator.uid /\ job.login = Administrator.name
           /\ AdminRoute # 0 /\ routes' = routes /\ held[Controller] # NoCap
           /\ job' = [at |-> "answer", id |-> job.id, op |-> job.op, uid |-> job.uid,
                      login |-> job.login, ok |-> TRUE,
                      cap |-> Signed(AdminRoute, job.active, Handle)]
           /\ bindings' = SavedAdmin(job, AdminRoute)
<1>1. AdminKeeps /\ NoAdminYet /\ job.at = "loaded"
  BY DEF ProvisioningInv, Decide
<1>2. Registered(job) /\ \A x \in RoutesFor(job) : x = job.installation
  BY DEF RoutesFor, AdminRoutes, InitialAdminRoutes
<1>3. /\ job.installation = AdminRoute /\ AdminRoute # 0 /\ held[Controller] # NoCap
      /\ job.uid = Administrator.uid /\ job.login = Administrator.name
  BY <1>1, <1>2 DEF AdminKeeps, NoAdminYet, Registered
<1>4. 0 \notin RoutesFor(job) /\ (CHOOSE x \in RoutesFor(job) : TRUE) = AdminRoute
  BY <1>2, <1>3
<1>5. QED
  BY <1>3, <1>4 DEF Decide

LEMMA AdminDecisionKeeps ==
    ASSUME ProvisioningInv, Decide, job.op = "admin", RoutesFor(job) # {}
    PROVE  ProvisioningInv'
<1>a. Domains /\ OneClaim /\ Drawn /\ OneBinding
  BY DEF ProvisioningInv
<1>b. IdsMatch /\ GrantsBound
  BY DEF ProvisioningInv
<1>c. AdminKeeps /\ NoAdminYet
  BY DEF ProvisioningInv
<1>0. /\ job.at = "loaded"
      /\ UNCHANGED <<scene, held, client, requests, answers, granted, installation, installer>>
  BY DEF Decide, clock, files, rooted, ghosts
<1>1. \A b \in bindings' : \/ b \in bindings
                           \/ b.kind = "admin" /\ Admins(b) /\ b.route \in 1..routes
  BY <1>c, AdminDecided DEF SavedAdmin, Admins, AdminKeeps
<1>2. \A b \in bindings : b.kind = "user" => b \in bindings'
  BY AdminDecided DEF SavedAdmin
<1>3. \A x \in Claims' : x \in Claims
  BY <1>0, <1>1, AdminDecided DEF Claims
<1>4. OneClaim'
  BY <1>a, <1>3, NoMoreClaims
<1>5. Drawn'
  BY <1>a, <1>1, <1>3, AdminDecided DEF Drawn
<1>6. OneBinding'
  BY <1>a, <1>1 DEF OneBinding
<1>7. IdsMatch'
  BY <1>0, <1>b, AdminDecided DEF IdsMatch, Clients
<1>8. GrantsBound'
  BY <1>0, <1>b, <1>2, AdminDecided DEF GrantsBound, Bound
<1>9. AdminKeeps'
  <2>1. AdminRoute' = AdminRoute
    BY <1>0 DEF AdminRoute
  <2>2. QED
    BY <1>0, <1>1, <1>3, <1>c, <2>1, AdminDecided DEF AdminKeeps, Admins, Signed
<1>10. NoAdminYet'
  BY <1>0, <1>c, AdminDecided DEF NoAdminYet
<1>11. QED
  BY <1>0, <1>a, <1>4, <1>5, <1>6, <1>7, <1>8, <1>9, <1>10 DEF ProvisioningInv, Domains, Clients

(* What is refused changes nothing but the job. *)
LEMMA RefusalKeeps ==
    ASSUME ProvisioningInv, Decide, RoutesFor(job) = {}
    PROVE  ProvisioningInv'
<1>a. Domains /\ OneClaim /\ Drawn /\ OneBinding
  BY DEF ProvisioningInv
<1>b. IdsMatch /\ GrantsBound
  BY DEF ProvisioningInv
<1>c. AdminKeeps /\ NoAdminYet
  BY DEF ProvisioningInv
<1>0. /\ UNCHANGED <<scene, bindings, routes, held, client, requests, answers, granted, installation, installer>>
      /\ job.at = "loaded"
      /\ job' = [at |-> "answer", id |-> job.id, op |-> job.op, uid |-> job.uid,
                 login |-> job.login, ok |-> FALSE, cap |-> NoCap]
  BY DEF Decide, clock, files, rooted, ghosts
<1>1. \A x \in Claims' : x \in Claims
  BY <1>0 DEF Claims
<1>2. OneClaim'
  BY <1>a, <1>1, NoMoreClaims
<1>3. Domains' /\ Drawn' /\ OneBinding'
  BY <1>0, <1>a, <1>1 DEF Domains, Clients, Drawn, OneBinding
<1>4. IdsMatch'
  BY <1>0, <1>b DEF IdsMatch, Clients
<1>5. GrantsBound'
  BY <1>0, <1>b DEF GrantsBound, Bound
<1>6. AdminKeeps'
  BY <1>0, <1>c, <1>1 DEF AdminKeeps, AdminRoute, Admins
<1>7. NoAdminYet'
  BY <1>0, <1>c DEF NoAdminYet
<1>8. QED
  BY <1>2, <1>3, <1>4, <1>5, <1>6, <1>7 DEF ProvisioningInv

LEMMA DecideKeeps ==
    ASSUME ProvisioningInv, Decide
    PROVE  ProvisioningInv'
  BY UserDecided, UserDecisionKeeps, AdminDecisionKeeps, RefusalKeeps

-----------------------------------------------------------------------------
(***************************************************************************)
(* The steps that touch none of it                                         *)
(***************************************************************************)
LEMMA QuietKeeps ==
    ASSUME ProvisioningInv,
           UNCHANGED <<scene, bindings, job, requests, answers, client, held, installation, installer, routes, granted>>
    PROVE  ProvisioningInv'
<1>1. Claims' = Claims /\ Domains' /\ IdsMatch'
  BY DEF Claims, Domains, IdsMatch, Clients, ProvisioningInv
<1>2. OneClaim' /\ Drawn' /\ OneBinding'
  BY <1>1 DEF OneClaim, Drawn, OneBinding, ProvisioningInv
<1>3. GrantsBound' /\ AdminKeeps' /\ NoAdminYet'
  BY <1>1 DEF GrantsBound, Bound, AdminKeeps, AdminRoute, Admins, NoAdminYet, ProvisioningInv
<1>4. QED
  BY <1>1, <1>2, <1>3 DEF ProvisioningInv

LEMMA ProvisioningInit == Init => ProvisioningInv
<1> SUFFICES ASSUME Init
             PROVE  ProvisioningInv
  OBVIOUS
<1>1. \A x \in Claims : x.route = 0
  BY DEF Init, Claims, NoCap, NoJob, Clients
<1>2. Domains /\ OneClaim /\ Drawn /\ OneBinding
  BY <1>1 DEF Init, Domains, OneClaim, Drawn, OneBinding
<1>3. IdsMatch /\ GrantsBound
  BY DEF Init, IdsMatch, GrantsBound, NoJob, Idle, Clients
<1>4. AdminKeeps /\ NoAdminYet
  BY DEF Init, AdminKeeps, AdminRoute, NoAdminYet, NoJob, NoCap, Idle, Clients
<1>5. QED
  BY <1>2, <1>3, <1>4 DEF ProvisioningInv

LEMMA ProvisioningNext ==
    ASSUME ProvisioningInv, [Next]_vars
    PROVE  ProvisioningInv'
<1>1. CASE Daemon
  <2>1. ASSUME NEW r \in requests, Take(r) \/ Discard(r) PROVE ProvisioningInv'
    BY <2>1, TakeKeeps, DiscardKeeps
  <2>2. CASE Decide \/ Respond \/ Remove \/ CleanupExpiredResponses \/ Die
    BY <2>2, DecideKeeps, RespondKeeps, RemoveKeeps, CleanupKeeps, DieKeeps
  <2>3. CASE Prune \/ Start \/ Stop
    BY <2>3, QuietKeeps DEF Prune, Start, Stop, clock, stores, daemon, files, rooted, ghosts
  <2>4. QED
    BY <1>1, <2>1, <2>2, <2>3 DEF Daemon
<1>2. ASSUME NEW c \in scene.clients, ClientStep(c)
      PROVE  ProvisioningInv'
  <2>1. c \in Clients
    BY DEF ProvisioningInv, Domains, Clients
  <2>2. QED
    BY <1>2, <2>1, PairKeeps, PairBySudoKeeps, RenewKeeps, TimeoutKeeps, AnswerKeeps
       DEF ClientStep, Pair, PairBySudo
<1>3. CASE ApplyAdmin
  BY <1>3, ApplyAdminKeeps
<1>4. CASE Operators
  BY <1>4, QuietKeeps
     DEF Operators, Expire, InstallRootless, InstallRoot, clock, stores, daemon, files, rooted, ghosts
<1>5. CASE Root
  BY <1>5, InstallControllerKeeps, WriteConfigKeeps, WritePublicKeeps, InstallerDiesKeeps DEF Root
<1>6. CASE Accounts
  <2>1. ASSUME NEW u \in Uids, NEW n \in Names, CreateAccount(u, n) PROVE ProvisioningInv'
    BY <2>1, QuietKeeps DEF CreateAccount, clock, stores, daemon, files, rooted, ghosts
  <2>2. QED
    BY <1>6, <2>1, RemoveAccountKeeps, WipeHomeKeeps DEF Accounts
<1>7. CASE UNCHANGED vars
  BY <1>7, QuietKeeps DEF vars, clock, stores, daemon, files, rooted, ghosts
<1>8. QED
  BY <1>1, <1>2, <1>3, <1>4, <1>5, <1>6, <1>7 DEF Next

-----------------------------------------------------------------------------
(***************************************************************************)
(* The theorems                                                            *)
(***************************************************************************)
(* Behind one route for an account: every claim to a route, in the registry, in a
   home, in a request file or with the daemon, is of the account that owns it; the
   registry has one route for a user and keeps what was granted; and the
   Controller's route is nobody else's, from root's installation on. *)
THEOREM ProvisioningInvariant == Spec => []ProvisioningInv
<1>1. Init => ProvisioningInv
  BY ProvisioningInit
<1>2. ProvisioningInv /\ [Next]_vars => ProvisioningInv'
  BY ProvisioningNext
<1>3. QED
  BY <1>1, <1>2, PTL DEF Spec

(* One account, one route, whatever dies, is lost, wiped or recycled: what the daemon
   or root hands to an account is on the route of its first grant, and no route is
   handed to two accounts. *)
THEOREM AccountsHaveOneRoute == Spec => []OneRoute
<1>1. ASSUME ProvisioningInv PROVE OneRoute
  <2>1. OneClaim /\ Drawn /\ OneBinding
    BY <1>1 DEF ProvisioningInv
  <2>2. GrantsBound /\ AdminKeeps
    BY <1>1 DEF ProvisioningInv
  <2>3. \A g \in granted : g.kind = "user" =>
          /\ [uid |-> g.uid, name |-> g.name, route |-> g.route] \in Claims
          /\ g.route # 0 /\ Bound("user", g.uid, g.name, g.route)
    BY <2>1, <2>2, ClaimSources DEF GrantsBound, Bound, Drawn
  <2>4. \A g \in granted : g.kind = "admin" => Admins(g)
    BY <2>2 DEF AdminKeeps
  <2>5. ASSUME NEW g \in granted, NEW h \in granted, g.kind = "user", h.kind = "user"
        PROVE  /\ (g.uid = h.uid /\ g.name = h.name) => g.route = h.route
               /\ g.route = h.route => (g.uid = h.uid /\ g.name = h.name)
    <3>1. (g.uid = h.uid /\ g.name = h.name) => g.route = h.route
      BY <2>1, <2>3, <2>5 DEF OneBinding, Bound
    <3>2. g.route = h.route => (g.uid = h.uid /\ g.name = h.name)
      BY <2>1, <2>3, <2>5 DEF OneClaim
    <3>3. QED
      BY <3>1, <3>2
  <2>6. ASSUME NEW g \in granted, NEW h \in granted, g.kind = "user", h.kind = "admin"
        PROVE  g.route # h.route
    BY <2>2, <2>3, <2>4, <2>6 DEF AdminKeeps, Admins
  <2>7. \A g \in granted : g.kind \in {"user", "admin"}
    BY <2>2 DEF GrantsBound
  <2>8. QED
    BY <2>4, <2>5, <2>6, <2>7 DEF OneRoute, Admins
<1>2. QED
  BY <1>1, ProvisioningInvariant, PTL
=============================================================================

----------------------------- MODULE Enrolment -----------------------------
(***************************************************************************)
(* Whose machine it is, and whether that person agreed: provisioning       *)
(* (Device, PeopleController, aiul:provision-device), `aiul login` with    *)
(* its code (login.go, DevicePairingController, PairDeviceController),     *)
(* the notice (ConsentController, hasConsented), the check before events   *)
(* are stored (EventIngestionController) and who may manage a tenant.      *)
(*                                                                         *)
(* A request is several queries, and no transaction or lock spans two.     *)
(* save() and update() write the columns that differ from the row as that  *)
(* request read it.  devices is unique in token and code, not in its name. *)
(***************************************************************************)
EXTENDS Integers, Sequences, FiniteSets

CONSTANTS
  People, Tenants, Hosts, Requests, Nobody,
  TenantOf,      \* whose employee a person is
  Founders,      \* administrators made by the seeder
  Rushed,        \* whether two requests of the web or the console may overlap
  OldPages,      \* whether a page with an earlier notice may still be open
  MaxTokens, MaxCodes, MaxVersion   \* bounds: tokens and codes made, notices

ASSUME EnrolmentAssumption ==
  /\ TenantOf \in [People -> Tenants] /\ Founders \subseteq People
  /\ Nobody \notin People /\ {Rushed, OldPages} \subseteq BOOLEAN
  /\ MaxTokens \in Nat /\ MaxCodes \in Nat /\ MaxVersion \in Nat \ {0}

VARIABLES
  version,    \* aiul.consent_version
  consents,   \* person -> records: the version written, and the one on the page
  role,       \* person -> "none" (no account), "member", "admin"
  devices,    \* the rows, in the order of their ids
  tokens, codes,   \* how many were made; each is a number
  request,    \* what a request has read and does next
  stored      \* history: whose events were stored last, and under which notice

vars == <<version, consents, role, devices, tokens, codes, request, stored>>

NoCode == 0
NoRow == 0
Free == [pc |-> "free"]
Nothing == [who |-> Nobody]

Init ==
  /\ version = 1
  /\ consents = [p \in People |-> {}]
  /\ role = [p \in People |-> IF p \in Founders THEN "admin" ELSE "none"]
  /\ devices = <<>> /\ tokens = 0 /\ codes = 0
  /\ request = [r \in Requests |-> Free]
  /\ stored = Nothing

At(r, pc) == request[r].pc = pc
Becomes(r, new) == request' = [request EXCEPT ![r] = new]

Ids == DOMAIN devices
ByToken(t) == {d \in Ids : devices[d].token = t}
Named(tenant, host) == {d \in Ids : devices[d].tenant = tenant /\ devices[d].host = host}

HasConsented(p) == \E c \in consents[p] : c.version = version

(* auth and EnsureConsented; the console asks for neither.                 *)
SignedIn(p) == role[p] # "none" /\ HasConsented(p)
Manages(a, p) == SignedIn(a) /\ role[a] = "admin" /\ TenantOf[a] = TenantOf[p]

WebSteps == {"find", "write", "link", "rename", "role"}
MayBegin(r) == At(r, "free") /\ (Rushed \/ \A q \in Requests : request[q].pc \notin WebSteps)

-----------------------------------------------------------------------------
(* The notice.                                                             *)

Deploy ==
  /\ version < MaxVersion /\ version' = version + 1
  /\ UNCHANGED <<consents, role, devices, tokens, codes, request, stored>>

(* The form holds no version: what is written is the one of the moment.    *)
Accept(p, page) ==
  /\ role[p] # "none"
  /\ consents' = [consents EXCEPT ![p] = @ \cup {[version |-> version, page |-> page]}]
  /\ UNCHANGED <<version, role, devices, tokens, codes, request, stored>>

-----------------------------------------------------------------------------
(* Provisioning: a token for a machine, and for a person if one is named.  *)

(* Of several rows with one name the query may find any.                   *)
Kept(found, user) ==
  IF user # Nobody \/ found = {} THEN {user} ELSE {devices[d].owner : d \in found}

Provision(r, tenant, host, user) ==
  /\ MayBegin(r) /\ tokens < MaxTokens /\ tokens' = tokens + 1
  /\ user # Nobody => role[user] # "none" /\ TenantOf[user] = tenant
  /\ \E keep \in Kept(Named(tenant, host), user) :
        Becomes(r, [pc |-> "find", tenant |-> tenant, host |-> host,
                    token |-> tokens + 1, user |-> user, keep |-> keep])
  /\ UNCHANGED <<version, consents, role, devices, codes, stored>>

(* updateOrCreate looks the machine up again.                              *)
Find(r) ==
  /\ At(r, "find")
  /\ LET found == Named(request[r].tenant, request[r].host)
     IN \E d \in IF found = {} THEN {NoRow} ELSE found :
          Becomes(r, [pc |-> "write", d |-> d, as |-> request[r],
                      saw |-> IF d = NoRow THEN Nobody ELSE devices[d].owner])
  /\ UNCHANGED <<version, consents, role, devices, tokens, codes, stored>>

NewRow(me) ==
  [tenant |-> me.tenant, host |-> me.host, owner |-> me.keep, token |-> me.token,
   code |-> NoCode, given |-> me.user]

(* What save() changes of a row that was read when it was saw's.           *)
Granted(row, me, saw) ==
  [row EXCEPT !.token = me.token,
              !.owner = IF me.keep = saw THEN @ ELSE me.keep,
              !.given = IF me.user = Nobody THEN @ ELSE me.user]

Write(r) ==
  LET me == request[r].as
      d == request[r].d
  IN /\ At(r, "write")
     /\ devices' =
          IF d = NoRow THEN Append(devices, NewRow(me))
          ELSE [devices EXCEPT ![d] = Granted(@, me, request[r].saw)]
     /\ Becomes(r, Free)
     /\ UNCHANGED <<version, consents, role, tokens, codes, stored>>

(* Slip: the name is not checked.                                          *)
NameIsAnyones(d, host) == TRUE

NameIsFree(d, host) == Named(devices[d].tenant, host) \subseteq {d}

(* renameDevice, by an administrator, of a machine that is somebody's.     *)
Rename(r, a, d, host) ==
  /\ MayBegin(r)
  /\ devices[d].owner # Nobody /\ Manages(a, devices[d].owner)
  /\ NameIsFree(d, host) /\ host # devices[d].host
  /\ Becomes(r, [pc |-> "rename", d |-> d, host |-> host])
  /\ UNCHANGED <<version, consents, role, devices, tokens, codes, stored>>

Renamed(r) ==
  /\ At(r, "rename")
  /\ devices' = [devices EXCEPT ![request[r].d] = [@ EXCEPT !.host = request[r].host]]
  /\ Becomes(r, Free)
  /\ UNCHANGED <<version, consents, role, tokens, codes, stored>>

-----------------------------------------------------------------------------
(* `aiul login`, on the machine that holds the token.                      *)

(* AuthenticateDevice reads the row; what it saves is no column of this.   *)
Authenticate(r, d, to) ==
  /\ At(r, "free")
  /\ Becomes(r, [pc |-> to, d |-> d, token |-> devices[d].token, owner |-> devices[d].owner])
  /\ UNCHANGED <<version, consents, role, devices, tokens, codes, stored>>

(* Slip: the row is written as it was read.                                *)
WholeRowWithCode(row, c, me) ==
  [row EXCEPT !.code = c, !.owner = me.owner]

WithCode(row, c, me) == [row EXCEPT !.code = c]

Code(r) ==
  /\ At(r, "code") /\ codes < MaxCodes /\ codes' = codes + 1
  /\ devices' = [devices EXCEPT ![request[r].d] = WithCode(@, codes + 1, request[r])]
  /\ Becomes(r, [pc |-> "wait", token |-> request[r].token, code |-> codes + 1])
  /\ UNCHANGED <<version, consents, role, tokens, stored>>

(* An expired code is as good as none: every lookup asks for its time.     *)
CodeExpires(d) ==
  /\ devices[d].code # NoCode
  /\ devices' = [devices EXCEPT ![d] = [@ EXCEPT !.code = NoCode]]
  /\ UNCHANGED <<version, consents, role, tokens, codes, request, stored>>

(* Every three seconds: whose is it?  A refusal is not worth giving up.    *)
Poll(r) ==
  /\ At(r, "wait")
  /\ \E d \in ByToken(request[r].token) :
        /\ devices[d].owner # Nobody
        /\ Becomes(r, [pc |-> "told", code |-> request[r].code, owner |-> devices[d].owner])
  /\ UNCHANGED <<version, consents, role, devices, tokens, codes, stored>>

(* Ten minutes, or Ctrl-C; or it has said whose the machine is.            *)
LoginEnds(r) ==
  /\ At(r, "wait") \/ At(r, "told")
  /\ Becomes(r, Free)
  /\ UNCHANGED <<version, consents, role, devices, tokens, codes, stored>>

(* Slip: the code is looked for in every company.                          *)
ByCodeAnywhere(p, c) == {d \in Ids : devices[d].code = c}

ByCode(p, c) == {d \in Ids : devices[d].code = c /\ devices[d].tenant = TenantOf[p]}

EnterCode(r, p, c) ==
  /\ MayBegin(r) /\ SignedIn(p)
  /\ \E d \in ByCode(p, c) :
        Becomes(r, [pc |-> "link", d |-> d, person |-> p, saw |-> devices[d].owner])
  /\ UNCHANGED <<version, consents, role, devices, tokens, codes, stored>>

LinkedTo(row, p, saw) ==
  [row EXCEPT !.owner = IF p = saw THEN @ ELSE p, !.given = p, !.code = NoCode]

Linked(r) ==
  /\ At(r, "link")
  /\ devices' = [devices EXCEPT ![request[r].d] =
                   LinkedTo(@, request[r].person, request[r].saw)]
  /\ Becomes(r, Free)
  /\ UNCHANGED <<version, consents, role, tokens, codes, stored>>

-----------------------------------------------------------------------------
(* Events.                                                                 *)

(* Slip: what nobody's machine sends is kept too.                          *)
NobodyObjects(p) == p = Nobody \/ HasConsented(p)

Agreed(p) == p # Nobody /\ HasConsented(p)

(* The person is loaded by the owner in the row that was authenticated.    *)
Check(r) ==
  LET p == request[r].owner
  IN /\ At(r, "events")
     /\ Becomes(r, IF Agreed(p)
                   THEN [pc |-> "store", d |-> request[r].d, owner |-> p, version |-> version]
                   ELSE Free)
     /\ UNCHANGED <<version, consents, role, devices, tokens, codes, stored>>

(* Slip: the row is read again.                                            *)
FreshOwner(r) == devices[request[r].d].owner

Owner(r) == request[r].owner

Store(r) ==
  /\ At(r, "store")
  /\ stored' = [who |-> Owner(r), version |-> request[r].version,
                tenant |-> devices[request[r].d].tenant]
  /\ Becomes(r, Free)
  /\ UNCHANGED <<version, consents, role, devices, tokens, codes>>

-----------------------------------------------------------------------------
(* Accounts.                                                               *)

AddPerson(a, p, as) ==
  /\ Manages(a, p) /\ role[p] = "none"
  /\ role' = [role EXCEPT ![p] = as]
  /\ UNCHANGED <<version, consents, devices, tokens, codes, request, stored>>

(* Slip: any role for anybody.                                             *)
AnyChange(a, p, to) == TRUE

(* An administrator cannot take the role from themselves.                  *)
MayChange(a, p, to) == a # p \/ to = "admin"

UpdatePerson(r, a, p, to) ==
  /\ MayBegin(r) /\ Manages(a, p) /\ role[p] \notin {"none", to} /\ MayChange(a, p, to)
  /\ Becomes(r, [pc |-> "role", person |-> p, to |-> to])
  /\ UNCHANGED <<version, consents, role, devices, tokens, codes, stored>>

Updated(r) ==
  /\ At(r, "role")
  /\ role' = [role EXCEPT ![request[r].person] = request[r].to]
  /\ Becomes(r, Free)
  /\ UNCHANGED <<version, consents, devices, tokens, codes, stored>>

-----------------------------------------------------------------------------
Roles == {"member", "admin"}
Pages == IF OldPages THEN 1..version ELSE {version}

Web(r) ==
  \/ \E t \in Tenants, h \in Hosts, u \in People \cup {Nobody} : Provision(r, t, h, u)
  \/ Find(r) \/ Write(r)
  \/ \E a \in People, d \in Ids, h \in Hosts : Rename(r, a, d, h)
  \/ Renamed(r)
  \/ \E p \in People, c \in 1..codes : EnterCode(r, p, c)
  \/ Linked(r)
  \/ \E a, p \in People, to \in Roles : UpdatePerson(r, a, p, to)
  \/ Updated(r)

Machine(r) ==
  \/ \E d \in Ids, to \in {"code", "events"} : Authenticate(r, d, to)
  \/ Code(r) \/ Poll(r) \/ LoginEnds(r)
  \/ Check(r) \/ Store(r)

Next ==
  \/ Deploy
  \/ \E p \in People, page \in Pages : Accept(p, page)
  \/ \E a, p \in People, as \in Roles : AddPerson(a, p, as)
  \/ \E d \in Ids : CodeExpires(d)
  \/ \E r \in Requests : Web(r) \/ Machine(r)

Spec == Init /\ [][Next]_vars

-----------------------------------------------------------------------------
Owners == People \cup {Nobody}

(* The types of the rows, the records and the requests.                    *)
EnrolmentTypeOK ==
  /\ version \in 1..MaxVersion /\ tokens \in 0..MaxTokens /\ codes \in 0..MaxCodes
  /\ consents \in [People -> SUBSET [version : 1..MaxVersion, page : 1..MaxVersion]]
  /\ role \in [People -> Roles \cup {"none"}]
  /\ devices \in Seq([tenant : Tenants, host : Hosts, owner : Owners, given : Owners,
                      token : 1..MaxTokens, code : 0..MaxCodes])
  /\ DOMAIN request = Requests
  /\ \A r \in Requests : request[r].pc \in
       WebSteps \cup {"free", "code", "wait", "told", "events", "store"}
  /\ stored \in {Nothing} \cup [who : People, version : 1..MaxVersion, tenant : Tenants]

(* Device::provision and renameDevice: one record per machine, so that a   *)
(* new token for a name stops the one before it.                           *)
OneRecordPerMachine ==
  \A d, e \in Ids : devices[d].tenant = devices[e].tenant /\ devices[d].host = devices[e].host
                    => d = e

(* A machine belongs to whoever it was last given to, by name or by code,  *)
(* whatever requests of the machine itself, new tokens and new names come  *)
(* between.                                                                *)
OwnerIsTheOneNamed == \A d \in Ids : devices[d].owner = devices[d].given

(* What is stored is a person's who accepted the notice that was in force  *)
(* when the batch was checked, and of that person's own company.           *)
CapturedWithConsent ==
  stored # Nothing => /\ \E c \in consents[stored.who] : c.version = stored.version
                      /\ TenantOf[stored.who] = stored.tenant

(* A company that had an administrator keeps one.                          *)
SomebodyManages ==
  \A f \in Founders : \E p \in People : TenantOf[p] = TenantOf[f] /\ role[p] = "admin"

(* ConsentController: an acceptance is recorded with the version of the    *)
(* notice that was shown.  Refuted.                                        *)
ShownIsAccepted == \A p \in People : \A c \in consents[p] : c.version = c.page

(* login.go: the command waits until the code was entered.  Refuted.       *)
WaitsForTheCode ==
  \A r \in Requests : At(r, "told") =>
    \A d \in Ids : devices[d].code # request[r].code

=============================================================================

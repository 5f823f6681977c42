------------------------- MODULE Enrolment_proofs --------------------------
(***************************************************************************)
(* Whose machine it is and whose events are stored, for any people,        *)
(* companies, names and requests.                                          *)
(***************************************************************************)
EXTENDS Enrolment, SequenceTheorems, TLAPS

Row == [tenant : Tenants, host : Hosts, owner : Owners, given : Owners,
        token : 1..MaxTokens, code : 0..MaxCodes]
Stages == WebSteps \cup {"free", "code", "wait", "told", "events", "store"}
Versions == 1..MaxVersion

(* What provisioning is asked for, and the owner it read.                  *)
Asked(me) ==
  /\ me.tenant \in Tenants /\ me.host \in Hosts /\ me.token \in 1..MaxTokens
  /\ me.user \in Owners /\ me.keep \in Owners

(* What a request has read has its type, and the row it names is there.    *)
Typed(k) ==
  /\ k.pc \in Stages
  /\ k.pc = "find" => Asked(k)
  /\ k.pc = "write" => Asked(k.as) /\ k.d \in Ids \cup {NoRow} /\ k.saw \in Owners
  /\ k.pc = "rename" => k.d \in Ids /\ k.host \in Hosts
  /\ k.pc = "link" => k.d \in Ids /\ k.person \in People /\ k.saw \in Owners
  /\ k.pc = "role" => k.person \in People /\ k.to \in Roles
  /\ k.pc \in {"code", "events"} => k.d \in Ids /\ k.owner \in Owners
  /\ k.pc = "store" => k.d \in Ids /\ k.owner \in People /\ k.version \in Versions
RowsInv == devices \in Seq(Row)
TypeInv ==
  /\ version \in Versions /\ tokens \in 0..MaxTokens /\ codes \in 0..MaxCodes
  /\ consents \in [People -> SUBSET [version : Versions, page : Versions]]
  /\ role \in [People -> Roles \cup {"none"}]
  /\ RowsInv
  /\ DOMAIN request = Requests
  /\ \A r \in Requests : Typed(request[r])
  /\ stored \in {Nothing} \cup [who : People, version : Versions, tenant : Tenants]

(* Whoever a machine is, or is about to be, given to works for the company *)
(* of the machine, and what is stored was agreed to.                       *)
Employed(p, tenant) == p # Nobody => TenantOf[p] = tenant
Agreeing(k) ==
  /\ k.pc = "find" => Employed(k.keep, k.tenant)
  /\ k.pc = "write" => /\ Employed(k.as.keep, k.as.tenant)
                       /\ k.d # NoRow => devices[k.d].tenant = k.as.tenant
  /\ k.pc = "link" => Employed(k.person, devices[k.d].tenant)
  /\ k.pc = "events" => Employed(k.owner, devices[k.d].tenant)
  /\ k.pc = "store" => /\ Employed(k.owner, devices[k.d].tenant)
                       /\ \E c \in consents[k.owner] : c.version = k.version
AgreedInv ==
  /\ \A d \in Ids : Employed(devices[d].owner, devices[d].tenant)
  /\ \A r \in Requests : Agreeing(request[r])
  /\ CapturedWithConsent

(* Rows are not taken away, and stay with their company.                   *)
RowsStay == Ids \subseteq Ids' /\ \A d \in Ids : devices'[d].tenant = devices[d].tenant

LEMMA RowsAreNumbered ==
  ASSUME RowsInv
  PROVE  /\ Ids = 1..Len(devices) /\ Len(devices) \in Nat /\ NoRow \notin Ids
         /\ \A d \in Ids : devices[d] \in Row
<1>1. devices \in Seq(Row)
  BY DEF RowsInv
<1> QED
  BY <1>1 DEF Ids, NoRow

(* A row is replaced, or added at the end; the others stay as they are.    *)
LEMMA RowReplaced ==
  ASSUME RowsInv, NEW d \in Ids, NEW row \in Row,
         devices' = [devices EXCEPT ![d] = row]
  PROVE  /\ RowsInv' /\ Ids' = Ids
         /\ \A e \in Ids : devices'[e] = IF e = d THEN row ELSE devices[e]
<1>1. devices \in Seq(Row) /\ d \in 1..Len(devices)
  BY RowsAreNumbered DEF RowsInv
<1>2. /\ devices' \in Seq(Row) /\ Len(devices') = Len(devices)
      /\ \A e \in 1..Len(devices) : devices'[e] = IF e = d THEN row ELSE devices[e]
  BY <1>1, ExceptSeq
<1> QED
  BY <1>1, <1>2, RowsAreNumbered DEF Ids, RowsInv

LEMMA RowAdded ==
  ASSUME RowsInv, NEW row \in Row,
         devices' = Append(devices, row)
  PROVE  /\ RowsInv' /\ Ids' = Ids \cup {Len(devices) + 1} /\ Len(devices) + 1 \notin Ids
         /\ devices'[Len(devices) + 1] = row
         /\ \A e \in Ids : devices'[e] = devices[e]
<1>1. devices \in Seq(Row) /\ Len(devices) \in Nat /\ Ids = 1..Len(devices)
  BY RowsAreNumbered DEF RowsInv
<1>2. /\ devices' \in Seq(Row) /\ Len(devices') = Len(devices) + 1
      /\ devices'[Len(devices) + 1] = row
      /\ \A e \in 1..Len(devices) : devices'[e] = devices[e]
  BY <1>1, AppendProperties
<1>3. Ids' = 1..Len(devices) + 1
  BY <1>1, <1>2 DEF Ids
<1> QED
  BY <1>1, <1>2, <1>3 DEF RowsInv

(* One request is elsewhere, and the rows the others name are there still. *)
LEMMA OneRequest ==
  ASSUME TypeInv, NEW r \in Requests, NEW new, Becomes(r, new), Typed(new),
         Ids \subseteq Ids'
  PROVE  /\ DOMAIN request' = Requests
         /\ \A q \in Requests : Typed(request[q])'
<1>1. /\ DOMAIN request' = Requests /\ request'[r] = new
      /\ \A q \in Requests : q # r => request'[q] = request[q]
  BY DEF TypeInv, Becomes
<1>2. \A q \in Requests : Typed(request'[q])
  BY <1>1 DEF TypeInv
<1> QED
  BY <1>1, <1>2 DEF Typed

LEMMA FreeIsTyped == Typed(Free) /\ Agreeing(Free)
BY DEF Typed, Agreeing, Free, Stages

LEMMA TypesInitially == Init => TypeInv
<1> SUFFICES ASSUME Init PROVE TypeInv
  OBVIOUS
<1>1. version \in Versions /\ tokens \in 0..MaxTokens /\ codes \in 0..MaxCodes
  BY EnrolmentAssumption DEF Init, Versions
<1>2. RowsInv
  BY DEF Init, RowsInv
<1>3. \A r \in Requests : Typed(request[r])
  BY FreeIsTyped DEF Init
<1> QED
  BY <1>1, <1>2, <1>3 DEF Init, TypeInv, Roles

(* The notice and the accounts.                                            *)
LEMMA TypesAccounts ==
  ASSUME TypeInv,
         \/ Deploy
         \/ \E p \in People, page \in Pages : Accept(p, page)
         \/ \E a, p \in People, as \in Roles : AddPerson(a, p, as)
         \/ \E r \in Requests : Updated(r)
  PROVE  TypeInv'
<1>1. CASE Deploy
  BY <1>1, EnrolmentAssumption DEF Deploy, TypeInv, RowsInv, Typed, Ids, Versions
<1>2. ASSUME NEW p \in People, NEW page \in Pages, Accept(p, page)
      PROVE  TypeInv'
  <2>1. page \in Versions
    BY EnrolmentAssumption DEF TypeInv, Pages, Versions
  <2>2. consents' \in [People -> SUBSET [version : Versions, page : Versions]]
    BY <1>2, <2>1 DEF Accept, TypeInv
  <2> QED
    BY <1>2, <2>2 DEF Accept, TypeInv, RowsInv, Typed, Ids
<1>3. ASSUME NEW a \in People, NEW p \in People, NEW as \in Roles, AddPerson(a, p, as)
      PROVE  TypeInv'
  BY <1>3 DEF AddPerson, TypeInv, RowsInv, Typed, Ids
<1>4. ASSUME NEW r \in Requests, Updated(r)
      PROVE  TypeInv'
  <2>1. request[r].person \in People /\ request[r].to \in Roles
    BY <1>4 DEF Updated, At, TypeInv, Typed
  <2>2. role' \in [People -> Roles \cup {"none"}]
    BY <1>4, <2>1 DEF Updated, TypeInv
  <2>3. DOMAIN request' = Requests /\ \A q \in Requests : Typed(request[q])'
    BY <1>4, OneRequest, FreeIsTyped DEF Updated, Ids
  <2> QED
    BY <1>4, <2>2, <2>3 DEF Updated, TypeInv, RowsInv
<1> QED
  BY <1>1, <1>2, <1>3, <1>4


LEMMA FoundAreRows ==
  ASSUME TypeInv, NEW tenant, NEW host
  PROVE  /\ Named(tenant, host) \subseteq Ids
         /\ \A user \in Owners : Kept(Named(tenant, host), user) \subseteq Owners
<1>1. \A d \in Ids : devices[d].owner \in Owners
  BY RowsAreNumbered DEF TypeInv, Row
<1> QED
  BY <1>1 DEF Named, Kept

(* Requests that have only read.                                           *)
LEMMA TypesReads ==
  ASSUME TypeInv, NEW r \in Requests,
         \/ \E t \in Tenants, h \in Hosts, u \in Owners : Provision(r, t, h, u)
         \/ Find(r) \/ Check(r) \/ Poll(r) \/ LoginEnds(r) \/ Store(r)
         \/ \E a \in People, d \in Ids, h \in Hosts : Rename(r, a, d, h)
         \/ \E p \in People, c \in 1..codes : EnterCode(r, p, c)
         \/ \E a, p \in People, to \in Roles : UpdatePerson(r, a, p, to)
         \/ \E d \in Ids, to \in {"code", "events"} : Authenticate(r, d, to)
  PROVE  TypeInv'
<1>0. /\ Typed(request[r]) /\ \A d \in Ids : devices[d] \in Row
      /\ devices' = devices => RowsInv' /\ Ids' = Ids
  BY RowsAreNumbered DEF TypeInv, RowsInv, Ids
<1> DEFINE Rest == /\ UNCHANGED <<version, consents, role, devices, codes>>
                   /\ tokens' \in 0..MaxTokens
                   /\ stored' \in {Nothing} \cup [who : People, version : Versions, tenant : Tenants]
<1>S. ASSUME NEW new, Typed(new), Becomes(r, new), Rest
      PROVE  TypeInv'
  <2>1. DOMAIN request' = Requests /\ \A q \in Requests : Typed(request[q])'
    BY <1>0, <1>S, OneRequest
  <2> QED
    BY <1>0, <1>S, <2>1 DEF TypeInv
<1>1. ASSUME NEW t \in Tenants, NEW h \in Hosts, NEW u \in Owners, Provision(r, t, h, u)
      PROVE  TypeInv'
  <2>1. PICK keep \in Kept(Named(t, h), u) :
          Becomes(r, [pc |-> "find", tenant |-> t, host |-> h, token |-> tokens + 1,
                      user |-> u, keep |-> keep])
    BY <1>1 DEF Provision
  <2>2. keep \in Owners
    BY FoundAreRows
  <2>3. tokens + 1 \in 1..MaxTokens /\ tokens' = tokens + 1
    BY <1>1, EnrolmentAssumption DEF Provision, TypeInv
  <2>4. Typed([pc |-> "find", tenant |-> t, host |-> h, token |-> tokens + 1,
               user |-> u, keep |-> keep])
    BY <2>2, <2>3 DEF Typed, Asked, Stages, WebSteps
  <2>5. Rest
    BY <1>1, <2>3 DEF Provision, TypeInv
  <2> QED
    BY <2>1, <2>4, <2>5, <1>S
<1>2. CASE Find(r)
  <2>1. PICK d \in Ids \cup {NoRow} :
          Becomes(r, [pc |-> "write", d |-> d, as |-> request[r],
                      saw |-> IF d = NoRow THEN Nobody ELSE devices[d].owner])
    BY <1>2, FoundAreRows DEF Find
  <2>2. Asked(request[r])
    BY <1>0, <1>2 DEF Find, At, Typed
  <2>3. (IF d = NoRow THEN Nobody ELSE devices[d].owner) \in Owners
    BY <1>0 DEF Row, Owners
  <2>4. Typed([pc |-> "write", d |-> d, as |-> request[r],
               saw |-> IF d = NoRow THEN Nobody ELSE devices[d].owner])
    BY <2>2, <2>3 DEF Typed, Stages, WebSteps
  <2>5. Rest
    BY <1>2 DEF Find, TypeInv
  <2> QED
    BY <2>1, <2>4, <2>5, <1>S
<1>3. CASE Check(r)
  <2> DEFINE k == [pc |-> "store", d |-> request[r].d, owner |-> request[r].owner, version |-> version]
  <2>1. request[r].d \in Ids /\ request[r].owner \in Owners
    BY <1>0, <1>3 DEF Check, At, Typed
  <2>2. Agreed(request[r].owner) => Typed(k)
    BY <2>1 DEF Agreed, Typed, Stages, Owners, TypeInv
  <2>3. Rest
    BY <1>3 DEF Check, TypeInv
  <2>4. CASE Agreed(request[r].owner)
    BY <1>3, <2>2, <2>3, <2>4, <1>S DEF Check
  <2>5. CASE ~Agreed(request[r].owner)
    BY <1>3, <2>3, <2>5, <1>S, FreeIsTyped DEF Check
  <2> QED
    BY <2>4, <2>5
<1>4. CASE Poll(r)
  <2>1. PICK d \in Ids :
          Becomes(r, [pc |-> "told", code |-> request[r].code, owner |-> devices[d].owner])
    BY <1>4 DEF Poll, ByToken
  <2>2. Typed([pc |-> "told", code |-> request[r].code, owner |-> devices[d].owner])
    BY DEF Typed, Stages
  <2>3. Rest
    BY <1>4 DEF Poll, TypeInv
  <2> QED
    BY <2>1, <2>2, <2>3, <1>S
<1>5. CASE LoginEnds(r)
  <2>1. Rest
    BY <1>5 DEF LoginEnds, TypeInv
  <2> QED
    BY <1>5, <2>1, <1>S, FreeIsTyped DEF LoginEnds
<1>6. CASE Store(r)
  <2>1. request[r].d \in Ids /\ request[r].owner \in People /\ request[r].version \in Versions
    BY <1>0, <1>6 DEF Store, At, Typed
  <2>2. devices[request[r].d].tenant \in Tenants
    BY <1>0, <2>1 DEF Row
  <2>3. Rest
    BY <1>6, <2>1, <2>2 DEF Store, Owner, TypeInv
  <2> QED
    BY <1>6, <2>3, <1>S, FreeIsTyped DEF Store
<1>7. ASSUME NEW a \in People, NEW d \in Ids, NEW h \in Hosts, Rename(r, a, d, h)
      PROVE  TypeInv'
  <2>1. Typed([pc |-> "rename", d |-> d, host |-> h])
    BY DEF Typed, Stages, WebSteps
  <2>2. Rest
    BY <1>7 DEF Rename, TypeInv
  <2> QED
    BY <1>7, <2>1, <2>2, <1>S DEF Rename
<1>8. ASSUME NEW p \in People, NEW c \in 1..codes, EnterCode(r, p, c)
      PROVE  TypeInv'
  <2>1. PICK d \in Ids : Becomes(r, [pc |-> "link", d |-> d, person |-> p, saw |-> devices[d].owner])
    BY <1>8 DEF EnterCode, ByCode
  <2>2. Typed([pc |-> "link", d |-> d, person |-> p, saw |-> devices[d].owner])
    BY <1>0 DEF Typed, Stages, WebSteps, Row
  <2>3. Rest
    BY <1>8 DEF EnterCode, TypeInv
  <2> QED
    BY <2>1, <2>2, <2>3, <1>S
<1>9. ASSUME NEW a \in People, NEW p \in People, NEW to \in Roles, UpdatePerson(r, a, p, to)
      PROVE  TypeInv'
  <2>1. Typed([pc |-> "role", person |-> p, to |-> to])
    BY DEF Typed, Stages, WebSteps
  <2>2. Rest
    BY <1>9 DEF UpdatePerson, TypeInv
  <2> QED
    BY <1>9, <2>1, <2>2, <1>S DEF UpdatePerson
<1>10. ASSUME NEW d \in Ids, NEW to \in {"code", "events"}, Authenticate(r, d, to)
       PROVE  TypeInv'
  <2>1. Typed([pc |-> to, d |-> d, token |-> devices[d].token, owner |-> devices[d].owner])
    BY <1>0 DEF Typed, Stages, Row
  <2>2. Rest
    BY <1>10 DEF Authenticate, TypeInv
  <2> QED
    BY <1>10, <2>1, <2>2, <1>S DEF Authenticate
<1> QED
  BY <1>1, <1>2, <1>3, <1>4, <1>5, <1>6, <1>7, <1>8, <1>9, <1>10


(* Requests that change a row.                                             *)
LEMMA RowsAreChanged ==
  ASSUME TypeInv, NEW r \in Requests,
         Write(r) \/ Renamed(r) \/ Code(r) \/ Linked(r)
  PROVE  /\ RowsInv' /\ RowsStay
         /\ \A d \in Ids' : \/ d \in Ids /\ devices'[d].owner = devices[d].owner
                            \/ At(r, "write") /\ (d = request[r].d \/ d \notin Ids)
                               /\ devices'[d].owner = request[r].as.keep
                               /\ (d \notin Ids => devices'[d].tenant = request[r].as.tenant)
                            \/ At(r, "link") /\ d = request[r].d
                               /\ devices'[d].owner = request[r].person
<1>0. /\ Typed(request[r]) /\ \A d \in Ids : devices[d] \in Row
      /\ RowsInv /\ NoRow \notin Ids
  BY RowsAreNumbered DEF TypeInv
<1> DEFINE Became(d, new) == devices' = [devices EXCEPT ![d] = new]
<1>S. ASSUME NEW d \in Ids, NEW new \in Row, Became(d, new), new.tenant = devices[d].tenant
      PROVE  /\ RowsInv' /\ RowsStay /\ Ids' = Ids
             /\ \A e \in Ids : devices'[e] = IF e = d THEN new ELSE devices[e]
  <2>1. /\ RowsInv' /\ Ids' = Ids
        /\ \A e \in Ids : devices'[e] = IF e = d THEN new ELSE devices[e]
    BY <1>0, <1>S, RowReplaced
  <2> QED
    BY <1>S, <2>1 DEF RowsStay
<1> HIDE DEF Became
<1>1. ASSUME Write(r), request[r].d # NoRow
      PROVE  /\ RowsInv' /\ RowsStay /\ Ids' = Ids
             /\ \A d \in Ids : \/ devices'[d].owner = devices[d].owner
                               \/ d = request[r].d /\ devices'[d].owner = request[r].as.keep
  <2> DEFINE d == request[r].d
             new == Granted(devices[d], request[r].as, request[r].saw)
  <2>1. d \in Ids /\ Asked(request[r].as)
    BY <1>0, <1>1 DEF Write, At, Typed
  <2>2. new \in Row /\ new.tenant = devices[d].tenant
        /\ new.owner \in {devices[d].owner, request[r].as.keep}
    BY <1>0, <2>1 DEF Granted, Row, Asked
  <2>3. Became(d, new)
    BY <1>1 DEF Write, Became
  <2> HIDE DEF new
  <2> QED
    BY <2>1, <2>2, <2>3, <1>S
<1>2. ASSUME Write(r), request[r].d = NoRow
      PROVE  /\ RowsInv' /\ RowsStay
             /\ \A d \in Ids' : IF d \in Ids THEN devices'[d].owner = devices[d].owner
                                ELSE /\ devices'[d].owner = request[r].as.keep
                                     /\ devices'[d].tenant = request[r].as.tenant
  <2> DEFINE new == NewRow(request[r].as)
  <2>1. Asked(request[r].as)
    BY <1>0, <1>2 DEF Write, At, Typed
  <2>2. new \in Row /\ new.owner = request[r].as.keep /\ new.tenant = request[r].as.tenant
    BY <2>1, EnrolmentAssumption DEF NewRow, Row, Asked, NoCode
  <2>3. devices' = Append(devices, new)
    BY <1>2 DEF Write
  <2> HIDE DEF new
  <2> QED
    BY <1>0, <2>2, <2>3, RowAdded DEF RowsStay
<1>3. ASSUME Renamed(r)
      PROVE  /\ RowsInv' /\ RowsStay /\ Ids' = Ids
             /\ \A d \in Ids : devices'[d].owner = devices[d].owner
  <2> DEFINE d == request[r].d
             new == [devices[d] EXCEPT !.host = request[r].host]
  <2>1. d \in Ids /\ request[r].host \in Hosts
    BY <1>0, <1>3 DEF Renamed, At, Typed
  <2>2. new \in Row /\ new.tenant = devices[d].tenant /\ new.owner = devices[d].owner
    BY <1>0, <2>1 DEF Row
  <2>3. Became(d, new)
    BY <1>3 DEF Renamed, Became
  <2> HIDE DEF new
  <2> QED
    BY <2>1, <2>2, <2>3, <1>S
<1>4. ASSUME Code(r)
      PROVE  /\ RowsInv' /\ RowsStay /\ Ids' = Ids
             /\ \A d \in Ids : devices'[d].owner = devices[d].owner
  <2> DEFINE d == request[r].d
             new == WithCode(devices[d], codes + 1, request[r])
  <2>1. d \in Ids /\ codes + 1 \in 0..MaxCodes
    BY <1>0, <1>4, EnrolmentAssumption DEF Code, At, Typed, TypeInv
  <2>2. new \in Row /\ new.tenant = devices[d].tenant /\ new.owner = devices[d].owner
    BY <1>0, <2>1 DEF Row, WithCode
  <2>3. Became(d, new)
    BY <1>4 DEF Code, Became
  <2> HIDE DEF new
  <2> QED
    BY <2>1, <2>2, <2>3, <1>S
<1>5. ASSUME Linked(r)
      PROVE  /\ RowsInv' /\ RowsStay /\ Ids' = Ids
             /\ \A d \in Ids : \/ devices'[d].owner = devices[d].owner
                               \/ d = request[r].d /\ devices'[d].owner = request[r].person
  <2> DEFINE d == request[r].d
             new == LinkedTo(devices[d], request[r].person, request[r].saw)
  <2>1. d \in Ids /\ request[r].person \in People
    BY <1>0, <1>5 DEF Linked, At, Typed
  <2>2. new \in Row /\ new.tenant = devices[d].tenant
        /\ new.owner \in {devices[d].owner, request[r].person}
    <3>1. devices[d] \in Row /\ 0 \in 0..MaxCodes /\ request[r].person \in Owners
      BY <1>0, <2>1, EnrolmentAssumption DEF Owners
    <3> QED
      BY <3>1 DEF Row, LinkedTo, NoCode
  <2>3. Became(d, new)
    BY <1>5 DEF Linked, Became
  <2> HIDE DEF new
  <2> QED
    BY <2>1, <2>2, <2>3, <1>S
<1> QED
  BY <1>1, <1>2, <1>3, <1>4, <1>5 DEF Write, Linked

LEMMA WaitingIsTyped ==
  ASSUME NEW t, NEW c
  PROVE  /\ Typed([pc |-> "wait", token |-> t, code |-> c])
         /\ Agreeing([pc |-> "wait", token |-> t, code |-> c])
BY DEF Typed, Agreeing, Stages

LEMMA TypesRows ==
  ASSUME TypeInv, NEW r \in Requests,
         Write(r) \/ Renamed(r) \/ Code(r) \/ Linked(r)
  PROVE  TypeInv'
<1>1. RowsInv' /\ Ids \subseteq Ids'
  BY RowsAreChanged DEF RowsStay
<1>2. /\ UNCHANGED <<version, consents, role, tokens, stored>>
      /\ codes' \in 0..MaxCodes
  BY EnrolmentAssumption DEF Write, Renamed, Code, Linked, TypeInv
<1>3. CASE Code(r)
  <2>1. DOMAIN request' = Requests /\ \A q \in Requests : Typed(request[q])'
    BY <1>1, <1>3, WaitingIsTyped, OneRequest DEF Code
  <2> QED
    BY <1>1, <1>2, <2>1 DEF TypeInv
<1>4. CASE Write(r) \/ Renamed(r) \/ Linked(r)
  <2>1. DOMAIN request' = Requests /\ \A q \in Requests : Typed(request[q])'
    BY <1>1, <1>4, FreeIsTyped, OneRequest DEF Write, Renamed, Linked
  <2> QED
    BY <1>1, <1>2, <2>1 DEF TypeInv
<1> QED
  BY <1>3, <1>4

LEMMA TypesExpiry ==
  ASSUME TypeInv, NEW d \in Ids, CodeExpires(d)
  PROVE  /\ TypeInv' /\ RowsStay /\ Ids' = Ids
         /\ \A e \in Ids : devices'[e].owner = devices[e].owner
<1> DEFINE new == [devices[d] EXCEPT !.code = NoCode]
<1>1. new \in Row /\ new.owner = devices[d].owner /\ new.tenant = devices[d].tenant
  BY RowsAreNumbered, EnrolmentAssumption DEF TypeInv, Row, NoCode
<1>2. devices' = [devices EXCEPT ![d] = new]
  BY DEF CodeExpires
<1> HIDE DEF new
<1>3. /\ RowsInv' /\ Ids' = Ids
      /\ \A e \in Ids : devices'[e] = IF e = d THEN new ELSE devices[e]
  BY <1>1, <1>2, RowReplaced DEF TypeInv
<1>4. \A q \in Requests : Typed(request[q])'
  BY <1>3 DEF CodeExpires, TypeInv, Typed
<1> QED
  BY <1>1, <1>3, <1>4 DEF CodeExpires, TypeInv, RowsStay

LEMMA TypesStep ==
  ASSUME TypeInv, [Next]_vars
  PROVE  TypeInv'
<1>1. CASE UNCHANGED vars
  BY <1>1 DEF vars, TypeInv, RowsInv, Typed, Ids
<1>2. ASSUME NEW r \in Requests, Web(r)
      PROVE  TypeInv'
  BY <1>2, TypesReads, TypesRows, TypesAccounts DEF Web, Owners
<1>3. ASSUME NEW r \in Requests, Machine(r)
      PROVE  TypeInv'
  BY <1>3, TypesReads, TypesRows DEF Machine
<1> QED
  BY <1>1, <1>2, <1>3, TypesAccounts, TypesExpiry DEF Next

(* Rows, consents and requests keep their types.                           *)
THEOREM TypesHold == Spec => []EnrolmentTypeOK
<1>1. TypeInv => EnrolmentTypeOK
  BY DEF TypeInv, RowsInv, Row, EnrolmentTypeOK, Typed, Stages, Versions
<1>2. TypeInv /\ [Next]_vars => TypeInv'
  BY TypesStep
<1> QED
  BY TypesInitially, <1>1, <1>2, PTL DEF Spec


-----------------------------------------------------------------------------
(* What is stored.                                                         *)

(* Consents are only ever added, and rows stay with their company: what    *)
(* the other requests hold remains true.                                   *)
LEMMA StillAgreeing ==
  ASSUME TypeInv, AgreedInv, RowsStay, NEW q \in Requests, request'[q] = request[q],
         \A p \in People : consents[p] \subseteq consents'[p]
  PROVE  Agreeing(request[q])'
<1>1. Typed(request[q]) /\ Agreeing(request[q])
  BY DEF TypeInv, AgreedInv
<1> QED
  BY <1>1 DEF Typed, Agreeing, RowsStay, Employed

LEMMA OneAgreeing ==
  ASSUME TypeInv, AgreedInv, RowsStay, NEW r \in Requests, NEW new, Becomes(r, new),
         Typed(new), Agreeing(new), UNCHANGED consents
  PROVE  \A q \in Requests : Agreeing(request[q])'
<1>1. /\ request'[r] = new
      /\ \A q \in Requests : q # r => request'[q] = request[q]
  BY DEF TypeInv, Becomes
<1>2. Agreeing(request[r])'
  BY <1>1 DEF Typed, Agreeing, RowsStay, Employed
<1>3. \A q \in Requests : q # r => Agreeing(request[q])'
  BY <1>1, StillAgreeing
<1> QED
  BY <1>2, <1>3

LEMMA AgreedInitially == Init => AgreedInv
<1> SUFFICES ASSUME Init PROVE AgreedInv
  OBVIOUS
<1>1. Ids = {}
  BY DEF Init, Ids
<1>2. \A r \in Requests : Agreeing(request[r])
  BY FreeIsTyped DEF Init
<1> QED
  BY <1>1, <1>2 DEF Init, AgreedInv, CapturedWithConsent

LEMMA AgreedAccounts ==
  ASSUME TypeInv, AgreedInv,
         \/ Deploy
         \/ \E p \in People, page \in Pages : Accept(p, page)
         \/ \E a, p \in People, as \in Roles : AddPerson(a, p, as)
         \/ \E r \in Requests : Updated(r)
  PROVE  AgreedInv'
<1>1. /\ UNCHANGED <<devices, stored>> /\ RowsStay /\ Ids' = Ids
      /\ \A p \in People : consents[p] \subseteq consents'[p]
  BY DEF Deploy, Accept, AddPerson, Updated, RowsStay, Ids, TypeInv
<1>2. \A q \in Requests : Agreeing(request[q])'
  <2>1. ASSUME NEW r \in Requests, Updated(r)
        PROVE  \A q \in Requests : Agreeing(request[q])'
    BY <1>1, <2>1, OneAgreeing, FreeIsTyped DEF Updated
  <2>2. CASE UNCHANGED request
    BY <1>1, <2>2, StillAgreeing
  <2> QED
    BY <2>1, <2>2 DEF Deploy, Accept, AddPerson
<1>3. CapturedWithConsent'
  <2> SUFFICES ASSUME stored # Nothing
               PROVE  /\ \E c \in consents'[stored.who] : c.version = stored.version
                      /\ TenantOf[stored.who] = stored.tenant
    BY <1>1 DEF CapturedWithConsent
  <2> QED
    BY <1>1 DEF AgreedInv, CapturedWithConsent, TypeInv
<1> QED
  BY <1>1, <1>2, <1>3 DEF AgreedInv

LEMMA AgreedReads ==
  ASSUME TypeInv, AgreedInv, NEW r \in Requests,
         \/ \E t \in Tenants, h \in Hosts, u \in Owners : Provision(r, t, h, u)
         \/ Find(r) \/ Check(r) \/ Poll(r) \/ LoginEnds(r) \/ Store(r)
         \/ \E a \in People, d \in Ids, h \in Hosts : Rename(r, a, d, h)
         \/ \E p \in People, c \in 1..codes : EnterCode(r, p, c)
         \/ \E a, p \in People, to \in Roles : UpdatePerson(r, a, p, to)
         \/ \E d \in Ids, to \in {"code", "events"} : Authenticate(r, d, to)
  PROVE  AgreedInv'
<1>0. /\ Typed(request[r]) /\ Agreeing(request[r]) /\ \A d \in Ids : devices[d] \in Row
      /\ NoRow \notin Ids
      /\ \A d \in Ids : Employed(devices[d].owner, devices[d].tenant)
  BY RowsAreNumbered DEF TypeInv, AgreedInv
<1>1. /\ UNCHANGED <<devices, consents>> /\ RowsStay
  BY DEF Provision, Find, Check, Poll, LoginEnds, Store, Rename, EnterCode, UpdatePerson,
         Authenticate, RowsStay, Ids
<1>2. \A q \in Requests : q # r => request'[q] = request[q]
  BY DEF Provision, Find, Check, Poll, LoginEnds, Store, Rename, EnterCode, UpdatePerson,
         Authenticate, Becomes, TypeInv
<1>3. TypeInv'
  BY TypesReads
<1>4. \A q \in Requests : q # r => Agreeing(request[q])'
  BY <1>1, <1>2, StillAgreeing
<1>S. ASSUME NEW new, Becomes(r, new), Agreeing(new)
      PROVE  \A q \in Requests : Agreeing(request[q])'
  <2>1. request'[r] = new
    BY <1>S DEF Becomes, TypeInv
  <2>2. Agreeing(request[r])'
    BY <1>S, <1>1, <2>1 DEF Agreeing
  <2> QED
    BY <1>4, <2>2
<1>5. ASSUME UNCHANGED stored, \A q \in Requests : Agreeing(request[q])'
      PROVE  AgreedInv'
  BY <1>0, <1>1, <1>5 DEF AgreedInv, CapturedWithConsent, Ids
<1>6. ASSUME NEW t \in Tenants, NEW h \in Hosts, NEW u \in Owners, Provision(r, t, h, u)
      PROVE  AgreedInv'
  <2>1. PICK keep \in Kept(Named(t, h), u) :
          Becomes(r, [pc |-> "find", tenant |-> t, host |-> h, token |-> tokens + 1,
                      user |-> u, keep |-> keep])
    BY <1>6 DEF Provision
  <2>2. Employed(keep, t)
    BY <1>0, <1>6 DEF Kept, Named, Employed, Provision
  <2>3. Agreeing([pc |-> "find", tenant |-> t, host |-> h, token |-> tokens + 1,
                  user |-> u, keep |-> keep])
    BY <2>2 DEF Agreeing
  <2> QED
    BY <2>1, <2>3, <1>S, <1>5, <1>6 DEF Provision
<1>7. CASE Find(r)
  <2>1. PICK d \in Named(request[r].tenant, request[r].host) \cup {NoRow} :
          Becomes(r, [pc |-> "write", d |-> d, as |-> request[r],
                      saw |-> IF d = NoRow THEN Nobody ELSE devices[d].owner])
    BY <1>7 DEF Find
  <2>2. Employed(request[r].keep, request[r].tenant)
    BY <1>0, <1>7 DEF Find, At, Agreeing
  <2>3. d # NoRow => devices[d].tenant = request[r].tenant
    BY DEF Named
  <2>4. Agreeing([pc |-> "write", d |-> d, as |-> request[r],
                  saw |-> IF d = NoRow THEN Nobody ELSE devices[d].owner])
    BY <2>2, <2>3 DEF Agreeing
  <2> QED
    BY <2>1, <2>4, <1>S, <1>5, <1>7 DEF Find
<1>8. CASE Check(r)
  <2> DEFINE p == request[r].owner
             k == [pc |-> "store", d |-> request[r].d, owner |-> p, version |-> version]
  <2>1. Employed(p, devices[request[r].d].tenant)
    BY <1>0, <1>8 DEF Check, At, Agreeing
  <2>2. Agreed(p) => Agreeing(k)
    BY <2>1 DEF Agreed, HasConsented, Agreeing
  <2>3. CASE Agreed(p)
    BY <1>8, <2>2, <2>3, <1>S, <1>5 DEF Check
  <2>4. CASE ~Agreed(p)
    BY <1>8, <2>4, FreeIsTyped, <1>S, <1>5 DEF Check
  <2> QED
    BY <2>3, <2>4
<1>9. CASE Store(r)
  <2>1. /\ request[r].owner \in People
        /\ Employed(request[r].owner, devices[request[r].d].tenant)
        /\ \E c \in consents[request[r].owner] : c.version = request[r].version
    BY <1>0, <1>9 DEF Store, At, Agreeing, Typed
  <2>2. CapturedWithConsent'
    BY <1>1, <1>9, <2>1, EnrolmentAssumption DEF Store, Owner, Employed, CapturedWithConsent
  <2>3. \A q \in Requests : Agreeing(request[q])'
    BY <1>9, FreeIsTyped, <1>S DEF Store
  <2> QED
    BY <1>0, <1>1, <2>2, <2>3 DEF AgreedInv, Ids
<1>10. CASE Poll(r)
  <2>1. PICK d \in Ids :
          Becomes(r, [pc |-> "told", code |-> request[r].code, owner |-> devices[d].owner])
    BY <1>10 DEF Poll, ByToken
  <2>2. Agreeing([pc |-> "told", code |-> request[r].code, owner |-> devices[d].owner])
    BY DEF Agreeing
  <2> QED
    BY <2>1, <2>2, <1>S, <1>5, <1>10 DEF Poll
<1>11. CASE LoginEnds(r)
  BY <1>11, FreeIsTyped, <1>S, <1>5 DEF LoginEnds
<1>12. ASSUME NEW a \in People, NEW d \in Ids, NEW h \in Hosts, Rename(r, a, d, h)
       PROVE  AgreedInv'
  <2>1. Agreeing([pc |-> "rename", d |-> d, host |-> h])
    BY DEF Agreeing
  <2> QED
    BY <2>1, <1>S, <1>5, <1>12 DEF Rename
<1>13. ASSUME NEW p \in People, NEW c \in 1..codes, EnterCode(r, p, c)
       PROVE  AgreedInv'
  <2>1. PICK d \in ByCode(p, c) :
          Becomes(r, [pc |-> "link", d |-> d, person |-> p, saw |-> devices[d].owner])
    BY <1>13 DEF EnterCode
  <2>2. Agreeing([pc |-> "link", d |-> d, person |-> p, saw |-> devices[d].owner])
    BY DEF Agreeing, Employed, ByCode
  <2> QED
    BY <2>1, <2>2, <1>S, <1>5, <1>13 DEF EnterCode
<1>14. ASSUME NEW a \in People, NEW p \in People, NEW to \in Roles, UpdatePerson(r, a, p, to)
       PROVE  AgreedInv'
  <2>1. Agreeing([pc |-> "role", person |-> p, to |-> to])
    BY DEF Agreeing
  <2> QED
    BY <2>1, <1>S, <1>5, <1>14 DEF UpdatePerson
<1>15. ASSUME NEW d \in Ids, NEW to \in {"code", "events"}, Authenticate(r, d, to)
       PROVE  AgreedInv'
  <2>1. Agreeing([pc |-> to, d |-> d, token |-> devices[d].token, owner |-> devices[d].owner])
    BY <1>0 DEF Agreeing
  <2> QED
    BY <2>1, <1>S, <1>5, <1>15 DEF Authenticate
<1> QED
  BY <1>6, <1>7, <1>8, <1>9, <1>10, <1>11, <1>12, <1>13, <1>14, <1>15

(* A row's new owner works for the row's company.                          *)
LEMMA AgreedRows ==
  ASSUME TypeInv, AgreedInv, NEW r \in Requests,
         Write(r) \/ Renamed(r) \/ Code(r) \/ Linked(r)
  PROVE  AgreedInv'
<1>0. Typed(request[r]) /\ Agreeing(request[r])
  BY DEF TypeInv, AgreedInv
<1>1. RowsStay
  BY RowsAreChanged
<1>2. \A d \in Ids' : Employed(devices[d].owner, devices[d].tenant)'
  <2> SUFFICES ASSUME NEW d \in Ids'
               PROVE  Employed(devices'[d].owner, devices'[d].tenant)
    BY DEF Employed
  <2>1. CASE d \in Ids /\ devices'[d].owner = devices[d].owner
    BY <1>1, <2>1 DEF RowsStay, AgreedInv
  <2>2. CASE At(r, "write") /\ d \notin Ids /\ devices'[d].owner = request[r].as.keep
               /\ devices'[d].tenant = request[r].as.tenant
    BY <1>0, <2>2 DEF At, Agreeing
  <2>3. CASE At(r, "write") /\ d \in Ids /\ d = request[r].d
               /\ devices'[d].owner = request[r].as.keep
    <3>1. d # NoRow
      BY <2>3, RowsAreNumbered DEF TypeInv
    <3> QED
      BY <1>0, <1>1, <2>3, <3>1 DEF At, Agreeing, RowsStay
  <2>4. CASE At(r, "link") /\ d = request[r].d /\ devices'[d].owner = request[r].person
    BY <1>0, <1>1, <2>4 DEF At, Agreeing, Typed, RowsStay
  <2> QED
    BY <2>1, <2>2, <2>3, <2>4, RowsAreChanged
<1>3. \A q \in Requests : Agreeing(request[q])'
  <2>1. UNCHANGED consents
    BY DEF Write, Renamed, Code, Linked
  <2>2. CASE Code(r)
    BY <1>1, <2>1, <2>2, WaitingIsTyped, OneAgreeing DEF Code
  <2>3. CASE Write(r) \/ Renamed(r) \/ Linked(r)
    BY <1>1, <2>1, <2>3, FreeIsTyped, OneAgreeing DEF Write, Renamed, Linked
  <2> QED
    BY <2>2, <2>3
<1>4. CapturedWithConsent'
  BY DEF Write, Renamed, Code, Linked, AgreedInv, CapturedWithConsent
<1> QED
  BY <1>2, <1>3, <1>4 DEF AgreedInv

LEMMA AgreedExpiry ==
  ASSUME TypeInv, AgreedInv, NEW d \in Ids, CodeExpires(d)
  PROVE  AgreedInv'
<1>1. /\ RowsStay /\ Ids' = Ids /\ \A e \in Ids : devices'[e].owner = devices[e].owner
      /\ UNCHANGED <<consents, request, stored>>
  BY TypesExpiry DEF CodeExpires
<1>2. \A q \in Requests : Agreeing(request[q])'
  BY <1>1, StillAgreeing
<1>3. \A e \in Ids : Employed(devices[e].owner, devices[e].tenant)'
  BY <1>1 DEF AgreedInv, RowsStay, Employed
<1> QED
  BY <1>1, <1>2, <1>3 DEF AgreedInv, CapturedWithConsent

LEMMA AgreedStep ==
  ASSUME TypeInv, AgreedInv, [Next]_vars
  PROVE  AgreedInv'
<1>1. CASE UNCHANGED vars
  BY <1>1 DEF vars, AgreedInv, Agreeing, CapturedWithConsent, Ids
<1>2. ASSUME NEW r \in Requests, Web(r)
      PROVE  AgreedInv'
  BY <1>2, AgreedReads, AgreedRows, AgreedAccounts DEF Web, Owners
<1>3. ASSUME NEW r \in Requests, Machine(r)
      PROVE  AgreedInv'
  BY <1>3, AgreedReads, AgreedRows DEF Machine
<1> QED
  BY <1>1, <1>2, <1>3, AgreedAccounts, AgreedExpiry DEF Next

(* However requests of machines, people and administrators interleave,     *)
(* what is stored is of somebody who accepted the notice in force when the *)
(* batch was checked, and is stored with that person's own company         *)
(* (EventIngestionController, Device::provision, PairDeviceController).    *)
THEOREM OnlyWithConsent == Spec => []CapturedWithConsent
<1>1. TypeInv /\ AgreedInv /\ [Next]_vars => (TypeInv /\ AgreedInv)'
  BY TypesStep, AgreedStep
<1>2. AgreedInv => CapturedWithConsent
  BY DEF AgreedInv
<1> QED
  BY TypesInitially, AgreedInitially, <1>1, <1>2, PTL DEF Spec


-----------------------------------------------------------------------------
(* One request of the web or the console at a time.                        *)

(* What such a request has read is still so when it writes.                *)
Current(k) ==
  /\ k.pc = "find" => k.keep \in Kept(Named(k.tenant, k.host), k.user)
  /\ k.pc = "write" =>
       /\ k.as.keep \in Kept(Named(k.as.tenant, k.as.host), k.as.user)
       /\ k.d = NoRow => Named(k.as.tenant, k.as.host) = {}
       /\ k.d # NoRow => k.d \in Named(k.as.tenant, k.as.host) /\ k.saw = devices[k.d].owner
  /\ k.pc = "rename" => NameIsFree(k.d, k.host)
  /\ k.pc = "link" => k.saw = devices[k.d].owner
  /\ k.pc = "role" => \E a \in People : /\ TenantOf[a] = TenantOf[k.person]
                                        /\ role[a] = "admin"
                                        /\ MayChange(a, k.person, k.to)
Idle(q) == request[q].pc \notin WebSteps
Alone == \A r, q \in Requests : r # q => Idle(r) \/ Idle(q)
LineInv ==
  /\ Alone /\ \A r \in Requests : Current(request[r])
  /\ OneRecordPerMachine /\ OwnerIsTheOneNamed /\ SomebodyManages

LEMMA IdleIsCurrent ==
  ASSUME NEW q, Idle(q)
  PROVE  Current(request[q])
BY DEF Idle, WebSteps, Current

(* The others are idle: only the request that steps has anything to keep.  *)
LEMMA OthersAreIdle ==
  ASSUME TypeInv, NEW r \in Requests, NEW new, Becomes(r, new),
         \A q \in Requests : q # r => Idle(q)
  PROVE  /\ request'[r] = new /\ Alone'
         /\ \A q \in Requests : q # r => Current(request[q])'
<1>1. /\ request'[r] = new
      /\ \A q \in Requests : q # r => request'[q] = request[q]
  BY DEF TypeInv, Becomes
<1>2. \A q \in Requests : q # r => Idle(q)'
  BY <1>1 DEF Idle
<1>3. \A q \in Requests : q # r => Current(request[q])'
  BY <1>2 DEF Idle, WebSteps, Current
<1> QED
  BY <1>1, <1>2, <1>3 DEF Alone

(* Rows that keep company, name and owner, and administrators who stay.    *)
LEMMA StillCurrent ==
  ASSUME TypeInv, NEW q \in Requests, request'[q] = request[q], Current(request[q]),
         Ids' = Ids,
         \A d \in Ids : /\ devices'[d].tenant = devices[d].tenant
                        /\ devices'[d].host = devices[d].host
                        /\ devices'[d].owner = devices[d].owner,
         \A a \in People : role[a] = "admin" => role'[a] = "admin"
  PROVE  Current(request[q])'
<1>1. \A t, h : Named(t, h)' = Named(t, h)
  BY DEF Named
<1>2. \A t, h, u : Kept(Named(t, h), u)' = Kept(Named(t, h), u)
  <2> SUFFICES ASSUME NEW t, NEW h, NEW u
               PROVE  Kept(Named(t, h), u)' = Kept(Named(t, h), u)
    OBVIOUS
  <2>1. Named(t, h)' = Named(t, h) /\ Named(t, h) \subseteq Ids
    BY <1>1 DEF Named
  <2>2. {devices'[d].owner : d \in Named(t, h)} = {devices[d].owner : d \in Named(t, h)}
    BY <2>1
  <2> QED
    BY <2>1, <2>2 DEF Kept
<1>3. Typed(request[q])
  BY DEF TypeInv
<1> QED
  BY <1>1, <1>2, <1>3 DEF Current, Typed, NameIsFree, MayChange

LEMMA LineInitially == Init => LineInv
<1> SUFFICES ASSUME Init PROVE LineInv
  OBVIOUS
<1>1. Ids = {}
  BY DEF Init, Ids
<1>2. \A r \in Requests : Idle(r) /\ Current(request[r])
  BY DEF Init, Free, Idle, Current, WebSteps
<1>3. SomebodyManages
  BY EnrolmentAssumption DEF Init, SomebodyManages
<1> QED
  BY <1>1, <1>2, <1>3 DEF LineInv, Alone, OneRecordPerMachine, OwnerIsTheOneNamed

(* What nobody's turn is needed for: the notice, accounts, the machines.   *)
LEMMA LineBeside ==
  ASSUME TypeInv, LineInv,
         \/ Deploy
         \/ \E p \in People, page \in Pages : Accept(p, page)
         \/ \E a, p \in People, as \in Roles : AddPerson(a, p, as)
         \/ \E d \in Ids : CodeExpires(d)
         \/ \E r \in Requests : Machine(r)
  PROVE  LineInv'
<1> DEFINE SameRows ==
             /\ Ids' = Ids
             /\ \A d \in Ids : /\ devices'[d].tenant = devices[d].tenant
                               /\ devices'[d].host = devices[d].host
                               /\ devices'[d].owner = devices[d].owner
                               /\ devices'[d].given = devices[d].given
           SameRoles == \A a \in People : role[a] = "admin" => role'[a] = "admin"
<1>S. ASSUME SameRows, SameRoles,
             \A q \in Requests : Idle(q)' \/ request'[q] = request[q]
      PROVE  LineInv'
  <2>1. \A q \in Requests : Current(request[q])'
    <3> SUFFICES ASSUME NEW q \in Requests PROVE Current(request[q])'
      OBVIOUS
    <3>1. CASE Idle(q)'
      BY <3>1 DEF Idle, WebSteps, Current
    <3>2. CASE request'[q] = request[q]
      BY <1>S, <3>2, StillCurrent DEF LineInv
    <3> QED
      BY <1>S, <3>1, <3>2
  <2>2. Alone'
    BY <1>S DEF Alone, Idle, LineInv
  <2>3. OneRecordPerMachine' /\ OwnerIsTheOneNamed' /\ SomebodyManages'
    BY <1>S DEF LineInv, OneRecordPerMachine, OwnerIsTheOneNamed, SomebodyManages
  <2> QED
    BY <2>1, <2>2, <2>3 DEF LineInv
<1>1. ASSUME NEW d \in Ids, NEW new \in Row, devices' = [devices EXCEPT ![d] = new],
             new.tenant = devices[d].tenant, new.host = devices[d].host,
             new.owner = devices[d].owner, new.given = devices[d].given
      PROVE  SameRows
  <2>1. /\ Ids' = Ids
        /\ \A e \in Ids : devices'[e] = IF e = d THEN new ELSE devices[e]
    BY <1>1, RowReplaced DEF TypeInv
  <2> QED
    BY <1>1, <2>1
<1>2. devices' = devices => SameRows
  BY DEF Ids
<1>3. CASE \/ Deploy
           \/ \E p \in People, page \in Pages : Accept(p, page)
           \/ \E a, p \in People, as \in Roles : AddPerson(a, p, as)
  <2>1. SameRoles /\ UNCHANGED <<request, devices>>
    BY <1>3 DEF Deploy, Accept, AddPerson, TypeInv
  <2> QED
    BY <2>1, <1>2, <1>S
<1>4. ASSUME NEW d \in Ids, CodeExpires(d)
      PROVE  LineInv'
  <2> DEFINE new == [devices[d] EXCEPT !.code = NoCode]
  <2>1. /\ new \in Row /\ new.tenant = devices[d].tenant /\ new.host = devices[d].host
        /\ new.owner = devices[d].owner /\ new.given = devices[d].given
    BY RowsAreNumbered, EnrolmentAssumption DEF TypeInv, Row, NoCode
  <2>2. devices' = [devices EXCEPT ![d] = new] /\ UNCHANGED <<request, role>>
    BY <1>4 DEF CodeExpires
  <2> HIDE DEF new
  <2> QED
    BY <2>1, <2>2, <1>1, <1>S
<1>5. ASSUME NEW r \in Requests, Code(r)
      PROVE  LineInv'
  <2> DEFINE d == request[r].d
             new == WithCode(devices[d], codes + 1, request[r])
  <2>1. d \in Ids /\ codes + 1 \in 0..MaxCodes
    BY <1>5, EnrolmentAssumption DEF Code, At, Typed, TypeInv
  <2>2. /\ new \in Row /\ new.tenant = devices[d].tenant /\ new.host = devices[d].host
        /\ new.owner = devices[d].owner /\ new.given = devices[d].given
    <3>1. devices[d] \in Row
      BY <2>1, RowsAreNumbered DEF TypeInv
    <3> QED
      BY <2>1, <3>1 DEF Row, WithCode
  <2>3. devices' = [devices EXCEPT ![d] = new] /\ UNCHANGED role
    BY <1>5 DEF Code
  <2>4. \A q \in Requests : Idle(q)' \/ request'[q] = request[q]
    BY <1>5 DEF Code, Becomes, Idle, WebSteps, TypeInv
  <2> HIDE DEF new, d
  <2> QED
    BY <2>1, <2>2, <2>3, <2>4, <1>1, <1>S
<1>6. ASSUME NEW r \in Requests,
             \/ Poll(r) \/ LoginEnds(r) \/ Check(r) \/ Store(r)
             \/ \E d \in Ids, to \in {"code", "events"} : Authenticate(r, d, to)
      PROVE  LineInv'
  <2>1. \A q \in Requests : Idle(q)' \/ request'[q] = request[q]
    BY <1>6 DEF Poll, LoginEnds, Check, Store, Authenticate, Becomes, Idle, WebSteps, Free, TypeInv
  <2>2. UNCHANGED <<devices, role>>
    BY <1>6 DEF Poll, LoginEnds, Check, Store, Authenticate
  <2> QED
    BY <2>1, <2>2, <1>2, <1>S
<1> QED
  BY <1>3, <1>4, <1>5, <1>6 DEF Machine


(* A request that only reads: the one whose turn it is.                    *)
LEMMA LineReads ==
  ASSUME TypeInv, LineInv, ~Rushed, NEW r \in Requests,
         \/ \E t \in Tenants, h \in Hosts, u \in Owners : Provision(r, t, h, u)
         \/ Find(r)
         \/ \E a \in People, d \in Ids, h \in Hosts : Rename(r, a, d, h)
         \/ \E p \in People, c \in 1..codes : EnterCode(r, p, c)
         \/ \E a, p \in People, to \in Roles : UpdatePerson(r, a, p, to)
  PROVE  LineInv'
<1>1. \A q \in Requests : q # r => Idle(q)
  BY DEF Provision, Find, Rename, EnterCode, UpdatePerson, MayBegin, At, Idle, WebSteps,
         LineInv, Alone
<1>2. UNCHANGED <<devices, role>>
  BY DEF Provision, Find, Rename, EnterCode, UpdatePerson
<1>S. ASSUME NEW new, Becomes(r, new), Current(new)
      PROVE  LineInv'
  <2>1. /\ request'[r] = new /\ Alone'
        /\ \A q \in Requests : q # r => Current(request[q])'
    BY <1>1, <1>S, OthersAreIdle
  <2>2. Current(request[r])'
    BY <1>S, <1>2, <2>1 DEF Current, Named, Kept, Ids, NameIsFree, MayChange
  <2> QED
    BY <1>2, <2>1, <2>2 DEF LineInv, OneRecordPerMachine, OwnerIsTheOneNamed,
                            SomebodyManages, Ids
<1>3. ASSUME NEW t \in Tenants, NEW h \in Hosts, NEW u \in Owners, Provision(r, t, h, u)
      PROVE  LineInv'
  <2>1. PICK keep \in Kept(Named(t, h), u) :
          Becomes(r, [pc |-> "find", tenant |-> t, host |-> h, token |-> tokens + 1,
                      user |-> u, keep |-> keep])
    BY <1>3 DEF Provision
  <2>2. Current([pc |-> "find", tenant |-> t, host |-> h, token |-> tokens + 1,
                 user |-> u, keep |-> keep])
    BY DEF Current
  <2> QED
    BY <2>1, <2>2, <1>S
<1>4. CASE Find(r)
  <2> DEFINE me == request[r]
             found == Named(me.tenant, me.host)
  <2>1. PICK d \in IF found = {} THEN {NoRow} ELSE found :
          Becomes(r, [pc |-> "write", d |-> d, as |-> me,
                      saw |-> IF d = NoRow THEN Nobody ELSE devices[d].owner])
    BY <1>4 DEF Find
  <2>2. me.keep \in Kept(found, me.user)
    BY <1>4 DEF Find, At, LineInv, Current
  <2>3. d = NoRow <=> found = {}
    BY <2>1, RowsAreNumbered DEF Named, TypeInv
  <2>4. Current([pc |-> "write", d |-> d, as |-> me,
                 saw |-> IF d = NoRow THEN Nobody ELSE devices[d].owner])
    BY <2>2, <2>3 DEF Current
  <2> QED
    BY <2>1, <2>4, <1>S
<1>5. ASSUME NEW a \in People, NEW d \in Ids, NEW h \in Hosts, Rename(r, a, d, h)
      PROVE  LineInv'
  <2>1. Current([pc |-> "rename", d |-> d, host |-> h])
    BY <1>5 DEF Rename, Current
  <2> QED
    BY <2>1, <1>S, <1>5 DEF Rename
<1>6. ASSUME NEW p \in People, NEW c \in 1..codes, EnterCode(r, p, c)
      PROVE  LineInv'
  <2>1. PICK d : Becomes(r, [pc |-> "link", d |-> d, person |-> p, saw |-> devices[d].owner])
    BY <1>6 DEF EnterCode
  <2>2. Current([pc |-> "link", d |-> d, person |-> p, saw |-> devices[d].owner])
    BY DEF Current
  <2> QED
    BY <2>1, <2>2, <1>S
<1>7. ASSUME NEW a \in People, NEW p \in People, NEW to \in Roles, UpdatePerson(r, a, p, to)
      PROVE  LineInv'
  <2>1. TenantOf[a] = TenantOf[p] /\ role[a] = "admin" /\ MayChange(a, p, to)
    BY <1>7 DEF UpdatePerson, Manages
  <2>2. Current([pc |-> "role", person |-> p, to |-> to])
    BY <2>1 DEF Current
  <2> QED
    BY <2>2, <1>S, <1>7 DEF UpdatePerson
<1> QED
  BY <1>3, <1>4, <1>5, <1>6, <1>7

(* The step that writes what was read.                                     *)
LEMMA LineWrites ==
  ASSUME TypeInv, LineInv, NEW r \in Requests,
         Write(r) \/ Renamed(r) \/ Linked(r) \/ Updated(r)
  PROVE  LineInv'
<1>0. /\ Typed(request[r]) /\ Current(request[r]) /\ \A d \in Ids : devices[d] \in Row
      /\ RowsInv /\ NoRow \notin Ids
  BY RowsAreNumbered DEF TypeInv, LineInv
<1>1. \A q \in Requests : Current(request[q])' /\ Alone'
  <2>1. \A q \in Requests : q # r => Idle(q)
    BY DEF Write, Renamed, Linked, Updated, At, Idle, WebSteps, LineInv, Alone
  <2>2. Becomes(r, Free)
    BY DEF Write, Renamed, Linked, Updated
  <2>3. /\ request'[r] = Free /\ Alone'
        /\ \A q \in Requests : q # r => Current(request[q])'
    BY <2>1, <2>2, OthersAreIdle
  <2>4. Current(request[r])'
    BY <2>3 DEF Free, Current
  <2> QED
    BY <2>3, <2>4
<1>2. ASSUME NEW d \in Ids, NEW new \in Row, devices' = [devices EXCEPT ![d] = new],
             new.owner = new.given, new.tenant = devices[d].tenant,
             Named(new.tenant, new.host) \subseteq {d}
      PROVE  OneRecordPerMachine' /\ OwnerIsTheOneNamed'
  <2>1. /\ Ids' = Ids
        /\ \A e \in Ids : devices'[e] = IF e = d THEN new ELSE devices[e]
    BY <1>0, <1>2, RowReplaced
  <2>2. \A e \in Ids : devices[e].tenant = new.tenant /\ devices[e].host = new.host => e = d
    BY <1>2 DEF Named
  <2> QED
    BY <1>2, <2>1, <2>2 DEF LineInv, OneRecordPerMachine, OwnerIsTheOneNamed
<1>3. ASSUME Write(r), request[r].d # NoRow
      PROVE  LineInv'
  <2> DEFINE d == request[r].d
             me == request[r].as
             new == Granted(devices[d], me, request[r].saw)
  <2>1. /\ d \in Named(me.tenant, me.host) /\ request[r].saw = devices[d].owner
        /\ me.keep \in Kept(Named(me.tenant, me.host), me.user) /\ Asked(me)
    BY <1>0, <1>3 DEF Write, At, Current, Typed
  <2>2. Named(me.tenant, me.host) = {d}
    BY <2>1 DEF Named, LineInv, OneRecordPerMachine
  <2>3. d \in Ids /\ devices[d].owner = devices[d].given
        /\ devices[d].tenant = me.tenant /\ devices[d].host = me.host
    BY <2>1 DEF Named, LineInv, OwnerIsTheOneNamed
  <2>4. me.keep = IF me.user # Nobody THEN me.user ELSE devices[d].owner
    BY <2>1, <2>2 DEF Kept
  <2>5. devices[d] \in Row
    BY <1>0, <2>3
  <2>6. /\ new \in Row /\ new.tenant = devices[d].tenant /\ new.host = devices[d].host
        /\ new.owner = new.given
    BY <2>1, <2>3, <2>4, <2>5 DEF Granted, Row, Asked
  <2>7. devices' = [devices EXCEPT ![d] = new] /\ UNCHANGED role
    BY <1>3 DEF Write
  <2> HIDE DEF new, d, me
  <2>8. OneRecordPerMachine' /\ OwnerIsTheOneNamed'
    BY <2>2, <2>3, <2>6, <2>7, <1>2
  <2> QED
    BY <1>1, <2>7, <2>8 DEF LineInv, SomebodyManages
<1>4. ASSUME Write(r), request[r].d = NoRow
      PROVE  LineInv'
  <2> DEFINE me == request[r].as
             new == NewRow(me)
  <2>1. /\ Named(me.tenant, me.host) = {} /\ Asked(me)
        /\ me.keep \in Kept(Named(me.tenant, me.host), me.user)
    BY <1>0, <1>4 DEF Write, At, Current, Typed
  <2>2. me.keep = me.user
    BY <2>1 DEF Kept
  <2>3. /\ new \in Row /\ new.tenant = me.tenant /\ new.host = me.host
        /\ new.owner = new.given
    BY <2>1, <2>2, EnrolmentAssumption DEF NewRow, Row, Asked, NoCode
  <2>4. devices' = Append(devices, new) /\ UNCHANGED role
    BY <1>4 DEF Write
  <2> HIDE DEF new
  <2>5. /\ Ids' = Ids \cup {Len(devices) + 1} /\ Len(devices) + 1 \notin Ids
        /\ devices'[Len(devices) + 1] = new
        /\ \A e \in Ids : devices'[e] = devices[e]
    BY <1>0, <2>3, <2>4, RowAdded
  <2>6. \A e \in Ids : ~(devices[e].tenant = me.tenant /\ devices[e].host = me.host)
    BY <2>1 DEF Named
  <2>7. OneRecordPerMachine'
    BY <2>3, <2>5, <2>6 DEF LineInv, OneRecordPerMachine
  <2>8. OwnerIsTheOneNamed'
    BY <2>3, <2>5 DEF LineInv, OwnerIsTheOneNamed
  <2> QED
    BY <1>1, <2>4, <2>7, <2>8 DEF LineInv, SomebodyManages
<1>5. CASE Renamed(r)
  <2> DEFINE d == request[r].d
             new == [devices[d] EXCEPT !.host = request[r].host]
  <2>1. d \in Ids /\ request[r].host \in Hosts /\ NameIsFree(d, request[r].host)
    BY <1>0, <1>5 DEF Renamed, At, Typed, Current
  <2>2. devices[d] \in Row /\ devices[d].owner = devices[d].given
    BY <1>0, <2>1 DEF LineInv, OwnerIsTheOneNamed
  <2>3. /\ new \in Row /\ new.owner = new.given /\ new.tenant = devices[d].tenant
        /\ new.host = request[r].host
    BY <2>1, <2>2 DEF Row
  <2>4. devices' = [devices EXCEPT ![d] = new] /\ UNCHANGED role
    BY <1>5 DEF Renamed
  <2>5. Named(new.tenant, new.host) \subseteq {d}
    BY <2>1, <2>3 DEF NameIsFree
  <2> HIDE DEF new, d
  <2>6. OneRecordPerMachine' /\ OwnerIsTheOneNamed'
    BY <2>1, <2>3, <2>4, <2>5, <1>2
  <2> QED
    BY <1>1, <2>4, <2>6 DEF LineInv, SomebodyManages
<1>6. CASE Linked(r)
  <2> DEFINE d == request[r].d
             p == request[r].person
             new == LinkedTo(devices[d], p, request[r].saw)
  <2>1. d \in Ids /\ p \in Owners /\ request[r].saw = devices[d].owner
    BY <1>0, <1>6 DEF Linked, At, Typed, Current, Owners
  <2>2. devices[d] \in Row /\ 0 \in 0..MaxCodes
    BY <1>0, <2>1, EnrolmentAssumption
  <2>3. /\ new \in Row /\ new.owner = new.given /\ new.tenant = devices[d].tenant
        /\ new.host = devices[d].host
    BY <2>1, <2>2 DEF Row, LinkedTo, NoCode
  <2>4. devices' = [devices EXCEPT ![d] = new] /\ UNCHANGED role
    BY <1>6 DEF Linked
  <2>5. Named(devices[d].tenant, devices[d].host) \subseteq {d}
    BY <2>1 DEF Named, LineInv, OneRecordPerMachine
  <2> HIDE DEF new, d
  <2>6. OneRecordPerMachine' /\ OwnerIsTheOneNamed'
    BY <2>1, <2>3, <2>4, <2>5, <1>2
  <2> QED
    BY <1>1, <2>4, <2>6 DEF LineInv, SomebodyManages
<1>7. CASE Updated(r)
  <2> DEFINE p == request[r].person
             to == request[r].to
  <2>1. PICK a \in People : TenantOf[a] = TenantOf[p] /\ role[a] = "admin" /\ MayChange(a, p, to)
    BY <1>0, <1>7 DEF Updated, At, Current
  <2>2. p \in People /\ role' = [role EXCEPT ![p] = to] /\ UNCHANGED devices
    BY <1>0, <1>7 DEF Updated, At, Typed
  <2>3. role'[a] = "admin"
    BY <2>1, <2>2 DEF MayChange, TypeInv
  <2>4. SomebodyManages'
    <3> SUFFICES ASSUME NEW f \in Founders
                 PROVE  \E b \in People : TenantOf[b] = TenantOf[f] /\ role'[b] = "admin"
      BY DEF SomebodyManages
    <3>1. PICK b \in People : TenantOf[b] = TenantOf[f] /\ role[b] = "admin"
      BY DEF LineInv, SomebodyManages
    <3>2. CASE b = p
      BY <2>1, <2>3, <3>1, <3>2
    <3>3. CASE b # p
      BY <2>2, <3>1, <3>3 DEF TypeInv
    <3> QED
      BY <3>2, <3>3
  <2>5. OneRecordPerMachine' /\ OwnerIsTheOneNamed'
    BY <2>2 DEF LineInv, OneRecordPerMachine, OwnerIsTheOneNamed, Ids
  <2> QED
    BY <1>1, <2>4, <2>5 DEF LineInv
<1> QED
  BY <1>3, <1>4, <1>5, <1>6, <1>7

LEMMA LineStep ==
  ASSUME TypeInv, LineInv, ~Rushed, [Next]_vars
  PROVE  LineInv'
<1>1. CASE UNCHANGED vars
  <2>1. Ids' = Ids /\ UNCHANGED <<devices, role, request>>
    BY <1>1 DEF vars, Ids
  <2>2. \A q \in Requests : Current(request[q])'
    BY <2>1, StillCurrent DEF LineInv
  <2> QED
    BY <2>1, <2>2 DEF LineInv, Alone, Idle, OneRecordPerMachine, OwnerIsTheOneNamed,
                      SomebodyManages
<1>2. ASSUME NEW r \in Requests, Web(r)
      PROVE  LineInv'
  BY <1>2, LineReads, LineWrites DEF Web, Owners
<1> QED
  BY <1>1, <1>2, LineBeside DEF Next

LEMMA InLine == ~Rushed => (Spec => []LineInv)
<1>1. ~Rushed /\ TypeInv /\ LineInv /\ [Next]_vars => (TypeInv /\ LineInv)'
  BY TypesStep, LineStep
<1>2. ASSUME ~Rushed
      PROVE  TypeInv /\ LineInv /\ [Next]_vars => (TypeInv /\ LineInv)'
  BY <1>1, <1>2
<1>3. ASSUME ~Rushed
      PROVE  Spec => []LineInv
  BY <1>2, <1>3, TypesInitially, LineInitially, PTL DEF Spec
<1> QED
  BY <1>3

(* When requests of the web and the console come one at a time, whatever   *)
(* the machines ask meanwhile: a name is one row, so that a new token for  *)
(* it stops the old one (Device::provision, renameDevice).                 *)
THEOREM MachinesHaveOneRecord == ~Rushed => (Spec => []OneRecordPerMachine)
<1>1. LineInv => OneRecordPerMachine
  BY DEF LineInv
<1> QED
  BY <1>1, InLine, PTL

(* Likewise a machine is whose it was last said to be (Device::provision,  *)
(* DevicePairingController, PairDeviceController).                         *)
THEOREM OwnersAreTheOnesNamed == ~Rushed => (Spec => []OwnerIsTheOneNamed)
<1>1. LineInv => OwnerIsTheOneNamed
  BY DEF LineInv
<1> QED
  BY <1>1, InLine, PTL

(* Likewise a company keeps an administrator (PeopleController::update).   *)
THEOREM SomebodyStaysInCharge == ~Rushed => (Spec => []SomebodyManages)
<1>1. LineInv => SomebodyManages
  BY DEF LineInv
<1> QED
  BY <1>1, InLine, PTL

=============================================================================

------------------------- MODULE Interception_proofs -------------------------
(***************************************************************************)
(* Proofs about Interception, for any hosts, lists, programs, number of    *)
(* connections, lifetimes, cache size and faults.                          *)
(***************************************************************************)
EXTENDS Interception, TLAPS

-----------------------------------------------------------------------------
(* Operators.                                                              *)

LEMMA ReverseLength ==
  ASSUME NEW s \in Seq(STRING)
  PROVE  Len(Reverse(s)) \in Nat
BY DEF Reverse

(* A name that the list allows is one the intermediate may sign for.       *)
LEMMA AllowedIsWithin ==
  ASSUME NEW l \in Lists, NEW host \in Names, Allowed(l, host)
  PROVE  Within(PermittedDomains(l), host)
<1>1. PICK entry \in l : Matches(entry, host)
  BY DEF Allowed
<1>2. entry \in Entry
  BY HostsAssumption
<1>3. entry.name \in PermittedDomains(l)
  BY DEF PermittedDomains
<1>4. IsSuffix(entry.name, host)
  <2>1. CASE entry.wild
    BY <1>1, <2>1 DEF Matches
  <2>2. CASE ~entry.wild
    BY <1>1, <1>2, <2>2, ReverseLength DEF Matches, Entry, IsSuffix, IsPrefix
  <2>. QED  BY <2>1, <2>2
<1>. QED  BY <1>3, <1>4 DEF Within

LEMMA PermittedType ==
  ASSUME NEW l \in Lists
  PROVE  PermittedDomains(l) \in SUBSET Seq(STRING)
BY HostsAssumption DEF PermittedDomains, Entry

-----------------------------------------------------------------------------
(* Types.                                                                  *)

(* Files are only written by an agent that runs, and the certificate that  *)
(* is being saved has a key.                                               *)
WritingInv == writing # "no" => agent # "down" /\ fresh.key # 0

TypeInv == InterceptionTypeOK /\ WritingInv

LEMMA InitTypes == Init => TypeInv
<1>. SUFFICES ASSUME Init PROVE TypeInv
  OBVIOUS
<1>1. CertTypeOK
  BY CertificatesAssumption
  DEF Init, CertInit, CertTypeOK, NoCache, NoLeaf, NoPair, NoCert, Leaf, Pair, Cert
<1>. QED  BY <1>1 DEF Init, CertInit, TypeInv, InterceptionTypeOK, WritingInv, Conn, Closed

(* What the agent loop and the installer do.                               *)
LEMMA IssuerTypes ==
  ASSUME CertTypeOK, WritingInv,
         \/ Start \/ KeepIssuer \/ ReuseIssuer \/ Issue \/ SaveCert \/ SaveKey
         \/ IssueFails \/ Reinstall \/ Pass \/ CertCrash
  PROVE  CertTypeOK' /\ WritingInv'
<1>1. CASE Start
  BY <1>1 DEF Start, CertTypeOK, WritingInv
<1>2. CASE KeepIssuer
  BY <1>2, CertificatesAssumption DEF KeepIssuer, CertTypeOK, WritingInv
<1>3. CASE ReuseIssuer
  BY <1>3, CertificatesAssumption DEF ReuseIssuer, Reusable, CertTypeOK, WritingInv
<1>4. CASE Issue
  <2>1. fresh' \in Cert /\ fresh'.key # 0
    BY <1>4, PermittedType, CertificatesAssumption DEF Issue, CertTypeOK, Cert
  <2>. QED  BY <1>4, <2>1 DEF Issue, CertTypeOK, WritingInv
<1>5. CASE SaveCert
  <2>1. disk' \in Pair
    BY <1>5 DEF SaveCert, CertTypeOK, Pair
  <2>. QED  BY <1>5, <2>1 DEF SaveCert, CertTypeOK, WritingInv
<1>6. CASE SaveKey
  <2>1. disk' \in Pair /\ inter' \in Pair /\ fresh' \in Cert
    BY <1>6 DEF SaveKey, CertTypeOK, Pair, Cert, NoCert
  <2>2. inter'.cert.key # 0 /\ inter'.key # 0
    BY <1>6 DEF SaveKey, WritingInv
  <2>. QED  BY <1>6, <2>1, <2>2, CertificatesAssumption DEF SaveKey, CertTypeOK, WritingInv
<1>7. ASSUME disk' \in TornDisks PROVE disk' \in Pair
  <2>1. CASE writing = "cert"
    BY <1>7, <2>1 DEF TornDisks, CertTypeOK, Pair, Cert, NoCert
  <2>2. CASE writing = "key"
    BY <1>7, <2>2 DEF TornDisks, CertTypeOK, Pair
  <2>3. CASE writing = "no"
    BY <1>7, <2>3 DEF TornDisks, CertTypeOK
  <2>. QED  BY <2>1, <2>2, <2>3 DEF CertTypeOK
<1>8. CASE IssueFails
  <2>1. disk' \in Pair /\ fresh' \in Cert
    BY <1>7, <1>8 DEF IssueFails, Cert, NoCert
  <2>. QED  BY <1>8, <2>1, CertificatesAssumption DEF IssueFails, Fault, CertTypeOK, WritingInv
<1>9. CASE Reinstall
  BY <1>9 DEF Reinstall, CertTypeOK, WritingInv
<1>10. CASE Pass
  BY <1>10, CertificatesAssumption DEF Pass, CertTypeOK, WritingInv
<1>11. CASE CertCrash
  <2>1. disk' \in Pair /\ fresh' \in Cert /\ inter' \in Pair /\ cache' \in [Names -> Leaf]
    BY <1>7, <1>11 DEF CertCrash, Pair, Cert, NoPair, NoCert, NoCache, Leaf, NoLeaf
  <2>. QED  BY <1>11, <2>1, CertificatesAssumption DEF CertCrash, Fault, CertTypeOK, WritingInv
<1>. QED
  BY <1>1, <1>2, <1>3, <1>4, <1>5, <1>6, <1>8, <1>9, <1>10, <1>11

(* A connection that is not closed is a full record.                       *)
LiveConn ==
  [pc : {"dialing", "upstream", "handshake", "open", "sealed"},
   host : Names, program : Programs, decision : Decision,
   client : Programs \cup {Unknown}, leaf : Leaf]

LEMMA ConnIsLive ==
  ASSUME TypeInv, NEW c \in Conns, conns[c].pc # "closed"
  PROVE  conns[c] \in LiveConn
BY DEF TypeInv, InterceptionTypeOK, Conn, Closed, LiveConn

LEMMA LeafTypes == NoLeaf \in Leaf /\ (CertTypeOK => NewLeaf \in Leaf)
<1>1. NoLeaf \in Leaf
  BY DEF NoLeaf, NoCert, Leaf, Cert
<1>2. ASSUME CertTypeOK PROVE NewLeaf \in Leaf
  <2>1. clock + LeafLife \in Nat /\ inter.cert \in Cert
    BY <1>2, CertificatesAssumption DEF CertTypeOK, Pair
  <2>. QED  BY <2>1 DEF NewLeaf, Leaf
<1>. QED  BY <1>1, <1>2

LEMMA GetTypes ==
  ASSUME CertTypeOK, NEW host \in Names, NEW leaf, Get(host, leaf)
  PROVE  leaf \in Leaf /\ cache' \in [Names -> Leaf]
<1>1. CASE Cached(host)
  BY <1>1 DEF Get, CertTypeOK
<1>2. CASE ~Cached(host)
  BY <1>2, LeafTypes DEF Get, CertTypeOK
<1>. QED  BY <1>1, <1>2

LEMMA CertUnchanged ==
  ASSUME CertTypeOK, WritingInv, UNCHANGED certVars
  PROVE  CertTypeOK' /\ WritingInv'
BY DEF certVars, CertTypeOK, WritingInv

(* A step of one connection.                                               *)
LEMMA ConnTypes ==
  ASSUME TypeInv, NEW c \in Conns, NEW k \in Conn,
         conns' = [conns EXCEPT ![c] = k]
  PROVE  conns' \in [Conns -> Conn]
BY DEF TypeInv, InterceptionTypeOK

LEMMA StepTypes ==
  ASSUME TypeInv, [Next]_vars
  PROVE  TypeInv'
<1>. USE DEF TypeInv, InterceptionTypeOK
<1>0. Closed \in Conn /\ LiveConn \subseteq Conn
  BY DEF Conn, LiveConn
<1>1. ASSUME NEW c \in Conns, NEW host \in Names, NEW program \in Programs,
             Connect(c, host, program)
      PROVE  TypeInv'
  <2>1. Classify(host, Unknown) \in Decision
    BY DEF Classify, Decision
  <2>2. conns' \in [Conns -> Conn]
    BY <1>0, <1>1, <2>1, ConnTypes, LeafTypes DEF Connect, LiveConn
  <2>. QED  BY <1>1, <2>2, CertUnchanged DEF Connect
<1>2. ASSUME NEW c \in Conns, PassSealed(c) PROVE TypeInv'
  <2>1. conns[c] \in LiveConn
    BY <1>2, ConnIsLive DEF PassSealed
  <2>2. [conns[c] EXCEPT !.pc = "sealed"] \in LiveConn
    BY <2>1 DEF LiveConn
  <2>3. conns' \in [Conns -> Conn]
    BY <1>0, <1>2, <2>2, ConnTypes DEF PassSealed
  <2>. QED  BY <1>2, <2>3, CertUnchanged DEF PassSealed
<1>3. ASSUME NEW c \in Conns, NEW client \in Programs \cup {Unknown}, Identify(c, client)
      PROVE  TypeInv'
  <2>1. conns[c] \in LiveConn
    BY <1>3, ConnIsLive DEF Identify
  <2>2. /\ [conns[c] EXCEPT !.pc = "sealed", !.client = client, !.decision = "tunnel"] \in LiveConn
        /\ [conns[c] EXCEPT !.pc = "upstream", !.client = client] \in LiveConn
    BY <2>1 DEF LiveConn, Decision
  <2>3. conns' \in [Conns -> Conn]
    BY <1>0, <1>3, <2>2, ConnTypes DEF Identify
  <2>. QED  BY <1>3, <2>3, CertUnchanged DEF Identify
<1>4. ASSUME NEW c \in Conns, Present(c) PROVE TypeInv'
  <2>1. conns[c] \in LiveConn
    BY <1>4, ConnIsLive DEF Present
  <2>2. PICK leaf : /\ Get(conns[c].host, leaf)
                    /\ conns' = [conns EXCEPT ![c].pc = "handshake", ![c].leaf = leaf]
    BY <1>4 DEF Present
  <2>3. leaf \in Leaf /\ cache' \in [Names -> Leaf]
    BY <2>1, <2>2, GetTypes DEF LiveConn
  <2>4. [conns[c] EXCEPT !.pc = "handshake", !.leaf = leaf] \in LiveConn
    BY <2>1, <2>3 DEF LiveConn
  <2>5. conns' \in [Conns -> Conn]
    BY <1>0, <2>2, <2>4, ConnTypes
  <2>. QED  BY <1>4, <2>3, <2>5 DEF Present, CertTypeOK, WritingInv
<1>5. ASSUME NEW c \in Conns, MintingFails(c) PROVE TypeInv'
  <2>1. conns' \in [Conns -> Conn]
    BY <1>0, <1>5, ConnTypes DEF MintingFails
  <2>2. cache' \in [Names -> Leaf]
    BY <1>5, LeafTypes DEF MintingFails, GetFails, CertTypeOK
  <2>. QED  BY <1>5, <2>1, <2>2 DEF MintingFails, CertTypeOK, WritingInv
<1>6. ASSUME NEW c \in Conns, Refuse(c) PROVE TypeInv'
  <2>1. conns[c] \in LiveConn
    BY <1>6, ConnIsLive DEF Refuse
  <2>2. conns' \in [Conns -> Conn]
    BY <1>0, <1>6, ConnTypes DEF Refuse
  <2>3. /\ tunnel' \subseteq Names \X (Programs \cup {Unknown})
        /\ refusals' \subseteq [host : Names, program : Programs, client : Programs \cup {Unknown}]
    BY <1>6, <2>1 DEF Refuse, LiveConn
  <2>. QED  BY <1>6, <2>2, <2>3, CertUnchanged DEF Refuse
<1>7. ASSUME NEW c \in Conns, Open(c) PROVE TypeInv'
  <2>1. conns[c] \in LiveConn
    BY <1>7, ConnIsLive DEF Open
  <2>2. [conns[c] EXCEPT !.pc = "open", !.leaf = NoLeaf] \in LiveConn
    BY <2>1, LeafTypes DEF LiveConn
  <2>3. conns' \in [Conns -> Conn]
    BY <1>0, <1>7, <2>2, ConnTypes DEF Open
  <2>. QED  BY <1>7, <2>3, CertUnchanged DEF Open
<1>8. ASSUME NEW c \in Conns, HangUp(c) PROVE TypeInv'
  <2>1. conns' \in [Conns -> Conn]
    BY <1>0, <1>8, ConnTypes DEF HangUp
  <2>. QED  BY <1>8, <2>1, CertUnchanged DEF HangUp
<1>9. CASE Issuer
  BY <1>9, IssuerTypes DEF Issuer
<1>10. CASE AgentCrash
  <2>1. conns' \in [Conns -> Conn]
    BY <1>0, <1>10 DEF AgentCrash
  <2>. QED  BY <1>10, <2>1, IssuerTypes DEF AgentCrash
<1>11. CASE TimePasses
  BY <1>11, IssuerTypes DEF TimePasses
<1>12. CASE UNCHANGED vars
  BY <1>12, CertUnchanged DEF vars
<1>. QED
  BY <1>1, <1>2, <1>3, <1>4, <1>5, <1>6, <1>7, <1>8, <1>9, <1>10, <1>11, <1>12 DEF Next

(* The state stays well typed; in particular an agent that is up has an    *)
(* issuer (run.go:115-119, device.go:64-72).                               *)
THEOREM TypesHold == Spec => []InterceptionTypeOK
<1>1. TypeInv /\ [Next]_vars => TypeInv'
  BY StepTypes
<1>2. TypeInv => InterceptionTypeOK
  BY DEF TypeInv
<1>. QED  BY InitTypes, <1>1, <1>2, PTL DEF Spec

-----------------------------------------------------------------------------
(* Certificates.                                                           *)

(* The two margins add up: a leaf ends before the intermediate that signed *)
(* it, however long ago that was looked at.                                *)
Timely == MaxGap + LeafLife <= RenewBefore + LeafMargin /\ LeafMargin <= LeafLife

(* A certificate of the installed release: root and constraints.           *)
Current(cert) == cert.root = root /\ cert.domains = PermittedDomains(list)

IssuerInv ==
  /\ agent = "up" => Current(inter.cert) /\ clock + RenewBefore <= inter.cert.until + gap
  /\ writing # "no" => Current(fresh) /\ clock + RenewBefore <= fresh.until

Minted(leaf) ==
  Current(leaf.cert) /\ leaf.until + RenewBefore <= leaf.cert.until + LeafLife + MaxGap

CacheInv == \A host \in Names : cache[host] # NoLeaf => agent = "up" /\ Minted(cache[host])

ConnInv ==
  \A c \in Conns :
    /\ conns[c].pc # "closed" => agent = "up"
    /\ \/ conns[c].pc = "dialing" /\ conns[c].decision = "capture"
       \/ conns[c].pc \in {"upstream", "handshake"}
       => Allowed(list, conns[c].host)

ChainInv == TypeInv /\ IssuerInv /\ CacheInv /\ ConnInv /\ ServedVerifies

(* What a connection does leaves the issuer alone.                         *)
LEMMA ConnKeepsIssuer ==
  ASSUME NEW c \in Conns,
         \/ \E host \in Names, program \in Programs : Connect(c, host, program)
         \/ PassSealed(c)
         \/ \E client \in Programs \cup {Unknown} : Identify(c, client)
         \/ Present(c) \/ MintingFails(c) \/ Refuse(c) \/ Open(c) \/ HangUp(c)
  PROVE  UNCHANGED <<clock, gap, root, list, agent, inter, writing, fresh>>
BY DEF Connect, PassSealed, Identify, Present, MintingFails, Refuse, Open, HangUp, certVars

LEMMA IssuerStep ==
  ASSUME TypeInv, IssuerInv, [Next]_vars
  PROVE  IssuerInv'
<1>. USE DEF IssuerInv, Current
<1>1. clock \in Nat /\ gap \in Nat /\ inter.cert.until \in Nat /\ fresh.until \in Nat
  BY CertificatesAssumption DEF TypeInv, InterceptionTypeOK, CertTypeOK, Pair, Cert
<1>2. CASE Start
  BY <1>2 DEF Start
<1>3. CASE KeepIssuer
  BY <1>1, <1>3, CertificatesAssumption DEF KeepIssuer, NeedsRenewal
<1>4. CASE ReuseIssuer
  <2>1. disk.cert.until \in Nat
    BY DEF TypeInv, InterceptionTypeOK, CertTypeOK, Pair, Cert
  <2>. QED
    BY <1>1, <1>4, <2>1, CertificatesAssumption DEF ReuseIssuer, Reusable, NeedsRenewal
<1>5. CASE Issue
  BY <1>1, <1>5, CertificatesAssumption DEF Issue
<1>6. CASE SaveCert
  BY <1>6 DEF SaveCert
<1>7. CASE SaveKey
  BY <1>1, <1>7, CertificatesAssumption DEF SaveKey
<1>8. CASE IssueFails
  BY <1>8 DEF IssueFails
<1>9. CASE Reinstall
  BY <1>9 DEF Reinstall, TypeInv, WritingInv
<1>10. CASE AgentCrash
  BY <1>10 DEF AgentCrash, CertCrash
<1>11. CASE TimePasses
  BY <1>1, <1>11, CertificatesAssumption DEF TimePasses, Pass
<1>12. CASE UNCHANGED <<clock, gap, root, list, agent, inter, writing, fresh>>
  BY <1>12
<1>13. CASE UNCHANGED vars
  BY <1>12, <1>13 DEF vars, certVars
<1>. QED
  BY <1>2, <1>3, <1>4, <1>5, <1>6, <1>7, <1>8, <1>9, <1>10, <1>11, <1>12, <1>13,
     ConnKeepsIssuer DEF Next, Issuer

(* What the issuer would sign now is good.                                 *)
LEMMA NewLeafMinted ==
  ASSUME TypeInv, IssuerInv, agent = "up"
  PROVE  Minted(NewLeaf)
<1>1. /\ clock \in Nat /\ gap \in Nat /\ gap <= MaxGap /\ inter.cert.until \in Nat
  BY CertificatesAssumption DEF TypeInv, InterceptionTypeOK, CertTypeOK, Pair, Cert
<1>. QED
  BY <1>1, CertificatesAssumption DEF IssuerInv, Minted, NewLeaf

LEMMA CacheStep ==
  ASSUME TypeInv, IssuerInv, CacheInv, ConnInv, [Next]_vars
  PROVE  CacheInv'
<1>. USE DEF CacheInv
<1>0. cache \in [Names -> Leaf]
  BY DEF TypeInv, InterceptionTypeOK, CertTypeOK
<1>1. CASE UNCHANGED <<root, list, cache>> /\ (agent = "up" => agent' = "up")
  BY <1>1 DEF Minted, Current
<1>2. CASE Issuer /\ ~Reinstall
  BY <1>1, <1>2
  DEF Issuer, Start, KeepIssuer, ReuseIssuer, Issue, SaveCert, SaveKey, IssueFails
<1>3. CASE Reinstall
  BY <1>3 DEF Reinstall
<1>4. CASE AgentCrash
  BY <1>4 DEF AgentCrash, CertCrash, NoCache
<1>5. CASE TimePasses
  BY <1>1, <1>5 DEF TimePasses, Pass
<1>6. ASSUME NEW c \in Conns, Present(c) PROVE CacheInv'
  <2>1. PICK leaf : Get(conns[c].host, leaf)
    BY <1>6 DEF Present
  <2>2. agent = "up" /\ UNCHANGED <<root, list, agent>>
    BY <1>6 DEF Present, ConnInv
  <2>3. CASE UNCHANGED cache
    BY <1>1, <2>2, <2>3
  <2>4. ASSUME leaf = NewLeaf, NEW gone,
               cache' = [other \in Names |->
                          CASE other = conns[c].host -> leaf
                            [] other \in gone -> NoLeaf
                            [] OTHER          -> cache[other]]
        PROVE  CacheInv'
    <3>1. ASSUME NEW host \in Names, cache'[host] # NoLeaf
          PROVE  Minted(cache'[host])
      <4>1. CASE host = conns[c].host
        <5>1. cache'[host] = NewLeaf
          BY <2>4, <3>1, <4>1
        <5>. QED  BY <2>2, <5>1, NewLeafMinted
      <4>2. CASE host # conns[c].host
        <5>1. cache'[host] = cache[host]
          BY <2>4, <3>1, <4>2
        <5>. QED  BY <3>1, <5>1
      <4>. QED  BY <4>1, <4>2
    <3>. QED  BY <2>2, <3>1 DEF Minted, Current
  <2>. QED
    BY <2>1, <2>3, <2>4 DEF Get
<1>7. ASSUME NEW c \in Conns, MintingFails(c) PROVE CacheInv'
  BY <1>0, <1>7 DEF MintingFails, GetFails, Minted, Current
<1>8. ASSUME NEW c \in Conns,
             \/ \E host \in Names, program \in Programs : Connect(c, host, program)
             \/ PassSealed(c)
             \/ \E client \in Programs \cup {Unknown} : Identify(c, client)
             \/ Refuse(c) \/ Open(c) \/ HangUp(c)
      PROVE  CacheInv'
  BY <1>1, <1>8 DEF Connect, PassSealed, Identify, Refuse, Open, HangUp, certVars
<1>9. CASE UNCHANGED vars
  BY <1>1, <1>9 DEF vars, certVars
<1>. QED
  BY <1>2, <1>3, <1>4, <1>5, <1>6, <1>7, <1>8, <1>9 DEF Next, Issuer

LEMMA ConnStep ==
  ASSUME TypeInv, IssuerInv, ConnInv, [Next]_vars
  PROVE  ConnInv'
<1>. USE DEF ConnInv
<1>0. \A c \in Conns : conns[c].pc # "closed" => conns[c] \in LiveConn
  BY ConnIsLive
<1>00. conns \in [Conns -> Conn]
  BY DEF TypeInv, InterceptionTypeOK
<1>1. ASSUME NEW c \in Conns, NEW host \in Names, NEW program \in Programs,
             Connect(c, host, program)
      PROVE  ConnInv'
  <2>1. Classify(host, Unknown) = "capture" => Allowed(list, host)
    BY DEF Classify
  <2>. QED  BY <1>00, <1>1, <2>1 DEF Connect, certVars
<1>2. ASSUME NEW c \in Conns, PassSealed(c) PROVE ConnInv'
  BY <1>0, <1>00, <1>2 DEF PassSealed, LiveConn, certVars
<1>3. ASSUME NEW c \in Conns, NEW client \in Programs \cup {Unknown}, Identify(c, client)
      PROVE  ConnInv'
  BY <1>0, <1>00, <1>3 DEF Identify, LiveConn, certVars
<1>4. ASSUME NEW c \in Conns, Present(c) PROVE ConnInv'
  BY <1>0, <1>00, <1>4 DEF Present, LiveConn
<1>5. ASSUME NEW c \in Conns, MintingFails(c) \/ Refuse(c) \/ HangUp(c) PROVE ConnInv'
  BY <1>00, <1>5 DEF MintingFails, Refuse, HangUp, Closed, certVars
<1>6. ASSUME NEW c \in Conns, Open(c) PROVE ConnInv'
  BY <1>0, <1>00, <1>6 DEF Open, LiveConn, certVars
<1>7. CASE UNCHANGED <<list, conns>> /\ (agent = "up" => agent' = "up")
  BY <1>7
<1>8. CASE Issuer /\ ~Reinstall
  BY <1>7, <1>8
  DEF Issuer, Start, KeepIssuer, ReuseIssuer, Issue, SaveCert, SaveKey, IssueFails
<1>9. CASE Reinstall /\ UNCHANGED conns
  <2>1. \A c \in Conns : conns[c].pc = "closed"
    BY <1>9 DEF Reinstall
  <2>. QED  BY <1>9, <2>1
<1>10. CASE AgentCrash
  BY <1>10 DEF AgentCrash, Closed
<1>11. CASE TimePasses
  BY <1>7, <1>11 DEF TimePasses, Pass
<1>12. CASE UNCHANGED vars
  BY <1>7, <1>12 DEF vars, certVars
<1>. QED
  BY <1>1, <1>2, <1>3, <1>4, <1>5, <1>6, <1>8, <1>9, <1>10, <1>11, <1>12 DEF Next, Issuer

(* A leaf that is handed out is good for longer than a handshake.          *)
LEMMA HandedOutVerifies ==
  ASSUME TypeInv, IssuerInv, CacheInv, Timely, agent = "up",
         NEW host \in Names, Allowed(list, host), NEW leaf, Get(host, leaf)
  PROVE  Verifies(leaf, host)
<1>1. /\ clock \in Nat /\ list \in Lists /\ cache[host] \in Leaf /\ inter.cert \in Cert
  BY CertificatesAssumption DEF TypeInv, InterceptionTypeOK, CertTypeOK, Pair
<1>2. Within(PermittedDomains(list), host)
  BY <1>1, AllowedIsWithin
<1>3. CASE Cached(host)
  <2>1. leaf = cache[host] /\ leaf # NoLeaf
    BY <1>1, <1>3, CertificatesAssumption DEF Get, Cached, NoLeaf
  <2>2. Minted(leaf) /\ leaf.until \in Nat /\ leaf.cert.until \in Nat
    BY <1>1, <2>1 DEF CacheInv, Leaf, Cert
  <2>. QED
    BY <1>1, <1>2, <1>3, <2>1, <2>2, CertificatesAssumption
    DEF Timely, Minted, Current, Cached, Verifies
<1>4. CASE ~Cached(host)
  <2>1. leaf = NewLeaf /\ Minted(leaf)
    BY <1>4, NewLeafMinted DEF Get
  <2>2. leaf.until = clock + LeafLife /\ leaf.cert.until \in Nat
    BY <1>1, <2>1 DEF NewLeaf, Cert
  <2>. QED
    BY <1>1, <1>2, <2>1, <2>2, CertificatesAssumption
    DEF Timely, Minted, Current, Verifies
<1>. QED  BY <1>3, <1>4

LEMMA ServedStep ==
  ASSUME ChainInv, Timely, [Next]_vars
  PROVE  ServedVerifies'
<1>. USE DEF ServedVerifies
<1>0. conns \in [Conns -> Conn]
  BY DEF ChainInv, TypeInv, InterceptionTypeOK
<1>1. CASE /\ UNCHANGED <<clock, root>>
           /\ \A c \in Conns : conns'[c].pc = "handshake" => conns'[c] = conns[c]
  BY <1>1 DEF ChainInv, Verifies
<1>2. ASSUME NEW c \in Conns, Present(c) PROVE ServedVerifies'
  <2>1. conns[c] \in LiveConn /\ conns[c].host \in Names
    BY <1>2, ConnIsLive DEF ChainInv, Present, LiveConn
  <2>2. PICK leaf : /\ Get(conns[c].host, leaf)
                    /\ conns' = [conns EXCEPT ![c].pc = "handshake", ![c].leaf = leaf]
    BY <1>2 DEF Present
  <2>3. Verifies(leaf, conns[c].host)
    BY <1>2, <2>1, <2>2, HandedOutVerifies DEF ChainInv, ConnInv, Present
  <2>4. UNCHANGED <<clock, root>>
    BY <1>2 DEF Present
  <2>5. conns'[c].leaf = leaf /\ conns'[c].host = conns[c].host
    BY <1>0, <2>1, <2>2 DEF LiveConn
  <2>6. \A d \in Conns \ {c} : conns'[d] = conns[d]
    BY <1>0, <2>2
  <2>. QED  BY <2>3, <2>4, <2>5, <2>6 DEF ChainInv, Verifies
<1>3. ASSUME NEW c \in Conns,
             \/ \E host \in Names, program \in Programs : Connect(c, host, program)
             \/ PassSealed(c)
             \/ \E client \in Programs \cup {Unknown} : Identify(c, client)
             \/ MintingFails(c) \/ Refuse(c) \/ Open(c) \/ HangUp(c)
      PROVE  ServedVerifies'
  <2>1. UNCHANGED <<clock, root>>
    BY <1>3, ConnKeepsIssuer
  <2>2. conns'[c].pc # "handshake"
    <3>1. conns[c].pc # "closed" => conns[c] \in LiveConn
      BY ConnIsLive DEF ChainInv
    <3>2. CASE \E host \in Names, program \in Programs : Connect(c, host, program)
      BY <1>0, <3>2 DEF Connect
    <3>3. CASE PassSealed(c) \/ Open(c)
      BY <1>0, <3>1, <3>3 DEF PassSealed, Open, LiveConn
    <3>4. CASE \E client \in Programs \cup {Unknown} : Identify(c, client)
      BY <1>0, <3>1, <3>4 DEF Identify, LiveConn
    <3>5. CASE MintingFails(c) \/ Refuse(c) \/ HangUp(c)
      BY <1>0, <3>5 DEF MintingFails, Refuse, HangUp, Closed
    <3>. QED  BY <1>3, <3>2, <3>3, <3>4, <3>5
  <2>3. \A d \in Conns \ {c} : conns'[d] = conns[d]
    BY <1>0, <1>3
    DEF Connect, PassSealed, Identify, MintingFails, Refuse, Open, HangUp
  <2>. QED  BY <1>1, <2>1, <2>2, <2>3
<1>4. CASE Issuer /\ ~Reinstall
  BY <1>1, <1>4
  DEF Issuer, Start, KeepIssuer, ReuseIssuer, Issue, SaveCert, SaveKey, IssueFails
<1>5. CASE Reinstall /\ UNCHANGED conns
  BY <1>5 DEF Reinstall, ChainInv, ConnInv
<1>6. CASE AgentCrash
  BY <1>6 DEF AgentCrash, Closed
<1>7. CASE TimePasses
  BY <1>7 DEF TimePasses
<1>8. CASE UNCHANGED vars
  BY <1>1, <1>8 DEF vars, certVars
<1>. QED
  BY <1>2, <1>3, <1>4, <1>5, <1>6, <1>7, <1>8 DEF Next, Issuer

(* Whatever a client is shown verifies, as long as the agent gets round to *)
(* looking at its issuer often enough for the two margins (device.go:46-48,*)
(* certs.go:17-19, intermediate.go:45-48).                                 *)
THEOREM ServedCertificatesVerify ==
  ASSUME Timely
  PROVE  Spec => []ServedVerifies
<1>1. Init => ChainInv
  <2>. SUFFICES ASSUME Init PROVE ChainInv
    OBVIOUS
  <2>1. IssuerInv /\ CacheInv
    BY DEF Init, CertInit, NoCache, IssuerInv, CacheInv
  <2>2. ConnInv /\ ServedVerifies
    BY DEF Init, Closed, ConnInv, ServedVerifies
  <2>. QED  BY <2>1, <2>2, InitTypes DEF ChainInv
<1>2. ChainInv /\ [Next]_vars => ChainInv'
  <2>. SUFFICES ASSUME ChainInv, [Next]_vars PROVE ChainInv'
    OBVIOUS
  <2>. QED
    BY StepTypes, IssuerStep, CacheStep, ConnStep, ServedStep DEF ChainInv
<1>3. ChainInv => ServedVerifies
  BY DEF ChainInv
<1>. QED  BY <1>1, <1>2, <1>3, PTL DEF Spec

-----------------------------------------------------------------------------
(* The tunnel list.                                                        *)

Refused(host, program) ==
  \E r \in refusals : r.host = host /\ (r.program = program \/ r.client = Unknown)

(* The list holds nothing but refusals, and a refusal was entered under    *)
(* the program's own identity or none.                                     *)
ListInv ==
  /\ tunnel \subseteq {<<r.host, r.client>> : r \in refusals}
  /\ \A r \in refusals : r.client \in {r.program, Unknown}

(* A decision stays justified after it is taken.                           *)
Justified(k) ==
  /\ k.client \in {k.program, Unknown}
  /\ k.decision = "tunnel" => Refused(k.host, k.program)
  /\ k.decision = "pass" => ~Allowed(list, k.host)
  /\ k.pc = "sealed" => k.decision # "capture"

DecisionInv == \A c \in Conns : conns[c].pc # "closed" => Justified(conns[c])

ReasonInv == TypeInv /\ IssuerInv /\ ConnInv /\ ListInv /\ DecisionInv

LEMMA TunnelledWasRefused ==
  ASSUME TypeInv, ListInv, NEW host, NEW program \in Programs,
         NEW client \in {program, Unknown}, Classify(host, client) = "tunnel"
  PROVE  Refused(host, program)
<1>1. <<host, client>> \in tunnel
  BY DEF Classify
<1>2. PICK r \in refusals : <<host, client>> = <<r.host, r.client>>
  BY <1>1 DEF ListInv
<1>3. r.host = host /\ r.client = client
  BY <1>2
<1>4. r.client \in {r.program, Unknown}
  BY DEF ListInv
<1>. QED  BY <1>3, <1>4 DEF Refused

LEMMA ListStep ==
  ASSUME ReasonInv, [Next]_vars
  PROVE  ListInv'
<1>. USE DEF ListInv
<1>1. CASE UNCHANGED <<tunnel, refusals>>
  BY <1>1 DEF ReasonInv
<1>2. ASSUME NEW c \in Conns, Refuse(c) PROVE ListInv'
  <2>1. conns[c].client \in {conns[c].program, Unknown}
    BY <1>2 DEF ReasonInv, DecisionInv, Justified, Refuse
  <2>2. PICK r : /\ r.host = conns[c].host /\ r.client = conns[c].client
                 /\ r.program = conns[c].program
                 /\ refusals' = refusals \cup {r}
                 /\ tunnel' = tunnel \cup {<<conns[c].host, conns[c].client>>}
    BY <1>2 DEF Refuse
  <2>. QED  BY <2>1, <2>2 DEF ReasonInv
<1>3. CASE AgentCrash
  BY <1>3 DEF AgentCrash
<1>4. ASSUME NEW c \in Conns,
             \/ \E host \in Names, program \in Programs : Connect(c, host, program)
             \/ PassSealed(c)
             \/ \E client \in Programs \cup {Unknown} : Identify(c, client)
             \/ Present(c) \/ MintingFails(c) \/ Open(c) \/ HangUp(c)
      PROVE  UNCHANGED <<tunnel, refusals>>
  BY <1>4 DEF Connect, PassSealed, Identify, Present, MintingFails, Open, HangUp
<1>. QED
  BY <1>1, <1>2, <1>3, <1>4 DEF Next, Issuer, TimePasses, vars

LEMMA DecisionStep ==
  ASSUME ReasonInv, [Next]_vars
  PROVE  DecisionInv'
<1>. USE DEF DecisionInv
<1>0. conns \in [Conns -> Conn]
  BY DEF ReasonInv, TypeInv, InterceptionTypeOK
<1>1. \A c \in Conns : conns[c].pc # "closed" => conns[c] \in LiveConn
  BY ConnIsLive DEF ReasonInv
(* A connection that is left alone, or closed, keeps its reasons.          *)
<1>2. CASE /\ list' = list /\ refusals \subseteq refusals'
           /\ \A c \in Conns : conns'[c] = conns[c] \/ conns'[c].pc = "closed"
  BY <1>2 DEF ReasonInv, Justified, Refused
<1>3. ASSUME NEW c \in Conns, NEW k \in LiveConn,
             conns' = [conns EXCEPT ![c] = k],
             UNCHANGED <<list, refusals>>, Justified(k)
      PROVE  DecisionInv'
  <2>1. conns'[c] = k
    BY <1>0, <1>3
  <2>2. \A d \in Conns \ {c} : conns'[d] = conns[d]
    BY <1>0, <1>3
  <2>. QED  BY <1>3, <2>1, <2>2 DEF ReasonInv, Justified, Refused
<1>4. ASSUME NEW c \in Conns, NEW host \in Names, NEW program \in Programs,
             Connect(c, host, program)
      PROVE  DecisionInv'
  <2>. DEFINE k == [pc |-> "dialing", host |-> host, program |-> program,
                    decision |-> Classify(host, Unknown), client |-> Unknown, leaf |-> NoLeaf]
  <2>1. /\ Classify(host, Unknown) \in Decision
        /\ Classify(host, Unknown) = "pass" => ~Allowed(list, host)
    BY DEF Classify, Decision
  <2>2. Classify(host, Unknown) = "tunnel" => Refused(host, program)
    BY TunnelledWasRefused DEF ReasonInv
  <2>3. k \in LiveConn
    BY <2>1, LeafTypes DEF LiveConn
  <2>4. Justified(k)
    BY <2>1, <2>2 DEF Justified
  <2>. QED  BY <1>3, <1>4, <2>3, <2>4 DEF Connect, certVars
<1>5. ASSUME NEW c \in Conns, PassSealed(c) PROVE DecisionInv'
  <2>1. conns[c] \in LiveConn /\ Justified(conns[c])
    BY <1>1, <1>5 DEF PassSealed, ReasonInv
  <2>2. [conns[c] EXCEPT !.pc = "sealed"] \in LiveConn
    BY <2>1 DEF LiveConn
  <2>3. Justified([conns[c] EXCEPT !.pc = "sealed"])
    BY <1>5, <2>1 DEF PassSealed, Justified, LiveConn
  <2>. QED  BY <1>3, <1>5, <2>2, <2>3 DEF PassSealed, certVars
<1>6. ASSUME NEW c \in Conns, NEW client \in Programs \cup {Unknown}, Identify(c, client)
      PROVE  DecisionInv'
  <2>. DEFINE sealed == [conns[c] EXCEPT !.pc = "sealed", !.client = client, !.decision = "tunnel"]
              opened == [conns[c] EXCEPT !.pc = "upstream", !.client = client]
  <2>1. conns[c] \in LiveConn /\ Justified(conns[c]) /\ client \in {conns[c].program, Unknown}
    BY <1>1, <1>6 DEF Identify, ReasonInv
  <2>2. sealed \in LiveConn /\ opened \in LiveConn
    BY <2>1 DEF LiveConn, Decision
  <2>3. Justified(opened)
    BY <2>1 DEF Justified, LiveConn
  <2>4. ASSUME Classify(conns[c].host, client) = "tunnel" PROVE Justified(sealed)
    <3>1. conns[c].program \in Programs
      BY <2>1 DEF LiveConn
    <3>2. Refused(conns[c].host, conns[c].program)
      BY <2>1, <2>4, <3>1, TunnelledWasRefused DEF ReasonInv
    <3>. QED  BY <2>1, <3>2 DEF Justified, LiveConn
  <2>5. UNCHANGED <<list, refusals>>
    BY <1>6 DEF Identify, certVars
  <2>6. CASE Classify(conns[c].host, client) = "tunnel"
    <3>1. conns' = [conns EXCEPT ![c] = sealed]
      BY <1>6, <2>6 DEF Identify
    <3>. HIDE DEF sealed
    <3>. QED  BY <1>3, <2>2, <2>4, <2>5, <2>6, <3>1
  <2>7. CASE Classify(conns[c].host, client) # "tunnel"
    <3>1. conns' = [conns EXCEPT ![c] = opened]
      BY <1>6, <2>7 DEF Identify
    <3>. HIDE DEF opened
    <3>. QED  BY <1>3, <2>2, <2>3, <2>5, <3>1
  <2>. QED  BY <2>6, <2>7
<1>7. ASSUME NEW c \in Conns, Present(c) PROVE DecisionInv'
  <2>1. conns[c] \in LiveConn /\ Justified(conns[c])
    BY <1>1, <1>7 DEF Present, ReasonInv
  <2>2. PICK leaf : /\ Get(conns[c].host, leaf)
                    /\ conns' = [conns EXCEPT ![c].pc = "handshake", ![c].leaf = leaf]
    BY <1>7 DEF Present
  <2>3. leaf \in Leaf
    BY <2>1, <2>2, GetTypes DEF ReasonInv, TypeInv, InterceptionTypeOK, LiveConn
  <2>. DEFINE k == [conns[c] EXCEPT !.pc = "handshake", !.leaf = leaf]
  <2>4. k \in LiveConn /\ Justified(k)
    BY <2>1, <2>3 DEF LiveConn, Justified
  <2>5. UNCHANGED <<list, refusals>> /\ conns' = [conns EXCEPT ![c] = k]
    BY <1>7, <2>2 DEF Present
  <2>. QED  BY <1>3, <2>4, <2>5
<1>8. ASSUME NEW c \in Conns, Open(c) PROVE DecisionInv'
  <2>1. conns[c] \in LiveConn /\ Justified(conns[c])
    BY <1>1, <1>8 DEF Open, ReasonInv
  <2>. DEFINE k == [conns[c] EXCEPT !.pc = "open", !.leaf = NoLeaf]
  <2>2. k \in LiveConn /\ Justified(k)
    BY <2>1, LeafTypes DEF LiveConn, Justified
  <2>3. UNCHANGED <<list, refusals>> /\ conns' = [conns EXCEPT ![c] = k]
    BY <1>8 DEF Open, certVars
  <2>. QED  BY <1>3, <2>2, <2>3
<1>9. ASSUME NEW c \in Conns, MintingFails(c) \/ Refuse(c) \/ HangUp(c) PROVE DecisionInv'
  BY <1>0, <1>2, <1>9 DEF MintingFails, Refuse, HangUp, Closed, certVars
<1>10. CASE Issuer /\ ~Reinstall
  BY <1>2, <1>10
  DEF Issuer, Start, KeepIssuer, ReuseIssuer, Issue, SaveCert, SaveKey, IssueFails
<1>11. CASE Reinstall /\ UNCHANGED conns
  BY <1>11 DEF Reinstall, ReasonInv, ConnInv
<1>12. CASE AgentCrash
  BY <1>12 DEF AgentCrash, Closed
<1>13. CASE TimePasses
  BY <1>2, <1>13 DEF TimePasses, Pass
<1>14. CASE UNCHANGED vars
  BY <1>2, <1>14 DEF vars, certVars
<1>. QED
  BY <1>4, <1>5, <1>6, <1>7, <1>8, <1>9, <1>10, <1>11, <1>12, <1>13, <1>14 DEF Next, Issuer

(* An AI host is sealed for nobody but a program that refused it, unless   *)
(* somebody who could not be identified did (capture.go:180-202,           *)
(* hosts.go:165-208).                                                      *)
THEOREM SealedOnlyForAReason == Spec => []SealedForAReason
<1>1. Init => ReasonInv
  <2>. SUFFICES ASSUME Init PROVE ReasonInv
    OBVIOUS
  <2>1. IssuerInv /\ ConnInv
    BY DEF Init, CertInit, Closed, IssuerInv, ConnInv
  <2>2. ListInv /\ DecisionInv
    BY DEF Init, Closed, ListInv, DecisionInv
  <2>. QED  BY <2>1, <2>2, InitTypes DEF ReasonInv
<1>2. ReasonInv /\ [Next]_vars => ReasonInv'
  <2>. SUFFICES ASSUME ReasonInv, [Next]_vars PROVE ReasonInv'
    OBVIOUS
  <2>. QED
    BY StepTypes, IssuerStep, ConnStep, ListStep, DecisionStep DEF ReasonInv
<1>3. ReasonInv => SealedForAReason
  <2>. SUFFICES ASSUME ReasonInv, NEW c \in Conns, conns[c].pc = "sealed",
                       Allowed(list, conns[c].host)
                PROVE  Refused(conns[c].host, conns[c].program)
    BY DEF SealedForAReason, Refused
  <2>1. conns[c] \in LiveConn /\ Justified(conns[c])
    BY ConnIsLive DEF ReasonInv, DecisionInv
  <2>. QED  BY <2>1 DEF Justified, LiveConn, Decision
<1>. QED  BY <1>1, <1>2, <1>3, PTL DEF Spec
=============================================================================

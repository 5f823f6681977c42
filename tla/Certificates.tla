---------------------------- MODULE Certificates ----------------------------
(***************************************************************************)
(* The certificates the proxy shows its clients: this device's             *)
(* intermediate, kept in two files and in memory, its renewal by the       *)
(* agent loop, and the cache of leaves minted from it                      *)
(* (agent/internal/ca, agent/cmd/aiul/device.go, proxy/certs.go).          *)
(*                                                                         *)
(* Time is counted in a unit of the instance's choosing.  A certificate is *)
(* its key pair, its end, the root that signed it and the domains it is    *)
(* constrained to.  What takes seconds (writing the files, a handshake)    *)
(* happens between two units of time.                                      *)
(***************************************************************************)
EXTENDS Hosts, Naturals, FiniteSets

CONSTANTS
  LeafLife,     \* 24 h
  LeafMargin,   \* renewBefore of certs.go, 1 h
  InterLife,    \* IntermediateValidity, 7 days
  RenewBefore,  \* 2 days
  CacheSize,    \* 128
  MaxGap,       \* bound: time between two successful checks of the agent loop
  MaxClock,     \* bound: how far time goes
  MaxRoots,     \* bound: roots the installer ever creates
  MaxFaults     \* bound: crashes, stops and renewals that fail

ASSUME CertificatesAssumption ==
  /\ LeafLife \in Nat /\ LeafMargin \in Nat
  /\ InterLife \in Nat /\ RenewBefore \in Nat \ {0}
  /\ RenewBefore <= InterLife
  /\ CacheSize \in Nat \ {0}
  /\ MaxGap \in Nat /\ MaxClock \in Nat /\ MaxRoots \in Nat \ {0} /\ MaxFaults \in Nat

VARIABLES
  clock,    \* wall-clock time
  gap,      \* time since the agent last found or made its issuer good
  root,     \* the installed root, which clients trust
  list,     \* the installed allow-list
  agent,    \* "down", "starting" (no issuer yet) or "up"
  issued,   \* how many key pairs have been made; the n-th is written n
  disk,     \* intermediate.crt and intermediate.key
  inter,    \* the intermediate deviceIssuer holds
  writing,  \* which of the two files Save is writing
  fresh,    \* the certificate that is being saved
  cache,    \* CertCache: the leaf of each host
  faults    \* how much of MaxFaults is used up

certVars == <<clock, gap, root, list, agent, issued, disk, inter, writing, fresh, cache, faults>>

(* Key 0 stands for a file that is missing or does not parse.              *)
Cert == [key : Nat, until : Nat, root : Nat, domains : SUBSET Seq(STRING)]
NoCert == [key |-> 0, until |-> 0, root |-> 0, domains |-> {}]
Pair == [cert : Cert, key : Nat]
NoPair == [cert |-> NoCert, key |-> 0]
Leaf == [until : Nat, cert : Cert]
NoLeaf == [until |-> 0, cert |-> NoCert]

CertTypeOK ==
  /\ clock \in 0 .. MaxClock /\ gap \in 0 .. MaxGap
  /\ root \in 1 .. MaxRoots /\ list \in Lists
  /\ agent \in {"down", "starting", "up"}
  /\ agent = "up" => inter.cert.key # 0 /\ inter.key # 0
  /\ issued \in Nat
  /\ disk \in Pair /\ inter \in Pair
  /\ writing \in {"no", "cert", "key"} /\ fresh \in Cert
  /\ cache \in [Names -> Leaf]
  /\ faults \in 0 .. MaxFaults

NoCache == [host \in Names |-> NoLeaf]

CertInit ==
  /\ clock = 0 /\ gap = 0 /\ root = 1 /\ list \in Lists
  /\ agent = "down" /\ issued = 0
  /\ disk = NoPair /\ inter = NoPair /\ writing = "no" /\ fresh = NoCert
  /\ cache = NoCache /\ faults = 0

Fault == faults < MaxFaults /\ faults' = faults + 1

-----------------------------------------------------------------------------
(* Renewal.                                                                *)

NeedsRenewal(cert) == cert.until < clock + RenewBefore

(* Slip: without the check of the signature.                               *)
ReusableAnyRoot ==
  /\ disk.cert.key # 0 /\ disk.key # 0
  /\ ~NeedsRenewal(disk.cert)
  /\ disk.cert.domains = PermittedDomains(list)

(* ProvisionDevice keeps what is on disk.  That the two files belong       *)
(* together is not among its conditions.                                   *)
Reusable ==
  /\ disk.cert.key # 0 /\ disk.key # 0
  /\ ~NeedsRenewal(disk.cert)
  /\ disk.cert.domains = PermittedDomains(list)
  /\ disk.cert.root = root

(* The service manager starts the agent.                                   *)
Start ==
  /\ agent = "down"
  /\ agent' = "starting"
  /\ UNCHANGED <<clock, gap, root, list, issued, disk, inter, writing, fresh, cache, faults>>

(* A tick of the agent loop: the issuer is good for longer.                *)
KeepIssuer ==
  /\ agent = "up" /\ writing = "no"
  /\ ~NeedsRenewal(inter.cert)
  /\ gap' = 0
  /\ UNCHANGED <<clock, root, list, agent, issued, disk, inter, writing, fresh, cache, faults>>

(* renewIfNeeded, at a tick or at the start: the files are good ...        *)
ReuseIssuer ==
  /\ agent # "down" /\ writing = "no"
  /\ NeedsRenewal(inter.cert) /\ Reusable
  /\ inter' = disk
  /\ agent' = "up" /\ gap' = 0
  /\ UNCHANGED <<clock, root, list, issued, disk, writing, fresh, cache, faults>>

(* ... or a new key pair is made, signed and saved: first the certificate, *)
Issue ==
  /\ agent # "down" /\ writing = "no"
  /\ NeedsRenewal(inter.cert) /\ ~Reusable
  /\ issued' = issued + 1
  /\ fresh' = [key |-> issued + 1, until |-> clock + InterLife, root |-> root,
               domains |-> PermittedDomains(list)]
  /\ writing' = "cert"
  /\ UNCHANGED <<clock, gap, root, list, agent, disk, inter, cache, faults>>

SaveCert ==
  /\ writing = "cert"
  /\ disk' = [disk EXCEPT !.cert = fresh]
  /\ writing' = "key"
  /\ UNCHANGED <<clock, gap, root, list, agent, issued, inter, fresh, cache, faults>>

(* then the key.  The issuer is replaced; cached leaves stay.              *)
SaveKey ==
  /\ writing = "key"
  /\ disk' = [disk EXCEPT !.key = fresh.key]
  /\ inter' = [cert |-> fresh, key |-> fresh.key]
  /\ writing' = "no" /\ fresh' = NoCert
  /\ agent' = "up" /\ gap' = 0
  /\ UNCHANGED <<clock, root, list, issued, cache, faults>>

(* What an interrupted os.WriteFile leaves: the old file, or none that     *)
(* parses.                                                                 *)
TornDisks ==
  {disk} \cup CASE writing = "cert" -> {[disk EXCEPT !.cert = NoCert]}
                [] writing = "key"  -> {[disk EXCEPT !.key = 0]}
                [] OTHER            -> {}

(* Slip: an agent that cannot make an issuer goes on without one.          *)
IssueFailsUnnoticed ==
  /\ Fault
  /\ writing # "no"
  /\ disk' \in TornDisks
  /\ writing' = "no" /\ fresh' = NoCert
  /\ agent' = "up"
  /\ UNCHANGED <<clock, gap, root, list, issued, inter, cache>>

(* A write fails (or the signing does): a running agent keeps its issuer,  *)
(* a starting one gives up.                                                *)
IssueFails ==
  /\ Fault
  /\ writing # "no"
  /\ disk' \in TornDisks
  /\ writing' = "no" /\ fresh' = NoCert
  /\ agent' = IF agent = "starting" THEN "down" ELSE agent
  /\ UNCHANGED <<clock, gap, root, list, issued, inter, cache>>

(* The agent dies, or is stopped.                                          *)
CertCrash ==
  /\ Fault
  /\ agent # "down"
  /\ agent' = "down"
  /\ disk' \in TornDisks
  /\ inter' = NoPair /\ writing' = "no" /\ fresh' = NoCert /\ cache' = NoCache
  /\ UNCHANGED <<clock, gap, root, list, issued>>

(* While the agent is down an installer may replace the allow-list, and    *)
(* the root, which it makes clients trust instead of the old one.          *)
Reinstall ==
  /\ agent = "down"
  /\ list' \in Lists
  /\ root' \in {root, root + 1} /\ root' <= MaxRoots
  /\ <<list', root'>> # <<list, root>>
  /\ UNCHANGED <<clock, gap, agent, issued, disk, inter, writing, fresh, cache, faults>>

(* Time passes.  A running agent gets round to a successful check at least *)
(* every MaxGap, asleep or not.                                            *)
Pass ==
  /\ clock < MaxClock
  /\ agent # "starting" /\ writing = "no"
  /\ clock' = clock + 1
  /\ IF agent = "up" THEN gap < MaxGap /\ gap' = gap + 1 ELSE UNCHANGED gap
  /\ UNCHANGED <<root, list, agent, issued, disk, inter, writing, fresh, cache, faults>>

-----------------------------------------------------------------------------
(* CertCache.Get, under its lock.                                          *)

Cached(host) == cache[host].until > clock + LeafMargin

NewLeaf == [until |-> clock + LeafLife, cert |-> inter.cert]

(* x509.CreateCertificate refuses a key that is not the parent's.          *)
CanMint == inter.key = inter.cert.key

(* Which leaf has not been used for longest is left open.                  *)
Evicted(host) ==
  LET others == {other \in Names \ {host} : cache[other] # NoLeaf}
  IN IF Cardinality(others) < CacheSize THEN {{}} ELSE {{other} : other \in others}

Get(host, leaf) ==
  IF Cached(host)
    THEN leaf = cache[host] /\ UNCHANGED cache
    ELSE /\ CanMint
         /\ leaf = NewLeaf
         /\ \E gone \in Evicted(host) :
              cache' = [other \in Names |->
                          CASE other = host   -> leaf
                            [] other \in gone -> NoLeaf
                            [] OTHER          -> cache[other]]

GetFails(host) ==
  /\ ~Cached(host) /\ ~CanMint
  /\ cache' = [cache EXCEPT ![host] = NoLeaf]

(* What a client that trusts the root checks.                              *)
Verifies(leaf, host) ==
  /\ clock <= leaf.until /\ clock <= leaf.cert.until
  /\ leaf.cert.root = root
  /\ Within(leaf.cert.domains, host)
=============================================================================

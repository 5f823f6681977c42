---------------------------- MODULE Interception ----------------------------
(***************************************************************************)
(* What the proxy does with a connection (agent/internal/proxy: proxy.go,  *)
(* capture.go, hosts.go): pass it sealed, or open it with a certificate of *)
(* its own; and what it learns from a client that refuses the certificate. *)
(*                                                                         *)
(* The decision is taken twice, before the program behind the connection   *)
(* is known and after, and the tunnel list can change in between.          *)
(***************************************************************************)
EXTENDS Certificates

CONSTANTS
  Conns,      \* bound: connections at one time
  Programs,
  Unknown,    \* the identity of a program that could not be found out: ""
  Unwilling   \* <<host, program>>: pins, or does not offer http/1.1

ASSUME InterceptionAssumption ==
  /\ Unknown \notin Programs
  /\ Unwilling \subseteq Names \X Programs

VARIABLES
  conns,     \* the connections
  tunnel,    \* Classifier.tunnel: <<host, identity>>
  refusals   \* history: who refused what since the agent started

vars == <<certVars, conns, tunnel, refusals>>

Decision == {"pass", "capture", "tunnel"}
Closed == [pc |-> "closed"]
Conn == {Closed} \cup
        [pc : {"dialing", "upstream", "handshake", "open", "sealed"},
         host : Names, program : Programs, decision : Decision,
         client : Programs \cup {Unknown}, leaf : Leaf]

InterceptionTypeOK ==
  /\ CertTypeOK
  /\ conns \in [Conns -> Conn]
  /\ tunnel \subseteq Names \X (Programs \cup {Unknown})
  /\ refusals \subseteq [host : Names, program : Programs, client : Programs \cup {Unknown}]

Init ==
  /\ CertInit
  /\ conns = [c \in Conns |-> Closed]
  /\ tunnel = {} /\ refusals = {}

-----------------------------------------------------------------------------

(* Tunnel wins over capture.                                               *)
Classify(host, client) ==
  IF <<host, client>> \in tunnel THEN "tunnel"
  ELSE IF Allowed(list, host) THEN "capture" ELSE "pass"

(* CONNECT arrives: a first decision, about the host only.                 *)
Connect(c, host, program) ==
  /\ agent = "up"
  /\ conns[c] = Closed
  /\ conns' = [conns EXCEPT ![c] =
       [pc |-> "dialing", host |-> host, program |-> program,
        decision |-> Classify(host, Unknown), client |-> Unknown, leaf |-> NoLeaf]]
  /\ UNCHANGED <<certVars, tunnel, refusals>>

(* The server is there; what is not to be captured is piped.               *)
PassSealed(c) ==
  /\ conns[c].pc = "dialing" /\ conns[c].decision # "capture"
  /\ conns' = [conns EXCEPT ![c].pc = "sealed"]
  /\ UNCHANGED <<certVars, tunnel, refusals>>

(* Otherwise the program is looked up, which may fail, and the tunnel list *)
(* asked again.                                                            *)
Identify(c, client) ==
  LET k == conns[c]
  IN /\ k.pc = "dialing" /\ k.decision = "capture"
     /\ client \in {k.program, Unknown}
     /\ conns' = [conns EXCEPT ![c] =
          IF Classify(k.host, client) = "tunnel"
            THEN [k EXCEPT !.pc = "sealed", !.client = client, !.decision = "tunnel"]
            ELSE [k EXCEPT !.pc = "upstream", !.client = client]]
     /\ UNCHANGED <<certVars, tunnel, refusals>>

(* The provider's certificate was good: a leaf for the client.             *)
Present(c) ==
  /\ conns[c].pc = "upstream"
  /\ \E leaf \in {cache[conns[c].host], NewLeaf} :
       /\ Get(conns[c].host, leaf)
       /\ conns' = [conns EXCEPT ![c].pc = "handshake", ![c].leaf = leaf]
  /\ UNCHANGED <<clock, gap, root, list, agent, issued, disk, inter, writing, fresh, faults,
                 tunnel, refusals>>

(* Minting fails: the connection is closed, and not tunnelled either.      *)
MintingFails(c) ==
  /\ conns[c].pc = "upstream"
  /\ GetFails(conns[c].host)
  /\ conns' = [conns EXCEPT ![c] = Closed]
  /\ UNCHANGED <<clock, gap, root, list, agent, issued, disk, inter, writing, fresh, faults,
                 tunnel, refusals>>

Objects(k) == <<k.host, k.program>> \in Unwilling \/ ~Verifies(k.leaf, k.host)

(* Slip: keyed by the host alone, as the list was once.                    *)
RefuseForAll(c) ==
  LET k == conns[c]
  IN /\ k.pc = "handshake" /\ Objects(k)
     /\ tunnel' = tunnel \cup ({k.host} \X (Programs \cup {Unknown}))
     /\ refusals' = refusals \cup {[host |-> k.host, program |-> k.program, client |-> k.client]}
     /\ conns' = [conns EXCEPT ![c] = Closed]
     /\ UNCHANGED certVars

(* Slip: only an alert counts, and only from a program that is known.      *)
RefuseIfKnown(c) ==
  LET k == conns[c]
  IN /\ k.pc = "handshake" /\ Objects(k)
     /\ tunnel' = IF k.client = Unknown THEN tunnel ELSE tunnel \cup {<<k.host, k.client>>}
     /\ refusals' = refusals \cup {[host |-> k.host, program |-> k.program, client |-> k.client]}
     /\ conns' = [conns EXCEPT ![c] = Closed]
     /\ UNCHANGED certVars

(* The client sends an alert, or never offered http/1.1: the program is    *)
(* put on the tunnel list, under the identity found when it connected.     *)
Refuse(c) ==
  LET k == conns[c]
  IN /\ k.pc = "handshake" /\ Objects(k)
     /\ tunnel' = tunnel \cup {<<k.host, k.client>>}
     /\ refusals' = refusals \cup {[host |-> k.host, program |-> k.program, client |-> k.client]}
     /\ conns' = [conns EXCEPT ![c] = Closed]
     /\ UNCHANGED certVars

(* The handshake succeeds: requests and answers are read from now on, and  *)
(* the leaf is not looked at again.                                        *)
Open(c) ==
  /\ conns[c].pc = "handshake" /\ ~Objects(conns[c])
  /\ conns' = [conns EXCEPT ![c].pc = "open", ![c].leaf = NoLeaf]
  /\ UNCHANGED <<certVars, tunnel, refusals>>

(* The connection ends: the dial or the provider's handshake fails, the    *)
(* client is gone without an alert, or both are done.  Nothing is learnt.  *)
HangUp(c) ==
  /\ conns[c] # Closed
  /\ conns' = [conns EXCEPT ![c] = Closed]
  /\ UNCHANGED <<certVars, tunnel, refusals>>

(* What the agent loop and the installer do beside the connections.        *)
Issuer ==
  /\ Start \/ KeepIssuer \/ ReuseIssuer \/ Issue \/ SaveCert \/ SaveKey \/ IssueFails \/ Reinstall
  /\ UNCHANGED <<conns, tunnel, refusals>>

(* The tunnel list is in memory only.                                      *)
AgentCrash ==
  /\ CertCrash
  /\ conns' = [c \in Conns |-> Closed]
  /\ tunnel' = {} /\ refusals' = {}

(* A handshake is given 30 s, which is no time here.                       *)
TimePasses ==
  /\ \A c \in Conns : conns[c].pc # "handshake"
  /\ Pass
  /\ UNCHANGED <<conns, tunnel, refusals>>

Next ==
  \/ \E c \in Conns :
       \/ \E host \in Names, program \in Programs : Connect(c, host, program)
       \/ PassSealed(c)
       \/ \E client \in Programs \cup {Unknown} : Identify(c, client)
       \/ Present(c) \/ MintingFails(c) \/ Refuse(c) \/ Open(c) \/ HangUp(c)
  \/ Issuer \/ AgentCrash \/ TimePasses

Spec == Init /\ [][Next]_vars

-----------------------------------------------------------------------------

(* A leaf that is shown to a client verifies: it and the intermediate that *)
(* signed it, which may have been replaced since (device.go:46-48), have   *)
(* not ended, the chain is the installed root's, after a reinstallation    *)
(* too (intermediate.go:318-323), and the host is within the name          *)
(* constraints.                                                            *)
ServedVerifies ==
  \A c \in Conns : conns[c].pc = "handshake" => Verifies(conns[c].leaf, conns[c].host)

(* An AI host is left sealed only for a program that refused it, or after  *)
(* a refusal by a program that could not be identified: never for a client *)
(* that merely went away (capture.go:42-45), nor for another program's     *)
(* refusal under its own name (hosts.go:165-168).                          *)
SealedForAReason ==
  \A c \in Conns :
    conns[c].pc = "sealed" /\ Allowed(list, conns[c].host) =>
      \E r \in refusals : /\ r.host = conns[c].host
                          /\ r.program = conns[c].program \/ r.client = Unknown

(* A program is not broken on every connection (hosts.go:178-180): as long *)
(* as the agent is restarted finitely often, a program that refuses the    *)
(* certificate, whatever it was identified as, is refused finitely often   *)
(* and gets through sealed from then on.                                   *)
RefusedFinitely ==
  \A program \in Programs :
    <>[][~ \E c \in Conns : Refuse(c) /\ conns[c].program = program]_vars

(* intermediate.go:313: "ProvisionDevice returns a usable intermediate".   *)
UsableIssuer == agent = "up" => CanMint

(* intermediate.go:45-47: "Renewing with two days left means a device that *)
(* is asleep over a weekend still comes back with a valid chain."          *)
ChainIsValid == agent = "up" => clock <= inter.cert.until
=============================================================================

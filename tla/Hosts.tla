------------------------------- MODULE Hosts -------------------------------
(***************************************************************************)
(* Hostnames, the allow-list and the name constraints derived from it      *)
(* (agent/internal/proxy/hosts.go, agent/internal/ca/intermediate.go).  A  *)
(* hostname is its sequence of labels, as normalizeHost leaves it: without *)
(* port and trailing dot, in lower case.                                   *)
(***************************************************************************)
EXTENDS Sequences, SequencesExt

CONSTANTS
  Names,   \* the hostnames clients ask for
  Lists    \* the allow-lists of the releases that may be installed

(* An entry of the list: an exact name, or "*." and a domain.              *)
Entry == [wild : BOOLEAN, name : Seq(STRING)]

ASSUME HostsAssumption ==
  /\ Names \subseteq Seq(STRING)
  /\ Lists \subseteq SUBSET Entry

(* matchHost: whole labels only; "*.claude.ai" covers claude.ai itself.    *)
Matches(entry, host) ==
  IF entry.wild THEN IsSuffix(entry.name, host) ELSE entry.name = host

Allowed(list, host) == \E entry \in list : Matches(entry, host)

(* PermittedDomainsFrom: the names the device's intermediate may sign for. *)
PermittedDomains(list) == {entry.name : entry \in list}

(* RFC 5280: a DNS constraint covers a name and everything beneath it.     *)
Within(domains, host) == \E domain \in domains : IsSuffix(domain, host)
=============================================================================

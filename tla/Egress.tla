------------------------------- MODULE Egress ------------------------------
(***************************************************************************)
(* Where the gateway may connect to (internal/egress/egress.go): the       *)
(* entries of the allowlist, the endpoint of a URL or of an authority, and *)
(* whether the one is allowed by the other.                                *)
(*                                                                         *)
(* A host as it is written is a DNS name, a sequence of labels up to case, *)
(* or an IP literal up to its mapping into IPv6, perhaps with a zone;      *)
(* either may end in a dot.  A port that is not written is 0.  A parser    *)
(* returns the set of its results, which is empty if it fails.             *)
(***************************************************************************)
EXTENDS Integers, Sequences

CONSTANTS
  Labels,         \* the labels validateDNSName accepts
  Loopback,       \* the loopback addresses
  Public          \* the addresses PublicDNSAddress accepts

DefaultPort == 443
MaxPort == 65535

(* validateDNSName, on a name in lower case. *)
ValidateDNSName(name) == Len(name) > 0 /\ \A i \in 1 .. Len(name) : name[i] \in Labels

(* endpointForHost: the dot is trimmed, a literal is unmapped and a name   *)
(* is put in lower case.                                                   *)
EndpointForHost(h, port) ==
  IF h.literal
  THEN IF h.zone THEN {} ELSE {[literal |-> TRUE, host |-> h.ip, port |-> port]}
  ELSE IF ValidateDNSName(h.name)
       THEN {[literal |-> FALSE, host |-> h.name, port |-> port]}
       ELSE {}

NormalizePort(port) == {p \in {port} : 1 <= p /\ p <= MaxPort}

(* parseRuleAuthority.  Without brackets an IPv6 literal has no port. *)
ParseRuleAuthority(host, port) ==
  IF port = 0 THEN EndpointForHost(host, DefaultPort)
              ELSE UNION {EndpointForHost(host, p) : p \in NormalizePort(port)}

(* ParseAuthority, at the dial: the port must be written. *)
ParseAuthority_KeepsDot(host, port) ==
  IF port = 0 \/ host.dot THEN {} ELSE ParseRuleAuthority(host, port)

ParseAuthority(host, port) == IF port = 0 THEN {} ELSE ParseRuleAuthority(host, port)

(* ParseHTTPSURL, on a URL whose other parts are in order or not. *)
ParseHTTPSURL(u) ==
  IF u.scheme # "https" \/ u.userinfo \/ u.fragment THEN {}
                                                   ELSE ParseRuleAuthority(u.host, u.port)

(* parseRule: a wildcard has no port and a name, a literal has a port. *)
ParseRule(e) ==
  {[literal |-> p.literal, host |-> p.host, port |-> p.port, wild |-> e.wild] :
     p \in {q \in ParseRuleAuthority(e.host, e.port) :
              /\ e.wild => e.port = 0 /\ ~q.literal
              /\ q.literal => e.port # 0}}

(* ParseAllowlist: the rules of the entries, all of which must parse. *)
ParseAllowlist(entries) ==
  IF entries = {} \/ \E e \in entries : ParseRule(e) = {}
  THEN {} ELSE UNION {ParseRule(e) : e \in entries}

(* A wildcard matches the names below its host, not the host itself. *)
Subdomain_Apex(name, host) ==
  /\ Len(name) >= Len(host)
  /\ SubSeq(name, Len(name) - Len(host) + 1, Len(name)) = host

Subdomain(name, host) ==
  /\ Len(name) > Len(host)
  /\ SubSeq(name, Len(name) - Len(host) + 1, Len(name)) = host

(* A literal matches a literal with its port, a name matches a name. *)
EndpointAllowed(p, rules) ==
  \E r \in rules :
    /\ p.port = r.port
    /\ p.literal = r.literal
    /\ IF r.wild THEN Subdomain(p.host, r.host) ELSE p.host = r.host

(* bindLegacyLoopbackAllowlistPorts: an entry that is a bare loopback      *)
(* address stands for the ports at which enabled providers use it.         *)
BindLegacyLoopbackAllowlistPorts(entries, urls) ==
  LET legacy(e) ==
        /\ e.host.literal /\ ~e.host.dot /\ ~e.host.zone /\ e.host.ip \in Loopback
        /\ ~e.wild /\ e.port = 0
      uses(e) == {p \in UNION {ParseHTTPSURL(u) : u \in urls} : p.literal /\ p.host = e.host.ip}
      written(p) == [wild |-> FALSE, port |-> p.port,
                     host |-> [literal |-> TRUE, ip |-> p.host, zone |-> FALSE, dot |-> FALSE]]
  IN UNION {IF legacy(e) /\ uses(e) # {} THEN {written(p) : p \in uses(e)} ELSE {e} :
              e \in entries}

(* providerRuntime: the start fails unless every provider is allowed. *)
ProvidersAllowed(entries, urls) ==
  \A u \in urls : \E p \in ParseHTTPSURL(u) : EndpointAllowed(p, ParseAllowlist(entries))

(* net/http's authority of a URL: what is written, with the port filled    *)
(* in.                                                                     *)
Authority(u) == [host |-> u.host, port |-> IF u.port = 0 THEN DefaultPort ELSE u.port]

(* PublicDNSAddress, on an answer of the resolver. *)
PublicDNSAddress(a) == ~a.zone /\ a.ip \in Public
=============================================================================

----------------------------- MODULE EgressRules -----------------------------
(***************************************************************************)
(* What a sandbox may reach: the rules that egress.py renders from an      *)
(* EgressConfig for iptables and for a NetworkPolicy, and the proxy of     *)
(* egress_proxy.py, to which the local runtime diverts :443.               *)
(*                                                                         *)
(* A behaviour is the way of one packet of one connection on the local     *)
(* host.  Addresses are points, a CIDR is a set of them; the entries of    *)
(* `allow` give one set, since their rules differ in nothing else.         *)
(***************************************************************************)
EXTENDS Naturals, Sequences

CONSTANTS
  Addr,       \* destinations
  LinkLocal,  \* IMDS_RANGE
  Metadata,   \* IMDS_CIDR
  Private,    \* RFC1918
  Internal,   \* what ipaddress calls private, loopback, link-local, reserved, ...
  Port,       \* destination ports
  AllowSets,  \* what `allow` and store_cidr may resolve to
  Name,       \* host names, as sequences of labels
  Pattern     \* entries of the domain list: a name, or all names below it

NoName == << >>

ASSUME EgressAssumption ==
  /\ Metadata \subseteq LinkLocal
  /\ LinkLocal \cup Private \subseteq Internal /\ Internal \subseteq Addr
  /\ {53, 443} \subseteq Port /\ Port \subseteq Nat \ {0}
  /\ AllowSets \subseteq SUBSET Addr /\ {} \in AllowSets
  /\ Name \subseteq Seq(STRING) \ {NoName}
  /\ Pattern \subseteq [name : Name, below : BOOLEAN]

VARIABLES
  cfg,       \* EgressConfig
  domains,   \* the per-run domain list
  redirect,  \* :443 of the sandbox's subnet is diverted to the proxy
  conn,      \* the packet: of which connection, and whether it opens it
  at,        \* where it is: "route", "chain", "proxy" or "done"
  pos,       \* the rule of the chain it is held against
  verdict

vars == <<cfg, domains, redirect, conn, at, pos, verdict>>

Config == [allow : AllowSets, allow_port : Port, public_https : BOOLEAN,
           store : AllowSets, store_port : Port]
Conn == [addr : Addr, proto : {"tcp", "udp"}, port : Port, sni : Name \cup {NoName},
         new : BOOLEAN]

-----------------------------------------------------------------------------
(* The rules.  Port 0 and protocol "any" stand for no such condition. *)

Rule(proto, port, dst, target) ==
  [proto |-> proto, port |-> port, dst |-> dst, open |-> TRUE, target |-> target]
Established == [Rule("any", 0, Addr, "accept") EXCEPT !.open = FALSE]
AllowRule   == Rule("tcp", cfg.allow_port, cfg.allow, "accept")
DnsUdp      == Rule("udp", 53, Addr, "accept")
DnsTcp      == Rule("tcp", 53, Addr, "accept")
HttpsRule   == Rule("tcp", 443, Addr, "accept")
Reject(dst) == Rule("any", 0, dst, "reject")

Matches(rule, c) ==
  /\ rule.proto \in {"any", c.proto}
  /\ rule.port \in {0, c.port}
  /\ c.addr \in rule.dst
  /\ rule.open \/ ~c.new

DnsFirst ==
  <<Established, Reject(LinkLocal), AllowRule, DnsUdp, DnsTcp, Reject(Private)>>
\* local_egress_iptables up to the DNS rules, in its order.
Denies ==
  <<Established, Reject(LinkLocal), AllowRule, Reject(Private), DnsUdp, DnsTcp>>

Opens == IF cfg.public_https THEN Append(Denies, HttpsRule) ELSE Denies
\* local_egress_iptables: the first rule that matches decides.
Chain == Append(Opens, Reject(Addr))

Everywhere(rule) == [rule EXCEPT !.dst = Addr \ Metadata]
StoreRule == Rule("tcp", cfg.store_port, cfg.store, "accept")

HttpsOrAllow ==
  {StoreRule, Everywhere(DnsUdp), Everywhere(DnsTcp),
   IF cfg.public_https THEN Everywhere(HttpsRule) ELSE AllowRule}
\* k8s_egress_rules: any rule that matches allows.
K8sRules ==
  {StoreRule, Everywhere(DnsUdp), Everywhere(DnsTcp), AllowRule}
    \cup (IF cfg.public_https THEN {Everywhere(HttpsRule)} ELSE {})

K8sAllows(c) == \E r \in K8sRules : Matches(r, c)

-----------------------------------------------------------------------------
(* The proxy *)

ApexToo(name, p) ==
  \/ name = p.name
  \/ p.below /\ Len(name) > Len(p.name)
       /\ SubSeq(name, Len(name) - Len(p.name) + 1, Len(name)) = p.name
\* domain_allowed for one pattern: the name itself, or one or more labels below it.
NameMatches(name, p) ==
  IF p.below
  THEN /\ Len(name) > Len(p.name)
       /\ SubSeq(name, Len(name) - Len(p.name) + 1, Len(name)) = p.name
  ELSE name = p.name

\* SniProxy.handle: a public destination, a name in the hello, and the name listed.
ProxyAllows(c) ==
  /\ c.addr \notin Internal
  /\ c.sni # NoName /\ \E p \in domains : NameMatches(c.sni, p)

-----------------------------------------------------------------------------
\* Two hosts: one whose chain a provisioner rendered from its config, and one in a
\* run with a domain list, where _egress_apply renders EgressConfig(allow=()).
Init ==
  /\ cfg \in Config /\ conn \in Conn
  /\ \/ redirect = FALSE /\ domains = {}
     \/ /\ redirect = TRUE /\ domains \in SUBSET Pattern
        /\ cfg = [allow |-> {}, allow_port |-> 443, public_https |-> FALSE,
                  store |-> {}, store_port |-> 443]
  /\ at = "route" /\ pos = 1 /\ verdict = "none"

Diverted(c) == redirect /\ c.new /\ c.proto = "tcp" /\ c.port = 443

\* The REDIRECT rule sees the packets that open a connection; the rest is FORWARD's.
Route ==
  /\ at = "route"
  /\ at' = IF Diverted(conn) THEN "proxy" ELSE "chain"
  /\ UNCHANGED <<cfg, domains, redirect, conn, pos, verdict>>

Walk ==
  /\ at = "chain" /\ pos \in DOMAIN Chain
  /\ IF Matches(Chain[pos], conn)
       THEN at' = "done" /\ verdict' = Chain[pos].target /\ UNCHANGED pos
       ELSE pos' = pos + 1 /\ UNCHANGED <<at, verdict>>
  /\ UNCHANGED <<cfg, domains, redirect, conn>>

Proxy ==
  /\ at = "proxy"
  /\ at' = "done"
  /\ verdict' = IF ProxyAllows(conn) THEN "accept" ELSE "reject"
  /\ UNCHANGED <<cfg, domains, redirect, conn, pos>>

Next == Route \/ Walk \/ Proxy

Spec == Init /\ [][Next]_vars
-----------------------------------------------------------------------------
(* Properties *)

\* Type invariant.  Besides the types: a packet does not fall off the chain's end,
\* for the last rule takes every packet.
TypeOK ==
  /\ cfg \in Config /\ domains \subseteq Pattern /\ redirect \in BOOLEAN /\ conn \in Conn
  /\ at \in {"route", "chain", "proxy", "done"}
  /\ pos \in DOMAIN Chain
  /\ verdict \in {"none", "accept", "reject"}
  /\ at = "done" <=> verdict # "none"

\* The policy of docs/networking.md without an order of rules: the metadata range
\* never; private addresses only where `allow` names them; public ones on the DNS
\* port, on `allow_port` where `allow` names them, and on :443 if all of it is open.
ChainPolicy(c) ==
  /\ c.addr \notin LinkLocal
  /\ \/ c.proto = "tcp" /\ c.port = cfg.allow_port /\ c.addr \in cfg.allow
     \/ /\ c.addr \notin Private
        /\ \/ c.port = 53
           \/ cfg.public_https /\ c.proto = "tcp" /\ c.port = 443

\* :443 of a run with a domain list: public hosts, by the listed names only; "*.x"
\* stands for what is below x and not for x.
ProxyPolicy(c) ==
  /\ c.addr \notin LinkLocal \cup Private
  /\ \E p \in domains :
       IF p.below THEN \E k \in 1..Len(c.sni) - 1 : SubSeq(c.sni, k + 1, Len(c.sni)) = p.name
                  ELSE c.sni = p.name

\* The rules, first match wins, and the proxy together let open exactly the
\* connections the policy names, and let those that are open go on.
VerdictIsPolicy ==
  verdict # "none" =>
    ((verdict = "accept") <=>
       (\/ ~conn.new
        \/ IF Diverted(conn) THEN conn.addr \notin Internal /\ ProxyPolicy(conn)
                             ELSE ChainPolicy(conn)))

\* One config for every backend: what the local chain opens, the NetworkPolicy
\* rendered from the same config opens too.
PortableToK8s ==
  verdict = "accept" /\ conn.new /\ ~redirect => K8sAllows(conn)
=============================================================================

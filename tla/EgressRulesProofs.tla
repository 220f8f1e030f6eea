-------------------------- MODULE EgressRulesProofs --------------------------
(***************************************************************************)
(* What egress opens, for every config, address plan and list of domains:  *)
(* the rules, walked first match first, decide as the policy says, and a   *)
(* NetworkPolicy opens what the local chain opens.                         *)
(***************************************************************************)
EXTENDS EgressRules, TLAPS

ChainSize == IF cfg.public_https THEN 8 ELSE 7

\* The rules of the chain, one by one.
LEMMA ChainRules ==
  /\ Len(Chain) = ChainSize /\ DOMAIN Chain = 1..ChainSize
  /\ Chain[1] = Established /\ Chain[2] = Reject(LinkLocal) /\ Chain[3] = AllowRule
  /\ Chain[4] = Reject(Private) /\ Chain[5] = DnsUdp /\ Chain[6] = DnsTcp
  /\ Chain[7] = IF cfg.public_https THEN HttpsRule ELSE Reject(Addr)
  /\ cfg.public_https => Chain[8] = Reject(Addr)
BY DEF Chain, Opens, Denies, ChainSize

\* The end of a name that a "*." pattern asks for, said in two ways.
LEMMA Suffix ==
  ASSUME NEW n \in Name \cup {NoName}, NEW p \in Pattern
  PROVE  NameMatches(n, p) <=>
           IF p.below THEN \E k \in 1..Len(n) - 1 : SubSeq(n, k + 1, Len(n)) = p.name
                      ELSE n = p.name
<1>a. p.name \in Name
  BY EgressAssumption
<1>1. n \in Seq(STRING) /\ p.name \in Seq(STRING) /\ p.name # NoName
  <2>1. Name \subseteq Seq(STRING) /\ NoName \notin Name
    BY EgressAssumption, Zenon
  <2>2. NoName \in Seq(STRING)
    BY DEF NoName
  <2> QED
    BY <1>a, <2>1, <2>2, Zenon
<1>2. Len(n) \in Nat /\ Len(p.name) \in Nat \ {0}
  BY <1>1 DEF NoName
<1>3. ASSUME NEW k \in 1..Len(n) - 1
      PROVE  Len(SubSeq(n, k + 1, Len(n))) = Len(n) - k
  BY <1>1, <1>2, <1>3
<1>4. ASSUME p.below PROVE NameMatches(n, p) => \E k \in 1..Len(n) - 1 : SubSeq(n, k + 1, Len(n)) = p.name
  <2>1. SUFFICES ASSUME NameMatches(n, p)
                 PROVE  \E k \in 1..Len(n) - 1 : SubSeq(n, k + 1, Len(n)) = p.name
    OBVIOUS
  <2>2. Len(n) - Len(p.name) \in 1..Len(n) - 1
    BY <1>2, <1>4, <2>1 DEF NameMatches
  <2>3. SubSeq(n, (Len(n) - Len(p.name)) + 1, Len(n)) = p.name
    BY <1>4, <2>1 DEF NameMatches
  <2> QED
    BY <2>2, <2>3
<1>5. ASSUME p.below, NEW k \in 1..Len(n) - 1, SubSeq(n, k + 1, Len(n)) = p.name
      PROVE  NameMatches(n, p)
  <2>1. Len(p.name) = Len(n) - k
    BY <1>3, <1>5
  <2> QED
    BY <1>2, <1>5, <2>1 DEF NameMatches
<1> QED
  BY <1>4, <1>5 DEF NameMatches

\* What the proxy lets through is what the list says.
LEMMA ProxyDecides ==
  ASSUME NEW c \in Conn, domains \subseteq Pattern
  PROVE  ProxyAllows(c) <=> c.addr \notin Internal /\ ProxyPolicy(c)
<1>1. c.sni \in Name \cup {NoName}
  BY DEF Conn
<1>2. c.sni = NoName => ~\E p \in domains : NameMatches(c.sni, p)
  <2> SUFFICES ASSUME c.sni = NoName, NEW p \in domains, NameMatches(c.sni, p)
               PROVE  FALSE
    OBVIOUS
  <2>1. p.name \in Seq(STRING) /\ p.name # NoName
    BY EgressAssumption
  <2>2. Len(p.name) \in Nat /\ Len(c.sni) = 0
    BY <2>1 DEF NoName
  <2> QED
    BY <2>1, <2>2 DEF NameMatches
<1> QED
  BY <1>1, <1>2, Suffix, EgressAssumption DEF ProxyAllows, ProxyPolicy

-----------------------------------------------------------------------------
\* No rule before the one at hand has matched; a packet that was not decided yet is
\* where its kind belongs.
Passed == at = "chain" => \A i \in 1..pos - 1 : ~Matches(Chain[i], conn)
Placed ==
  /\ at = "route" => pos = 1
  /\ at = "chain" => ~Diverted(conn)
  /\ at = "proxy" => Diverted(conn)

IInv == TypeOK /\ Placed /\ Passed /\ VerdictIsPolicy

\* A packet starts before the first rule.
LEMMA InitIInv == Init => IInv
<1> SUFFICES ASSUME Init PROVE IInv
  OBVIOUS
<1>1. cfg \in Config /\ conn \in Conn /\ redirect \in BOOLEAN /\ domains \subseteq Pattern
  BY Zenon DEF Init
<1>2. 1 \in DOMAIN Chain
  BY ChainRules DEF ChainSize
<1> QED
  BY <1>1, <1>2 DEF Init, IInv, TypeOK, Placed, Passed, VerdictIsPolicy

\* The first match decides as the policy does.
LEMMA FirstMatch ==
  ASSUME IInv, at = "chain", Matches(Chain[pos], conn)
  PROVE  /\ Chain[pos].target \in {"accept", "reject"}
         /\ (Chain[pos].target = "accept") <=> (~conn.new \/ ChainPolicy(conn))
<1> USE DEF Rule
<1>0. /\ conn \in Conn /\ cfg \in Config /\ pos \in 1..ChainSize
      /\ \A i \in 1..pos - 1 : ~Matches(Chain[i], conn)
  BY ChainRules DEF IInv, TypeOK, Passed
<1>1. CASE pos = 1
  BY <1>0, <1>1, ChainRules DEF Matches, Established, ChainPolicy
<1>1a. ASSUME pos # 1 PROVE conn.new
  BY <1>0, <1>1a, ChainRules DEF Matches, Established, Conn, ChainSize
<1>2. CASE pos = 2
  BY <1>0, <1>1a, <1>2, ChainRules DEF Matches, Reject, ChainPolicy
<1>2a. ASSUME pos > 2 PROVE conn.addr \notin LinkLocal
  BY <1>0, <1>2a, ChainRules DEF Matches, Reject, Conn, ChainSize
<1>3. CASE pos = 3
  BY <1>0, <1>1a, <1>2a, <1>3, ChainRules, EgressAssumption
  DEF Matches, AllowRule, ChainPolicy, Config, Conn
<1>3a. ASSUME pos > 3
       PROVE  ~(conn.proto = "tcp" /\ conn.port = cfg.allow_port /\ conn.addr \in cfg.allow)
  BY <1>0, <1>3a, ChainRules DEF Matches, AllowRule, ChainSize
<1>4. CASE pos = 4
  BY <1>0, <1>1a, <1>3a, <1>4, ChainRules DEF Matches, Reject, ChainPolicy
<1>4a. ASSUME pos > 4 PROVE conn.addr \notin Private
  BY <1>0, <1>4a, ChainRules DEF Matches, Reject, ChainSize
<1>5. CASE pos = 5
  BY <1>0, <1>1a, <1>2a, <1>4a, <1>5, ChainRules, EgressAssumption
  DEF Matches, DnsUdp, ChainPolicy, Conn
<1>6. CASE pos = 6
  BY <1>0, <1>1a, <1>2a, <1>4a, <1>6, ChainRules, EgressAssumption
  DEF Matches, DnsTcp, ChainPolicy, Conn
<1>6a. ASSUME pos > 6 PROVE conn.port # 53
  BY <1>0, <1>6a, ChainRules DEF Matches, DnsUdp, DnsTcp, Conn, ChainSize
<1>7. CASE pos = 7 /\ cfg.public_https
  BY <1>0, <1>1a, <1>2a, <1>4a, <1>7, ChainRules, EgressAssumption
  DEF Matches, HttpsRule, ChainPolicy, Conn
<1>8. CASE pos = 7 /\ ~cfg.public_https
  BY <1>0, <1>1a, <1>3a, <1>6a, <1>8, ChainRules DEF Matches, Reject, ChainPolicy
<1>9. CASE pos = 8
  <2>1. cfg.public_https
    BY <1>0, <1>9 DEF ChainSize
  <2>2. ~Matches(HttpsRule, conn)
    BY <1>0, <1>9, <2>1, ChainRules
  <2>3. ~(conn.proto = "tcp" /\ conn.port = 443)
    BY <1>0, <2>2 DEF Matches, HttpsRule, Conn
  <2> QED
    BY <1>0, <1>1a, <1>3a, <1>6a, <1>9, <2>1, <2>3, ChainRules DEF Matches, Reject, ChainPolicy
<1> QED
  BY <1>0, <1>1, <1>2, <1>3, <1>4, <1>5, <1>6, <1>7, <1>8, <1>9 DEF ChainSize

\* The last rule takes every packet.
LEMMA EndMatches ==
  ASSUME IInv, at = "chain", pos = ChainSize
  PROVE  Matches(Chain[pos], conn)
<1>1. conn \in Conn /\ cfg \in Config
  BY DEF IInv, TypeOK
<1>2. Chain[pos] = Reject(Addr)
  BY ChainRules DEF ChainSize
<1> QED
  BY <1>1, <1>2 DEF Matches, Reject, Rule, Conn

\* Routing, walking and the proxy keep the invariant.
LEMMA NextIInv == IInv /\ [Next]_vars => IInv'
<1> SUFFICES ASSUME IInv, [Next]_vars PROVE IInv'
  OBVIOUS
<1>0. /\ cfg \in Config /\ domains \subseteq Pattern /\ conn \in Conn /\ pos \in 1..ChainSize
      /\ redirect \in BOOLEAN
  BY ChainRules, Zenon DEF IInv, TypeOK
<1>a. ASSUME UNCHANGED <<cfg, domains, redirect, conn>>
      PROVE  /\ Chain' = Chain
             /\ \A r : Matches(r, conn)' = Matches(r, conn)
  BY <1>a DEF Chain, Opens, Denies, Established, Reject, AllowRule, DnsUdp, DnsTcp, HttpsRule,
     Rule, Matches
<1>1. CASE Route
  BY <1>0, <1>1, <1>a DEF Route, IInv, TypeOK, Placed, Passed, VerdictIsPolicy, Diverted
<1>2. CASE Walk
  <2>1. UNCHANGED <<cfg, domains, redirect, conn>> /\ at = "chain" /\ ~Diverted(conn)
    BY <1>2 DEF Walk, IInv, Placed
  <2>2. CASE Matches(Chain[pos], conn)
    BY <1>0, <1>2, <1>a, <2>1, <2>2, FirstMatch
    DEF Walk, IInv, TypeOK, Placed, Passed, VerdictIsPolicy, Diverted, ChainPolicy
  <2>3. CASE ~Matches(Chain[pos], conn)
    <3>1. pos + 1 \in DOMAIN Chain
      BY <1>0, <2>1, <2>3, EndMatches, ChainRules DEF ChainSize
    <3>2. \A i \in 1..(pos + 1) - 1 : ~Matches(Chain[i], conn)
      BY <1>0, <2>1, <2>3 DEF IInv, Passed, ChainSize
    <3> QED
      BY <1>0, <1>2, <1>a, <2>1, <2>3, <3>1, <3>2
      DEF Walk, IInv, TypeOK, Placed, Passed, VerdictIsPolicy, Diverted
  <2> QED
    BY <2>2, <2>3
<1>3. CASE Proxy
  <2>1. Diverted(conn) /\ conn.new
    BY <1>3 DEF Proxy, IInv, Placed, Diverted
  <2>2. ProxyAllows(conn) <=> conn.addr \notin Internal /\ ProxyPolicy(conn)
    BY <1>0, ProxyDecides
  <2> QED
    BY <1>0, <1>3, <1>a, <2>1, <2>2
    DEF Proxy, IInv, TypeOK, Placed, Passed, VerdictIsPolicy, Diverted, ProxyPolicy, ProxyAllows
<1>4. CASE UNCHANGED vars
  BY <1>4, <1>a DEF vars, IInv, TypeOK, Placed, Passed, VerdictIsPolicy, Diverted, ChainPolicy,
     ProxyPolicy
<1> QED
  BY <1>1, <1>2, <1>3, <1>4 DEF Next

\* The invariant holds all the way of a packet.
LEMMA Inductive == Spec => []IInv
BY InitIInv, NextIInv, PTL DEF Spec

\* No packet falls off the chain, and the types hold.
THEOREM TypeCorrect == Spec => []TypeOK
BY Inductive, PTL DEF IInv

\* The rules of local_egress_iptables in their order, and the proxy, let open
\* exactly the connections the policy names.
THEOREM DecidesAsPolicy == Spec => []VerdictIsPolicy
BY Inductive, PTL DEF IInv

\* On the local host, whatever a config or a domain list allows, the metadata range
\* stays closed and a private address opens only where `allow` names it.
NoPivot ==
  verdict = "accept" /\ conn.new =>
    /\ conn.addr \notin LinkLocal
    /\ conn.addr \in Private => conn.addr \in cfg.allow

\* The order of the rules (the denies before DNS and HTTPS, the metadata range before
\* `allow`) and the proxy's own test give NoPivot.
THEOREM MetadataNeverOpens == Spec => []NoPivot
<1>1. IInv => NoPivot
  <2> SUFFICES ASSUME IInv, verdict = "accept", conn.new
               PROVE  conn.addr \notin LinkLocal /\ (conn.addr \in Private => conn.addr \in cfg.allow)
    BY DEF NoPivot
  <2> QED
    BY DEF IInv, VerdictIsPolicy, ChainPolicy, ProxyPolicy
<1> QED
  BY <1>1, Inductive, PTL

\* What a config opens on the local backend it opens on Kubernetes.
THEOREM SameConfigSameWay == Spec => []PortableToK8s
<1>1. IInv => PortableToK8s
  <2> SUFFICES ASSUME IInv, verdict = "accept", conn.new, ~redirect
               PROVE  K8sAllows(conn)
    BY DEF PortableToK8s
  <2>1. ChainPolicy(conn) /\ conn \in Conn /\ cfg \in Config
    BY DEF IInv, TypeOK, VerdictIsPolicy, Diverted
  <2>2. conn.addr \notin Metadata /\ conn.addr \in Addr /\ conn.proto \in {"tcp", "udp"}
    BY <2>1, EgressAssumption DEF ChainPolicy, Conn
  <2>3. CASE conn.proto = "tcp" /\ conn.port = cfg.allow_port /\ conn.addr \in cfg.allow
    <3>1. AllowRule \in K8sRules /\ Matches(AllowRule, conn)
      BY <2>3 DEF K8sRules, Matches, AllowRule, Rule
    <3> QED
      BY <3>1 DEF K8sAllows
  <2>4. CASE conn.port = 53
    <3>1. {Everywhere(DnsUdp), Everywhere(DnsTcp)} \subseteq K8sRules
      BY DEF K8sRules
    <3>2. Matches(Everywhere(DnsUdp), conn) \/ Matches(Everywhere(DnsTcp), conn)
      BY <2>2, <2>4 DEF Matches, Everywhere, DnsUdp, DnsTcp, Rule
    <3> QED
      BY <3>1, <3>2 DEF K8sAllows
  <2>5. CASE cfg.public_https /\ conn.proto = "tcp" /\ conn.port = 443
    <3>1. Everywhere(HttpsRule) \in K8sRules
      BY <2>5 DEF K8sRules
    <3>2. Matches(Everywhere(HttpsRule), conn)
      BY <2>2, <2>5 DEF Matches, Everywhere, HttpsRule, Rule
    <3> QED
      BY <3>1, <3>2 DEF K8sAllows
  <2> QED
    BY <2>1, <2>3, <2>4, <2>5 DEF ChainPolicy
<1> QED
  BY <1>1, Inductive, PTL
=============================================================================

-------------------------- MODULE RuleFixesProofs --------------------------
(* What the Optimize analysis and its fixes get right, for tables of any    *)
(* length and any number of clicks: on exact rules a rule called dead       *)
(* decides no traffic and disabling the shadowed rules changes no verdict,  *)
(* then or after later fixes; lifting a deny only tightens, lifting an      *)
(* accept only widens.                                                      *)
EXTENDS RuleFixes, RecursionTheorems

(* Zones, addresses and services one at a time: what covers also matches.   *)
LEMMA ZonesCoverMatch ==
  ASSUME NEW a, NEW b, NEW z, ZonesCover(a, b), b = {} \/ z \in b
  PROVE  a = {} \/ z \in a
BY DEF ZonesCover

(* Objects that are subnets or FQDNs: when the analysis finds b's addresses *)
(* covered by a's, every address that matches b matches a.                  *)
LEMMA AddressesCoverMatch ==
  ASSUME NEW a, NEW b, NEW ip,
         \A o \in a \cup b : o.type \in {"net", "fqdn"},
         \/ a = b
         \/ /\ ~AddrSet(a, FALSE).opaque /\ ~AddrSet(b, FALSE).opaque
            /\ AddrContains(AddrSet(a, FALSE), AddrSet(b, FALSE)),
         AddressMatches(b, FALSE, ip)
  PROVE  AddressMatches(a, FALSE, ip)
<1>1. CASE a = b
  BY <1>1
<1>2. CASE a = {}
  BY <1>2 DEF AddressMatches
<1>3. CASE a # b /\ a # {}
  <2>1. /\ ~AddrSet(a, FALSE).any /\ ~AddrSet(a, FALSE).opaque
        /\ ~AddrSet(b, FALSE).any /\ ~AddrSet(b, FALSE).opaque
        /\ \A n \in AddrSet(b, FALSE).nets :
             \E m \in AddrSet(a, FALSE).nets : n \subseteq m
    BY <1>3 DEF AddrContains, AddrSet
  <2>2. PICK o \in b : ip \in o.ips
    BY <2>1 DEF AddressMatches, AddrSet
  <2>3. \A q \in a \cup b : Networks(q) = { q.ips }
    BY <2>1 DEF Networks, AddrSet
  <2>4. o.ips \in AddrSet(b, FALSE).nets
    BY <2>3 DEF AddrSet
  <2>5. PICK m \in AddrSet(a, FALSE).nets : o.ips \subseteq m
    BY <2>1, <2>4
  <2>6. PICK q \in a : m = q.ips
    BY <2>3, <2>5 DEF AddrSet
  <2> QED BY <2>2, <2>5, <2>6 DEF AddressMatches
<1> QED BY <1>1, <1>2, <1>3

(* Services that are TCP or UDP port ranges: what the analysis finds        *)
(* contained is matched by the container.                                   *)
LEMMA ServicesCoverMatch ==
  ASSUME NEW a, NEW b, NEW f, f.port \in Nat,
         \A s \in a \cup b : /\ s.proto \notin IpNumbered \cup {"icmp"}
                             /\ s.lo \in Nat /\ s.hi \in Nat,
         ServiceContains(a, b), ServiceMatches(b, f)
  PROVE  ServiceMatches(a, f)
<1>1. CASE a = {}
  BY <1>1 DEF ServiceMatches
<1>2. CASE a # {}
  <2>1. PICK s \in b : s.proto = f.proto /\ s.lo <= f.port /\ f.port <= s.hi
    BY <1>2 DEF ServiceMatches, ServiceContains, IpNumbered
  <2>2. PICK r \in a : RangeContains(PortRange(r), PortRange(s))
    BY <1>2, <2>1 DEF ServiceContains
  <2>3. PortRange(r) = r /\ PortRange(s) = s
    BY DEF PortRange
  <2>4. r.proto = s.proto /\ r.lo <= s.lo /\ s.hi <= r.hi
    BY <2>2, <2>3 DEF RangeContains, IpNumbered
  <2>5. /\ f.port \in Nat /\ r.lo \in Nat /\ r.hi \in Nat
        /\ s.lo \in Nat /\ s.hi \in Nat
    OBVIOUS
  <2>6. r.lo <= f.port /\ f.port <= r.hi
    BY <2>1, <2>4, <2>5
  <2> QED BY <2>1, <2>4, <2>6 DEF ServiceMatches
<1> QED BY <1>1, <1>2

(* On exact rules the containment the analysis computes is containment of   *)
(* the traffic, compared as sets or, past the limit, by name.               *)
LEMMA CoversMatches ==
  ASSUME NEW deep, NEW p, NEW q, NEW f, f.port \in Nat,
         ExactRule(p), ExactRule(q), Covers(deep, p, q), RuleMatches(q, f)
  PROVE  RuleMatches(p, f)
<1>1. /\ p.from = {} \/ f.from \in p.from
      /\ p.to = {} \/ f.to \in p.to
  BY ZonesCoverMatch DEF Covers, RuleMatches
<1>2. ServiceMatches(p.svc, f)
  <2>1. \A s \in p.svc \cup q.svc : /\ s.proto \notin IpNumbered \cup {"icmp"}
                                   /\ s.lo \in Nat /\ s.hi \in Nat
    BY DEF ExactRule
  <2>2. ServiceContains(p.svc, q.svc) /\ ServiceMatches(q.svc, f)
    BY DEF Covers, RuleMatches
  <2> QED BY <2>1, <2>2, ServicesCoverMatch
<1>3. /\ p.srcNeg = FALSE /\ p.dstNeg = FALSE /\ p.when = {}
      /\ q.srcNeg = FALSE /\ q.dstNeg = FALSE
      /\ \A o \in p.src \cup q.src : o.type \in {"net", "fqdn"}
      /\ \A o \in p.dst \cup q.dst : o.type \in {"net", "fqdn"}
  BY DEF ExactRule
<1>4. /\ AddressMatches(q.src, FALSE, f.src) /\ AddressMatches(q.dst, FALSE, f.dst)
  BY <1>3 DEF RuleMatches
<1>5. /\ \/ p.src = q.src
         \/ /\ ~AddrSet(p.src, FALSE).opaque /\ ~AddrSet(q.src, FALSE).opaque
            /\ AddrContains(AddrSet(p.src, FALSE), AddrSet(q.src, FALSE))
      /\ \/ p.dst = q.dst
         \/ /\ ~AddrSet(p.dst, FALSE).opaque /\ ~AddrSet(q.dst, FALSE).opaque
            /\ AddrContains(AddrSet(p.dst, FALSE), AddrSet(q.dst, FALSE))
  BY <1>3 DEF Covers, AddressesCover, SameAddresses
<1>6. AddressMatches(p.src, FALSE, f.src) /\ AddressMatches(p.dst, FALSE, f.dst)
  BY <1>3, <1>4, <1>5, AddressesCoverMatch
<1> QED BY <1>1, <1>2, <1>3, <1>6 DEF RuleMatches

(* A rule called dead decides no traffic, in any exact table.               *)
LEMMA DeadRuleNeverFires ==
  ASSUME NEW rules, NEW t \in RuleTables, ExactTable(rules, t),
         NEW j \in DeadAt(rules, t), NEW f, f.port \in Nat
  PROVE  ~Fires(rules, t, f, j)
<1> SUFFICES ASSUME Fires(rules, t, f, j) PROVE FALSE
  OBVIOUS
<1>1. j \in DOMAIN t.order /\ DOMAIN t.order = 1 .. Len(t.order)
  BY DEF DeadAt, RuleTables
<1>2. PICK i \in 1 .. j - 1 :
        /\ Enabled(t, i)
        /\ Covers(Deep(t), rules[t.order[i]], rules[t.order[j]])
  BY DEF DeadAt, Shadowers
<1>3. i \in DOMAIN t.order
  BY <1>1, <1>2
<1>4. ExactRule(rules[t.order[i]]) /\ ExactRule(rules[t.order[j]])
  BY <1>1, <1>3 DEF ExactTable
<1>5. RuleMatches(rules[t.order[i]], f)
  BY <1>2, <1>4, CoversMatches DEF Fires
<1> QED BY <1>2, <1>5 DEF Fires
-----------------------------------------------------------------------------
(* The order of a table: what a filter and a sequence of lifts leave of it. *)

Listing(order, S) == order \in Seq(Names) /\ Distinct(order) /\ ToSet(order) = S

(* The position of a name is an index, or one past the end.                 *)
LEMMA PositionType ==
  ASSUME NEW order \in Seq(Names), NEW n
  PROVE  /\ Position(order, n) \in 1 .. Len(order) + 1
         /\ Position(order, n) <= Len(order) => order[Position(order, n)] = n
<1> DEFINE T == { i \in DOMAIN order : order[i] = n } \cup { Len(order) + 1 }
<1>1. T \subseteq Nat /\ T # {} /\ T \subseteq 1 .. Len(order) + 1
  OBVIOUS
<1>2. \E m \in T : \A k \in T : m <= k
  <2> HIDE DEF T
  <2> QED BY <1>1, LeastNatural
<1>3. Position(order, n) \in T
  BY <1>2 DEF Position, Min
<1> QED BY <1>1, <1>3

(* One lift moves a rule and loses none.                                    *)
LEMMA LiftedListing ==
  ASSUME NEW S, NEW order, Listing(order, S), NEW pair
  PROVE  Listing(Lifted(order, pair), S)
<1> DEFINE m == Position(order, pair[1])
           b == Position(order, pair[2])
           g == Lifted(order, pair)
<1>1. /\ order \in Seq(Names) /\ Distinct(order) /\ ToSet(order) = S
      /\ DOMAIN order = 1 .. Len(order) /\ Len(order) \in Nat
  BY DEF Listing
<1>2. CASE m > Len(order) \/ b > Len(order) \/ m <= b
  BY <1>2 DEF Lifted
<1>3. CASE ~(m > Len(order) \/ b > Len(order) \/ m <= b)
  <2>1. m \in 1 .. Len(order) /\ b \in 1 .. Len(order) /\ b < m
    <3>1. m \in 1 .. Len(order) + 1 /\ b \in 1 .. Len(order) + 1
      BY <1>1, PositionType
    <3> HIDE DEF m, b
    <3> QED BY <1>1, <1>3, <3>1
  <2>2. g = [ i \in DOMAIN order |-> IF i = b THEN order[m]
                                    ELSE IF i \in b + 1 .. m THEN order[i - 1]
                                    ELSE order[i] ]
    BY <1>3 DEF Lifted
  <2> HIDE DEF m, b, g
  <2> DEFINE from(i) == IF i = b THEN m ELSE IF i \in b + 1 .. m THEN i - 1 ELSE i
             to(i) == IF i = m THEN b ELSE IF i \in b .. m - 1 THEN i + 1 ELSE i
  <2>3. \A i \in DOMAIN order : from(i) \in DOMAIN order /\ to(i) \in DOMAIN order
    BY <1>1, <2>1
  <2>4. \A i \in DOMAIN order : from(to(i)) = i /\ to(from(i)) = i
    BY <1>1, <2>1
  <2>5. DOMAIN g = DOMAIN order /\ \A i \in DOMAIN order : g[i] = order[from(i)]
    BY <2>2
  <2> HIDE DEF from, to
  <2>6. g \in Seq(Names)
    <3>1. g = [ i \in 1 .. Len(order) |-> g[i] ]
      BY <1>1, <2>2
    <3>2. \A i \in 1 .. Len(order) : g[i] \in Names
      BY <1>1, <2>3, <2>5
    <3> QED BY <1>1, <3>1, <3>2
  <2>7. Distinct(g)
    BY <1>1, <2>3, <2>4, <2>5 DEF Distinct
  <2>8. ToSet(g) = ToSet(order)
    BY <2>3, <2>4, <2>5 DEF ToSet
  <2> QED BY <1>1, <2>6, <2>7, <2>8 DEF Listing, g
<1> QED BY <1>2, <1>3

(* The recursive definition of the replay has a solution, so it unfolds.    *)
LEMMA LiftedUpToUnfolds ==
  ASSUME NEW order, NEW pairs, Len(pairs) \in Nat
  PROVE  LET r == LiftedUpTo(order, pairs) IN
         r = [ k \in 0 .. Len(pairs) |->
                 IF k = 0 THEN order ELSE Lifted(r[k - 1], pairs[k]) ]
<1> DEFINE P(n, g) == g = [ k \in 0 .. n |->
                              IF k = 0 THEN order ELSE Lifted(g[k - 1], pairs[k]) ]
           Bad == { n \in Nat : ~\E g : P(n, g) }
<1>1. Bad = {}
  <2> SUFFICES ASSUME Bad # {} PROVE FALSE
    OBVIOUS
  <2>1. PICK n \in Bad : \A k \in Bad : n <= k
    <3>1. Bad \subseteq Nat
      OBVIOUS
    <3> HIDE DEF Bad
    <3> QED BY <3>1, LeastNatural
  <2>2. CASE n = 0
    <3>1. P(0, [ k \in 0 .. 0 |-> order ])
      OBVIOUS
    <3> QED BY <2>1, <2>2, <3>1
  <2>3. CASE n # 0
    <3>1. n \in Nat /\ n - 1 \in Nat /\ n - 1 < n
      BY <2>1, <2>3
    <3>2. PICK g : P(n - 1, g)
      BY <2>1, <3>1
    <3> DEFINE h == [ k \in 0 .. n |->
                        IF k \in 0 .. n - 1 THEN g[k] ELSE Lifted(g[n - 1], pairs[n]) ]
    <3>3. \A k \in 0 .. n : h[k] = IF k = 0 THEN order ELSE Lifted(h[k - 1], pairs[k])
      <4> SUFFICES ASSUME NEW k \in 0 .. n
                   PROVE  h[k] = IF k = 0 THEN order ELSE Lifted(h[k - 1], pairs[k])
        OBVIOUS
      <4>1. CASE k = 0
        BY <3>1, <3>2, <4>1
      <4>2. CASE k \in 1 .. n - 1
        <5>1. k \in 0 .. n - 1 /\ k - 1 \in 0 .. n - 1 /\ k - 1 \in 0 .. n /\ k # 0
          BY <3>1, <4>2
        <5>2. h[k] = g[k] /\ h[k - 1] = g[k - 1]
          BY <5>1
        <5>3. g[k] = Lifted(g[k - 1], pairs[k])
          BY <3>2, <5>1
        <5> QED BY <5>1, <5>2, <5>3
      <4>3. CASE k = n
        <5>1. n \notin 0 .. n - 1 /\ n - 1 \in 0 .. n - 1 /\ n - 1 \in 0 .. n /\ n \in 0 .. n
          BY <3>1
        <5>2. h[n] = Lifted(g[n - 1], pairs[n]) /\ h[n - 1] = g[n - 1]
          BY <5>1
        <5> QED BY <2>3, <4>3, <5>2
      <4> QED BY <3>1, <4>1, <4>2, <4>3
    <3>4. P(n, h)
      BY <3>3
    <3> QED BY <2>1, <3>4
  <2> QED BY <2>2, <2>3
<1>2. PICK g : P(Len(pairs), g)
  BY <1>1
<1>3. LiftedUpTo(order, pairs) = CHOOSE r : P(Len(pairs), r)
  BY DEF LiftedUpTo
<1> HIDE DEF P
<1>4. P(Len(pairs), CHOOSE r : P(Len(pairs), r))
  BY <1>2, Zenon
<1>5. P(Len(pairs), LiftedUpTo(order, pairs))
  BY <1>3, <1>4
<1> QED BY <1>5 DEF P

(* However many pairs are replayed, the table keeps its rules.              *)
LEMMA ReplayedListing ==
  ASSUME NEW S, NEW order, Listing(order, S), NEW pairs, Len(pairs) \in Nat
  PROVE  Listing(Replayed(order, pairs), S)
<1> DEFINE r == LiftedUpTo(order, pairs)
           Bad == { k \in 0 .. Len(pairs) : ~Listing(r[k], S) }
<1>1. \A k \in 0 .. Len(pairs) :
        r[k] = IF k = 0 THEN order ELSE Lifted(r[k - 1], pairs[k])
  BY LiftedUpToUnfolds
<1> HIDE DEF r
<1>2. Bad = {}
  <2> SUFFICES ASSUME Bad # {} PROVE FALSE
    OBVIOUS
  <2>1. PICK n \in Bad : \A k \in Bad : n <= k
    <3>1. Bad \subseteq Nat
      OBVIOUS
    <3> HIDE DEF Bad
    <3> QED BY <3>1, LeastNatural
  <2>2. CASE n = 0
    BY <1>1, <2>1, <2>2
  <2>3. CASE n # 0
    <3>1. n \in 0 .. Len(pairs) /\ n - 1 \in 0 .. Len(pairs) /\ n - 1 < n
      BY <2>1, <2>3
    <3>2. Listing(r[n - 1], S)
      BY <2>1, <3>1
    <3>3. Listing(Lifted(r[n - 1], pairs[n]), S)
      BY <3>2, LiftedListing
    <3> QED BY <1>1, <2>1, <2>3, <3>1, <3>3
  <2> QED BY <2>2, <2>3
<1>3. Listing(r[Len(pairs)], S)
  BY <1>2
<1> QED BY <1>3 DEF Replayed, r

(* The filter's recursive definition unfolds for the same reason.           *)
LEMMA KeptUpToUnfolds ==
  ASSUME NEW order, NEW ex, Len(order) \in Nat
  PROVE  LET r == KeptUpTo(order, ex) IN
         r = [ k \in 0 .. Len(order) |->
                 IF k = 0 THEN << >>
                 ELSE IF order[k] \in ex THEN r[k - 1] ELSE Append(r[k - 1], order[k]) ]
<1> DEFINE F(k, prev) == IF order[k] \in ex THEN prev ELSE Append(prev, order[k])
           P(n, g) == g = [ k \in 0 .. n |-> IF k = 0 THEN << >> ELSE F(k, g[k - 1]) ]
           Bad == { n \in Nat : ~\E g : P(n, g) }
<1>1. KeptUpTo(order, ex) = CHOOSE r : P(Len(order), r)
  BY DEF KeptUpTo
<1>2. Bad = {}
  <2> HIDE DEF F
  <2> SUFFICES ASSUME Bad # {} PROVE FALSE
    OBVIOUS
  <2> HIDE DEF P
  <2>1. PICK n \in Bad : \A k \in Bad : n <= k
    <3>1. Bad \subseteq Nat
      OBVIOUS
    <3> HIDE DEF Bad
    <3> QED BY <3>1, LeastNatural
  <2>2. CASE n = 0
    <3>1. P(0, [ k \in 0 .. 0 |-> << >> ])
      BY DEF P
    <3> QED BY <2>1, <2>2, <3>1
  <2>3. CASE n # 0
    <3>1. n \in Nat /\ n - 1 \in Nat /\ n - 1 < n
      BY <2>1, <2>3
    <3>2. PICK g : P(n - 1, g)
      BY <2>1, <3>1
    <3> USE DEF P
    <3> DEFINE h == [ k \in 0 .. n |-> IF k \in 0 .. n - 1 THEN g[k] ELSE F(n, g[n - 1]) ]
    <3>3. \A k \in 0 .. n : h[k] = IF k = 0 THEN << >> ELSE F(k, h[k - 1])
      <4> SUFFICES ASSUME NEW k \in 0 .. n
                   PROVE  h[k] = IF k = 0 THEN << >> ELSE F(k, h[k - 1])
        OBVIOUS
      <4>1. CASE k = 0
        BY <3>1, <3>2, <4>1
      <4>2. CASE k \in 1 .. n - 1
        <5>1. k \in 0 .. n - 1 /\ k - 1 \in 0 .. n - 1 /\ k - 1 \in 0 .. n /\ k # 0
          BY <3>1, <4>2
        <5>2. h[k] = g[k] /\ h[k - 1] = g[k - 1]
          BY <5>1
        <5>3. g[k] = F(k, g[k - 1])
          BY <3>2, <5>1
        <5> QED BY <5>1, <5>2, <5>3
      <4>3. CASE k = n
        <5>1. n \notin 0 .. n - 1 /\ n - 1 \in 0 .. n - 1 /\ n - 1 \in 0 .. n /\ n \in 0 .. n
          BY <3>1
        <5>2. h[n] = F(n, g[n - 1]) /\ h[n - 1] = g[n - 1]
          BY <5>1
        <5> QED BY <2>3, <4>3, <5>2
      <4> QED BY <3>1, <4>1, <4>2, <4>3
    <3>4. P(n, h)
      BY <3>3
    <3> HIDE DEF P, h
    <3> QED BY <2>1, <3>4
  <2> QED BY <2>2, <2>3
<1>3. PICK g : P(Len(order), g)
  BY <1>2
<1>4. P(Len(order), CHOOSE r : P(Len(order), r))
  <2> HIDE DEF P
  <2> QED BY <1>3, Zenon
<1>5. P(Len(order), KeptUpTo(order, ex))
  <2> HIDE DEF P
  <2> QED BY <1>1, <1>4
<1> QED BY <1>5

(* The filter drops the deselected rules and nothing else.                  *)
LEMMA KeptListing ==
  ASSUME NEW order \in Seq(Names), Distinct(order), NEW ex
  PROVE  Listing(KeptUpTo(order, ex)[Len(order)], ToSet(order) \ ex)
<1> DEFINE r == KeptUpTo(order, ex)
           Upto(k) == { order[i] : i \in 1 .. k }
           Ok(k) == Listing(r[k], Upto(k) \ ex)
           Bad == { k \in 0 .. Len(order) : ~Ok(k) }
<1>1. DOMAIN order = 1 .. Len(order) /\ Len(order) \in Nat
  OBVIOUS
<1>2. \A k \in 0 .. Len(order) :
        r[k] = IF k = 0 THEN << >>
               ELSE IF order[k] \in ex THEN r[k - 1] ELSE Append(r[k - 1], order[k])
  <2>1. r = [ k \in 0 .. Len(order) |->
                IF k = 0 THEN << >>
                ELSE IF order[k] \in ex THEN r[k - 1] ELSE Append(r[k - 1], order[k]) ]
    <3> HIDE DEF r
    <3> QED BY <1>1, KeptUpToUnfolds, Zenon DEF r
  <2> HIDE DEF r
  <2> QED BY <2>1, Zenon
<1> HIDE DEF r, Upto, Ok
<1>3. Bad = {}
  <2> SUFFICES ASSUME Bad # {} PROVE FALSE
    OBVIOUS
  <2>1. PICK n \in Bad : \A k \in Bad : n <= k
    <3>1. Bad \subseteq Nat
      BY <1>1
    <3> HIDE DEF Bad
    <3> QED BY <3>1, LeastNatural
  <2>2. CASE n = 0
    <3>1. r[0] = << >>
      BY <1>1, <1>2
    <3>2. Upto(0) = {}
      BY DEF Upto
    <3>3. Listing(<< >>, {})
      BY DEF Listing, Distinct, ToSet
    <3> QED BY <2>1, <2>2, <3>1, <3>2, <3>3 DEF Ok
  <2>3. CASE n # 0
    <3>1. /\ n \in 1 .. Len(order) /\ n - 1 \in 0 .. Len(order) /\ n - 1 < n
          /\ n \in 0 .. Len(order)
      BY <1>1, <2>1, <2>3
    <3>2. Listing(r[n - 1], Upto(n - 1) \ ex)
      <4>1. Ok(n - 1)
        BY <2>1, <3>1
      <4> HIDE DEF Bad
      <4> QED BY <4>1 DEF Ok
    <3>3. Upto(n) = Upto(n - 1) \cup { order[n] }
      BY <3>1 DEF Upto
    <3>4. CASE order[n] \in ex
      <4>1. r[n] = r[n - 1]
        BY <1>2, <2>3, <3>1, <3>4
      <4>2. Upto(n) \ ex = Upto(n - 1) \ ex
        BY <3>3, <3>4
      <4> QED BY <2>1, <3>2, <4>1, <4>2 DEF Ok
    <3>5. CASE order[n] \notin ex
      <4> DEFINE p == r[n - 1]
                 x == order[n]
      <4>1. r[n] = Append(p, x)
        BY <1>2, <2>3, <3>1, <3>5
      <4>2. Upto(n) \ ex = (Upto(n - 1) \ ex) \cup { x }
        BY <3>3, <3>5
      <4>3. x \in Names /\ x \notin Upto(n - 1)
        BY <1>1, <3>1 DEF Distinct, Upto
      <4>4. p \in Seq(Names) /\ Distinct(p) /\ ToSet(p) = Upto(n - 1) \ ex
        BY <3>2 DEF Listing
      <4> HIDE DEF p, x
      <4>5. /\ Append(p, x) \in Seq(Names)
            /\ DOMAIN Append(p, x) = 1 .. Len(p) + 1
            /\ DOMAIN p = 1 .. Len(p) /\ Len(p) \in Nat
            /\ \A i \in 1 .. Len(p) : Append(p, x)[i] = p[i]
            /\ Append(p, x)[Len(p) + 1] = x
        BY <4>3, <4>4
      <4>6. \A i \in 1 .. Len(p) : p[i] # x
        BY <4>3, <4>4, <4>5 DEF ToSet
      <4>7. Distinct(Append(p, x))
        BY <4>4, <4>5, <4>6 DEF Distinct
      <4>8. ToSet(Append(p, x)) = ToSet(p) \cup { x }
        BY <4>5 DEF ToSet
      <4>9. Listing(r[n], Upto(n) \ ex)
        BY <4>1, <4>2, <4>4, <4>5, <4>7, <4>8 DEF Listing
      <4> QED BY <2>1, <4>9 DEF Ok
    <3> QED BY <3>4, <3>5
  <2> QED BY <2>2, <2>3
<1>4. Listing(r[Len(order)], Upto(Len(order)) \ ex)
  <2>1. Ok(Len(order))
    BY <1>1, <1>3
  <2> HIDE DEF Bad
  <2> QED BY <2>1 DEF Ok
<1>5. Upto(Len(order)) = ToSet(order)
  BY <1>1 DEF ToSet, Upto
<1> QED BY <1>4, <1>5 DEF r

(* Deselecting rules (filter_policies) leaves a listing of the others.      *)
LEMMA FilteredListing ==
  ASSUME NEW t \in RuleTables, Distinct(t.order), NEW ex
  PROVE  /\ Filtered(t, ex).off \in SUBSET Names
         /\ Listing(Filtered(t, ex).order, ToSet(t.order) \ ex)
<1>1. t.order \in Seq(Names) /\ t.off \in SUBSET Names
  BY DEF RuleTables
<1> QED BY <1>1, KeptListing DEF Filtered

(* What the transforms make of a parsed table: its kept rules, each once.   *)
LEMMA TunedTable ==
  ASSUME NEW t \in RuleTables, Distinct(t.order), NEW fixes, Len(fixes.reorder) \in Nat
  PROVE  LET u == Tuned(t, fixes) IN
         u \in RuleTables /\ Listing(u.order, ToSet(t.order) \ fixes.exclude)
<1> DEFINE F == Filtered(t, fixes.exclude)
           S == ToSet(t.order) \ fixes.exclude
           order == Replayed(F.order, fixes.reorder)
           off == F.off \cup (fixes.disable \cap ToSet(F.order))
<1>1. F.off \in SUBSET Names /\ Listing(F.order, S)
  BY FilteredListing
<1>3. Tuned(t, fixes) = [order |-> order, off |-> off]
  BY DEF Tuned, Disabled, Reordered
<1> HIDE DEF F, S
<1>4. Listing(order, S)
  BY <1>1, ReplayedListing
<1>5. off \in SUBSET Names
  BY <1>1 DEF Listing, ToSet
<1>6. order \in Seq(Names)
  BY <1>4 DEF Listing
<1> HIDE DEF order, off
<1>7. Tuned(t, fixes) \in RuleTables
  BY <1>3, <1>5, <1>6 DEF RuleTables
<1> QED BY <1>3, <1>4, <1>7 DEF S
-----------------------------------------------------------------------------
(* The pages and the form hold finite lists, so a replay comes to an end.   *)

IsList(s) == \E n \in Nat : s = [i \in 1 .. n |-> s[i]]

OffersLists(tab) == IsList(tab.bypassed) /\ IsList(tab.unreachable)

(* The length, domain and type of a list.                                   *)
LEMMA ListLength ==
  ASSUME NEW s, IsList(s)
  PROVE  /\ Len(s) \in Nat /\ DOMAIN s = 1 .. Len(s)
         /\ s \in Seq(ToSet(s))
<1>1. PICK n \in Nat : s = [i \in 1 .. n |-> s[i]]
  BY DEF IsList
<1>2. DOMAIN s = 1 .. n
  BY <1>1
<1>3. \A i \in 1 .. n : s[i] \in ToSet(s)
  BY <1>2 DEF ToSet
<1>4. s \in Seq(ToSet(s))
  BY <1>1, <1>3
<1> QED BY <1>4

(* Appending a list to a list gives a list.                                 *)
LEMMA ConcatList ==
  ASSUME NEW a, IsList(a), NEW b, IsList(b)
  PROVE  IsList(a \o b)
<1> DEFINE X == ToSet(a) \cup ToSet(b)
<1>1. a \in Seq(X) /\ b \in Seq(X)
  BY ListLength
<1> HIDE DEF X
<1>2. a \o b \in Seq(X)
  BY <1>1
<1>3. ASSUME NEW s \in Seq(X) PROVE IsList(s)
  <2>1. Len(s) \in Nat /\ s = [i \in 1 .. Len(s) |-> s[i]]
    OBVIOUS
  <2> QED BY <2>1 DEF IsList
<1> QED BY <1>2, <1>3

(* apply_fix keeps the saved pairs and appends new ones: still a list.      *)
LEMMA MergedList ==
  ASSUME NEW have, IsList(have), NEW new, IsList(new)
  PROVE  IsList(Merged(have, new))
<1> DEFINE fresh == { i \in DOMAIN new : /\ new[i] \notin ToSet(have)
                                        /\ \A j \in 1 .. i - 1 : new[j] # new[i] }
           at == Ranked(fresh, <)
           more == [ k \in DOMAIN at |-> new[at[k]] ]
<1>1. IsFiniteSet(DOMAIN new)
  BY ListLength, FS_Interval
<1>2. IsFiniteSet(fresh)
  BY <1>1, FS_Subset
<1>3. Cardinality(fresh) \in Nat
  BY <1>2, FS_CardinalityType
<1>4. DOMAIN at = 1 .. Cardinality(fresh)
  BY DEF Ranked
<1>5. Merged(have, new) = have \o more
  BY DEF Merged
<1> HIDE DEF fresh, at
<1>6. more = [ k \in 1 .. Cardinality(fresh) |-> more[k] ]
  BY <1>4
<1> HIDE DEF more
<1>7. IsList(more)
  BY <1>3, <1>6 DEF IsList
<1> QED BY <1>5, <1>7, ConcatList

(* A report has finitely many findings.                                     *)
LEMMA FindingsFinite ==
  ASSUME NEW src, NEW tables, NEW act,
         \A v \in 1 .. Systems : tables[v].order \in Seq(Names)
  PROVE  IsFiniteSet(Findings(src, tables, act))
<1> DEFINE At(v) == HiddenAt(src[v].rules, tables[v], act)
           all == Findings(src, tables, act)
<1>1. ASSUME NEW v \in 1 .. Systems PROVE IsFiniteSet({v} \X At(v))
  <2>1. DOMAIN tables[v].order = 1 .. Len(tables[v].order) /\ Len(tables[v].order) \in Nat
    OBVIOUS
  <2>2. IsFiniteSet(DOMAIN tables[v].order)
    BY <2>1, FS_Interval
  <2>3. At(v) \subseteq DOMAIN tables[v].order
    BY DEF HiddenAt, DeadAt
  <2>4. IsFiniteSet(At(v))
    BY <2>2, <2>3, FS_Subset
  <2>5. IsFiniteSet({v})
    BY FS_Singleton
  <2> QED BY <2>4, <2>5, FS_Product
<1> DEFINE parts == { {v} \X At(v) : v \in 1 .. Systems }
<1>2. IsFiniteSet(parts)
  <2>1. IsFiniteSet(1 .. Systems)
    BY FixesAssumption, FS_Interval
  <2> DEFINE f == [ v \in 1 .. Systems |-> {v} \X At(v) ]
  <2>2. f \in Surjection(1 .. Systems, parts)
    BY DEF Surjection
  <2> HIDE DEF f, parts
  <2> QED BY <2>1, <2>2, FS_Surjection
<1>3. IsFiniteSet(UNION parts)
  <2>1. \A p \in parts : IsFiniteSet(p)
    BY <1>1
  <2> HIDE DEF parts
  <2> QED BY <1>2, <2>1, FS_UNION
<1>4. all = UNION parts
  BY DEF Findings
<1> QED BY <1>3, <1>4

(* The pairs a result page offers are a list.                               *)
LEMMA LiftsList ==
  ASSUME NEW src, NEW tables, NEW act,
         \A v \in 1 .. Systems : tables[v].order \in Seq(Names)
  PROVE  IsList(Lifts(src, tables, act))
<1> DEFINE all == Findings(src, tables, act)
           at == Ranked(all, Reported)
           list == Lifts(src, tables, act)
<1>1. Cardinality(all) \in Nat
  BY FindingsFinite, FS_CardinalityType
<1>2. DOMAIN at = 1 .. Cardinality(all)
  BY DEF Ranked
<1>3. DOMAIN list = DOMAIN at /\ list = [ k \in DOMAIN list |-> list[k] ]
  BY DEF Lifts
<1> HIDE DEF all, at, list
<1>4. list = [ k \in 1 .. Cardinality(all) |-> list[k] ]
  BY <1>2, <1>3
<1>5. IsList(list)
  BY <1>1, <1>4 DEF IsList
<1> QED BY <1>5 DEF list
-----------------------------------------------------------------------------
(* The inductive invariant: the output and the page are what the form makes *)
(* of the source, and every list a button posts is finite.                  *)

Replays ==
  /\ source \in Sources
  /\ form = [exclude |-> form.exclude, disable |-> form.disable, reorder |-> form.reorder]
  /\ form.exclude \in Exclusions \cup {{}}
  /\ out = Converted(source, form)
  /\ page = Page(source, out)

LoopInv ==
  /\ Replays
  /\ IsList(form.reorder)
  /\ OffersLists(page) /\ OffersLists(old)

(* No pair at all is a list.                                                *)
LEMMA EmptyList == IsList(<< >>)
<1>1. << >> = [i \in 1 .. 0 |-> << >>[i]]
  OBVIOUS
<1> QED BY <1>1 DEF IsList

(* One click, one pair: a list.                                             *)
LEMMA OneList == ASSUME NEW x PROVE IsList(<< x >>)
<1>1. << x >> = [i \in 1 .. 1 |-> << x >>[i]]
  OBVIOUS
<1> QED BY <1>1 DEF IsList

(* The converted tables are well formed, whatever was replayed.             *)
LEMMA ConvertedTables ==
  ASSUME NEW src \in Sources, NEW fixes, IsList(fixes.reorder), NEW v \in 1 .. Systems
  PROVE  LET u == Converted(src, fixes)[v] IN
         /\ u \in RuleTables /\ Distinct(u.order)
         /\ ToSet(u.order) = ToSet(src[v].table.order) \ fixes.exclude
<1>1. src[v].table \in RuleTables /\ Distinct(src[v].table.order)
  BY FixesAssumption
<1>2. Len(fixes.reorder) \in Nat
  BY ListLength
<1>3. Converted(src, fixes)[v] = Tuned(src[v].table, fixes)
  BY DEF Converted
<1> QED BY <1>1, <1>2, <1>3, TunedTable DEF Listing

(* What the page of a conversion offers to replay are lists.                *)
LEMMA PageLists ==
  ASSUME NEW src \in Sources, NEW fixes, IsList(fixes.reorder)
  PROVE  OffersLists(Page(src, Converted(src, fixes)))
<1>1. \A v \in 1 .. Systems : Converted(src, fixes)[v].order \in Seq(Names)
  BY ConvertedTables DEF RuleTables
<1> DEFINE tables == Converted(src, fixes)
<1> HIDE DEF tables
<1>2. IsList(Lifts(src, tables, "deny")) /\ IsList(Lifts(src, tables, "accept"))
  BY <1>1, LiftsList DEF tables
<1>3. OffersLists(Page(src, tables))
  BY <1>2 DEF Page, OffersLists
<1> QED BY <1>3 DEF tables

(* A conversion with well-formed fixes establishes the loop invariant.      *)
LEMMA ConvertPreserves ==
  ASSUME NEW fixes, IsList(fixes.reorder), fixes.exclude \in Exclusions \cup {{}},
         fixes = [exclude |-> fixes.exclude, disable |-> fixes.disable,
                  reorder |-> fixes.reorder],
         source \in Sources, Convert(fixes)
  PROVE  Replays' /\ IsList(form'.reorder) /\ OffersLists(page)'
<1>1. /\ form' = fixes /\ source' = source /\ out' = Converted(source, fixes)
      /\ page' = Page(source, out')
  BY DEF Convert
<1>2. OffersLists(page')
  BY <1>1, PageLists
<1> QED BY <1>1, <1>2 DEF Replays, OffersLists

(* The first conversion, without fixes, establishes the loop invariant.     *)
LEMMA LoopInvInit == Init => LoopInv
<1> SUFFICES ASSUME Init PROVE LoopInv
  OBVIOUS
<1>1. /\ IsList(form.reorder) /\ form.exclude = {}
      /\ form = [exclude |-> form.exclude, disable |-> form.disable,
                 reorder |-> form.reorder]
  BY EmptyList DEF Init, NoFixes
<1>2. OffersLists(page)
  BY <1>1, PageLists DEF Init
<1>3. OffersLists(old)
  BY EmptyList DEF Init, EmptyPage, OffersLists
<1> QED BY <1>1, <1>2, <1>3 DEF Init, LoopInv, Replays

(* Every click, wizard run and kept tab preserves the loop invariant.       *)
LEMMA LoopInvStep == LoopInv /\ [Next]_vars => LoopInv'
<1> SUFFICES ASSUME LoopInv, [Next]_vars PROVE LoopInv'
  OBVIOUS
<1> USE DEF LoopInv
<1>1. CASE UNCHANGED vars
  BY <1>1 DEF vars, Replays, OffersLists
<1>2. ASSUME NEW ex \in Exclusions, Wizard(ex) PROVE LoopInv'
  <2> DEFINE fixes == NoFixes(ex)
  <2>1. /\ IsList(fixes.reorder) /\ fixes.exclude \in Exclusions \cup {{}}
        /\ fixes = [exclude |-> fixes.exclude, disable |-> fixes.disable,
                    reorder |-> fixes.reorder]
    BY EmptyList DEF NoFixes
  <2> QED BY <1>2, <2>1, ConvertPreserves DEF Wizard, Replays, OffersLists
<1>3. CASE KeepTab
  BY <1>3 DEF KeepTab, Replays, OffersLists
<1>4. ASSUME NEW tab \in { page, old }, Click(tab) PROVE LoopInv'
  <2>1. OffersLists(tab) /\ source \in Sources
    BY DEF Replays
  <2>2. ASSUME NEW names, FixDisable(names), UNCHANGED old PROVE LoopInv'
    <3> DEFINE fixes == [form EXCEPT !.disable = @ \cup names]
    <3>1. /\ IsList(fixes.reorder) /\ fixes.exclude \in Exclusions \cup {{}}
          /\ fixes = [exclude |-> fixes.exclude, disable |-> fixes.disable,
                      reorder |-> fixes.reorder]
      BY DEF Replays, FixDisable, Convert
    <3> QED BY <2>1, <2>2, <3>1, ConvertPreserves DEF FixDisable, OffersLists
  <2>3. ASSUME NEW pairs, IsList(pairs), FixOrder(pairs), UNCHANGED old PROVE LoopInv'
    <3> DEFINE fixes == [form EXCEPT !.reorder = Merged(@, pairs)]
    <3>1. /\ IsList(fixes.reorder) /\ fixes.exclude \in Exclusions \cup {{}}
          /\ fixes = [exclude |-> fixes.exclude, disable |-> fixes.disable,
                      reorder |-> fixes.reorder]
      BY <2>3, MergedList DEF Replays
    <3> QED BY <2>1, <2>3, <3>1, ConvertPreserves DEF FixOrder, OffersLists
  <2>4. CASE DisableDead(tab)
    BY <2>2, <2>4 DEF DisableDead
  <2>5. ASSUME NEW x, LiftDeny(tab, x) \/ LiftAccept(tab, x) PROVE LoopInv'
    BY <2>3, <2>5, OneList DEF LiftDeny, LiftAccept
  <2>6. CASE FixAll(tab)
    BY <2>1, <2>3, <2>6, ConcatList DEF FixAll, OffersLists
  <2> QED BY <1>4, <2>4, <2>5, <2>6 DEF Click
<1> QED BY <1>1, <1>2, <1>3, <1>4 DEF Next

(* The loop invariant holds in every reachable state.                       *)
LEMMA LoopInvInductive == Spec => []LoopInv
<1>1. LoopInv /\ [Next]_vars => LoopInv'
  BY LoopInvStep
<1> QED BY <1>1, LoopInvInit, PTL DEF Spec

(* The loop invariant contains the types.                                   *)
LEMMA LoopInvTypes == LoopInv => TypeOK
BY ConvertedTables DEF LoopInv, Replays, TypeOK

(* Whatever fixes are merged, replayed and replayed again, in whatever      *)
(* order and from whatever tab, every converted table lists the rules that  *)
(* were not deselected, each exactly once.                                  *)
THEOREM TypeCorrect == Spec => []TypeOK
BY LoopInvInductive, LoopInvTypes, PTL
-----------------------------------------------------------------------------
(* A converted table holds only rules of its source.                        *)
LEMMA ConvertedExact ==
  ASSUME ExactSources, TypeOK, NEW v \in 1 .. Systems
  PROVE  out[v] \in RuleTables /\ ExactTable(source[v].rules, out[v])
<1>1. /\ source \in Sources /\ out[v] \in RuleTables
      /\ ToSet(out[v].order) \subseteq ToSet(source[v].table.order)
  BY DEF TypeOK
<1>2. ExactTable(source[v].rules, source[v].table)
  BY <1>1 DEF ExactSources
<1>3. \A n \in ToSet(source[v].table.order) : ExactRule(source[v].rules[n])
  BY <1>2 DEF ExactTable, ToSet
<1>4. \A i \in DOMAIN out[v].order : out[v].order[i] \in ToSet(source[v].table.order)
  BY <1>1 DEF ToSet
<1> QED BY <1>1, <1>3, <1>4 DEF ExactTable

(* "A rule whose conditions are a subset of an earlier rule's conditions    *)
(* will NEVER fire": when every rule of the source is exact, no traffic is  *)
(* decided by a rule the report calls dead, in any table of any conversion. *)
THEOREM DeadRulesNeverFire == ExactSources => (Spec => []DeadNeverFires)
<1> SUFFICES ASSUME ExactSources PROVE Spec => []DeadNeverFires
  OBVIOUS
<1>1. TypeOK => DeadNeverFires
  <2> SUFFICES ASSUME TypeOK, NEW v \in 1 .. Systems,
                      NEW j \in DeadAt(source[v].rules, out[v]), NEW f \in Flows
               PROVE  ~Fires(source[v].rules, out[v], f, j)
    BY DEF DeadNeverFires
  <2>1. out[v] \in RuleTables /\ ExactTable(source[v].rules, out[v])
    BY ConvertedExact
  <2>2. f.port \in Nat
    BY TableAssumption
  <2> QED BY <2>1, <2>2, DeadRuleNeverFires
<1> QED BY <1>1, TypeCorrect, PTL
-----------------------------------------------------------------------------
(* An enabled rule above the one at i matches all the traffic it matches.   *)
CoveredAbove(rules, t, i) ==
  \E k \in 1 .. i - 1 :
    /\ Enabled(t, k)
    /\ \A f \in Flows : RuleMatches(rules[t.order[i]], f) => RuleMatches(rules[t.order[k]], f)

(* Enabling rules that are covered changes no verdict: the first rule that  *)
(* matches is never one of them.                                            *)
LEMMA CoveredDecideNothing ==
  ASSUME NEW rules, NEW t, t.order \in Seq(Names), NEW u, u.order = t.order,
         \A i \in DOMAIN t.order : Enabled(t, i) => Enabled(u, i),
         \A i \in DOMAIN t.order :
           Enabled(u, i) /\ ~Enabled(t, i) => CoveredAbove(rules, t, i)
  PROVE  Accepted(rules, u) = Accepted(rules, t)
<1>1. DOMAIN t.order = 1 .. Len(t.order) /\ Len(t.order) \in Nat
  OBVIOUS
<1>2. ASSUME NEW f \in Flows, NEW i \in DOMAIN t.order, Fires(rules, u, f, i)
      PROVE  Fires(rules, t, f, i)
  <2>1. \A k \in 1 .. i - 1 : k \in DOMAIN t.order
    BY <1>1
  <2>2. Enabled(t, i)
    <3> SUFFICES ASSUME ~Enabled(t, i) PROVE FALSE
      OBVIOUS
    <3>1. Enabled(u, i) /\ RuleMatches(rules[t.order[i]], f)
      BY <1>2 DEF Fires
    <3>2. PICK k \in 1 .. i - 1 : Enabled(t, k) /\ RuleMatches(rules[t.order[k]], f)
      BY <3>1 DEF CoveredAbove
    <3> QED BY <1>2, <2>1, <3>2 DEF Fires
  <2> QED BY <1>2, <2>1, <2>2 DEF Fires
<1>3. ASSUME NEW f \in Flows, NEW i \in DOMAIN t.order, Fires(rules, t, f, i)
      PROVE  Fires(rules, u, f, i)
  <2> DEFINE T == { k \in DOMAIN t.order : Enabled(u, k) /\ RuleMatches(rules[t.order[k]], f) }
  <2>1. i \in T
    BY <1>3 DEF Fires
  <2>2. T \subseteq Nat /\ T # {}
    BY <1>1, <2>1
  <2>3. PICK m \in T : \A n \in T : m <= n
    <3> HIDE DEF T
    <3> QED BY <2>2, LeastNatural
  <2>4. Fires(rules, u, f, m)
    <3>1. \A k \in 1 .. m - 1 : k \in DOMAIN t.order /\ ~(m <= k)
      BY <1>1, <2>3
    <3>2. \A k \in 1 .. m - 1 : k \notin T
      <4> HIDE DEF T
      <4> QED BY <2>3, <3>1
    <3> QED BY <2>3, <3>1, <3>2 DEF Fires
  <2>5. Fires(rules, t, f, m)
    BY <1>2, <2>3, <2>4
  <2>6. m = i
    <3>1. m \in Nat /\ i \in Nat /\ m <= i /\ 1 <= m
      BY <1>1, <2>1, <2>3
    <3>2. ~(m \in 1 .. i - 1)
      BY <1>3, <2>5 DEF Fires
    <3> QED BY <3>1, <3>2
  <2> QED BY <2>4, <2>6
<1> QED BY <1>2, <1>3 DEF Accepted

(* On exact rules a dead rule is covered, and among the rules that cover a  *)
(* rule the first is not dead itself: when dead rules are disabled, it      *)
(* still covers.                                                            *)
LEMMA DisablingDeadKeepsCovers ==
  ASSUME NEW rules, NEW t \in RuleTables, ExactTable(rules, t),
         NEW u, u.order = t.order,
         \A i \in DOMAIN t.order :
           Enabled(t, i) /\ ~Enabled(u, i) => i \in DeadAt(rules, t),
         NEW i \in DOMAIN t.order, CoveredAbove(rules, t, i) \/ i \in DeadAt(rules, t)
  PROVE  CoveredAbove(rules, u, i)
<1> DEFINE Hides(k, j) == \A f \in Flows : RuleMatches(rules[t.order[j]], f)
                                              => RuleMatches(rules[t.order[k]], f)
           T == { k \in 1 .. i - 1 : Enabled(t, k) /\ Hides(k, i) }
<1>1. DOMAIN t.order = 1 .. Len(t.order) /\ Len(t.order) \in Nat
  BY DEF RuleTables
<1>2. ASSUME NEW j \in DeadAt(rules, t)
      PROVE  \E k \in 1 .. j - 1 : Enabled(t, k) /\ Hides(k, j)
  <2>1. j \in DOMAIN t.order
    BY DEF DeadAt
  <2>2. PICK k \in 1 .. j - 1 : /\ Enabled(t, k)
                                /\ Covers(Deep(t), rules[t.order[k]], rules[t.order[j]])
    BY DEF DeadAt, Shadowers
  <2>3. ExactRule(rules[t.order[k]]) /\ ExactRule(rules[t.order[j]])
    BY <1>1, <2>1, <2>2 DEF ExactTable
  <2>4. Hides(k, j)
    BY <2>2, <2>3, CoversMatches, TableAssumption
  <2> QED BY <2>2, <2>4
<1>3. T # {} /\ T \subseteq Nat
  BY <1>1, <1>2 DEF CoveredAbove
<1>4. PICK m \in T : \A k \in T : m <= k
  <2> HIDE DEF T
  <2> QED BY <1>3, LeastNatural
<1>5. m \in 1 .. i - 1 /\ Enabled(t, m) /\ Hides(m, i) /\ m \in DOMAIN t.order
  BY <1>1, <1>4
<1>6. m \notin DeadAt(rules, t)
  <2> SUFFICES ASSUME m \in DeadAt(rules, t) PROVE FALSE
    OBVIOUS
  <2>1. PICK k \in 1 .. m - 1 : Enabled(t, k) /\ Hides(k, m)
    BY <1>2
  <2>2. Hides(k, i)
    BY <1>5, <2>1
  <2>3. k \in 1 .. i - 1 /\ ~(m <= k)
    BY <1>1, <1>5
  <2>4. k \in T
    BY <2>1, <2>2, <2>3
  <2> HIDE DEF T
  <2> QED BY <1>4, <2>3, <2>4
<1>7. Enabled(u, m)
  BY <1>5, <1>6
<1> QED BY <1>5, <1>7 DEF CoveredAbove

(* Disabling dead rules changes no verdict: they are still covered by rules *)
(* that are enabled.                                                        *)
LEMMA DisablingKeepsVerdicts ==
  ASSUME NEW rules, NEW t \in RuleTables, ExactTable(rules, t),
         NEW u, u.order = t.order,
         \A i \in DOMAIN t.order : Enabled(u, i) => Enabled(t, i),
         \A i \in DOMAIN t.order :
           Enabled(t, i) /\ ~Enabled(u, i) => i \in DeadAt(rules, t)
  PROVE  Accepted(rules, u) = Accepted(rules, t)
<1>1. u.order \in Seq(Names)
  BY DEF RuleTables
<1>2. \A i \in DOMAIN u.order :
        Enabled(t, i) /\ ~Enabled(u, i) => CoveredAbove(rules, u, i)
  BY DisablingDeadKeepsCovers
<1> QED BY <1>1, <1>2, CoveredDecideNothing

(* Disabling more names changes only which rules are enabled.               *)
LEMMA DisablingOutput ==
  ASSUME LoopInv, NEW names, FixDisable(names), NEW v \in 1 .. Systems
  PROVE  /\ out'[v].order = out[v].order
         /\ \A i \in DOMAIN out[v].order :
              /\ Enabled(out'[v], i) => Enabled(out[v], i)
              /\ Enabled(out[v], i) /\ ~Enabled(out'[v], i) => out[v].order[i] \in names
<1> DEFINE fixes == [form EXCEPT !.disable = @ \cup names]
           F == Filtered(source[v].table, form.exclude)
<1>1. /\ fixes.exclude = form.exclude /\ fixes.reorder = form.reorder
      /\ fixes.disable = form.disable \cup names
  BY DEF LoopInv, Replays
<1>2. out'[v] = Tuned(source[v].table, fixes)
  BY DEF FixDisable, Convert, Converted
<1>3. out[v] = Tuned(source[v].table, form)
  BY DEF LoopInv, Replays, Converted
<1> HIDE DEF fixes
<1>4. /\ out'[v].order = Replayed(F.order, form.reorder)
      /\ out'[v].off = F.off \cup ((form.disable \cup names) \cap ToSet(F.order))
  BY <1>1, <1>2 DEF Tuned, Disabled, Reordered
<1>5. /\ out[v].order = Replayed(F.order, form.reorder)
      /\ out[v].off = F.off \cup (form.disable \cap ToSet(F.order))
  BY <1>3 DEF Tuned, Disabled, Reordered
<1> QED BY <1>4, <1>5 DEF Enabled

(* The names of the Disable button are those of dead rules of their table.  *)
LEMMA ShadowedAreDead ==
  ASSUME LoopInv, NamesApart, NEW v \in 1 .. Systems,
         NEW i \in DOMAIN out[v].order, out[v].order[i] \in page.shadowed
  PROVE  i \in DeadAt(source[v].rules, out[v])
<1>1. TypeOK /\ source \in Sources
  BY LoopInvTypes DEF LoopInv, Replays
<1>2. PICK w \in 1 .. Systems :
        out[v].order[i] \in ShadowedRules(source[w].rules, out[w])
  BY DEF LoopInv, Replays, Page
<1>3. PICK j \in DeadAt(source[w].rules, out[w]) : out[v].order[i] = out[w].order[j]
  BY <1>2 DEF ShadowedRules
<1>4. j \in DOMAIN out[w].order
  BY DEF DeadAt
<1>5. /\ out[v].order[i] \in ToSet(source[v].table.order)
      /\ out[v].order[i] \in ToSet(source[w].table.order)
  <2>1. /\ out[v].order[i] \in ToSet(out[v].order)
        /\ out[v].order[i] \in ToSet(out[w].order)
    BY <1>3, <1>4 DEF ToSet
  <2> QED BY <1>1, <2>1 DEF TypeOK
<1>6. v = w
  BY <1>1, <1>5 DEF NamesApart
<1> QED BY <1>1, <1>3, <1>4, <1>6 DEF TypeOK, Distinct

(* "They never match, so this is safe": when every rule of the source is    *)
(* exact and no two virtual systems name a rule alike, the Disable button   *)
(* of the current result changes the verdict of no traffic.                 *)
THEOREM DisablingIsSafe == ExactSources /\ NamesApart => (Spec => DisableIsSafe)
<1> SUFFICES ASSUME ExactSources, NamesApart PROVE Spec => DisableIsSafe
  OBVIOUS
<1>1. ASSUME LoopInv, DisableDead(page), NEW v \in 1 .. Systems
      PROVE  Traffic(v)' = Traffic(v)
  <2>1. FixDisable(page.shadowed) /\ source' = source
    BY <1>1 DEF DisableDead, FixDisable, Convert
  <2>2. TypeOK /\ source \in Sources
    BY <1>1, LoopInvTypes DEF LoopInv, Replays
  <2>3. /\ out[v] \in RuleTables /\ Distinct(out[v].order)
        /\ ExactTable(source[v].rules, out[v])
    BY <2>2, ConvertedExact DEF TypeOK
  <2>4. \A i \in DOMAIN out[v].order :
          out[v].order[i] \in page.shadowed => i \in DeadAt(source[v].rules, out[v])
    BY <1>1, ShadowedAreDead
  <2>5. Accepted(source[v].rules, out'[v]) = Accepted(source[v].rules, out[v])
    <3> DEFINE u == out'[v]
    <3>1. /\ u.order = out[v].order
          /\ \A i \in DOMAIN out[v].order : Enabled(u, i) => Enabled(out[v], i)
          /\ \A i \in DOMAIN out[v].order :
               Enabled(out[v], i) /\ ~Enabled(u, i) => i \in DeadAt(source[v].rules, out[v])
      BY <1>1, <2>1, <2>4, DisablingOutput
    <3> HIDE DEF u
    <3>2. Accepted(source[v].rules, u) = Accepted(source[v].rules, out[v])
      BY <2>3, <3>1, DisablingKeepsVerdicts
    <3> QED BY <3>2 DEF u
  <2> QED BY <2>1, <2>5 DEF Traffic
<1>2. LoopInv /\ [Next]_vars =>
        [ DisableDead(page) => \A v \in 1 .. Systems : Traffic(v)' = Traffic(v) ]_vars
  BY <1>1
<1> QED BY <1>2, LoopInvInductive, PTL DEF Spec, DisableIsSafe
-----------------------------------------------------------------------------
(* Replays: a form that grows is replayed in the tables it has made.        *)

(* Replaying some pairs and then others is replaying all of them: the       *)
(* pairs merged last are lifted in the table the earlier ones have left.    *)
LEMMA ReplayContinues ==
  ASSUME NEW order, NEW have, IsList(have), NEW more, IsList(more)
  PROVE  Replayed(order, have \o more) = Replayed(Replayed(order, have), more)
<1> DEFINE all == have \o more
           n == Len(have)
           whole == LiftedUpTo(order, all)
           first == LiftedUpTo(order, have)
           mid == first[n]
           rest == LiftedUpTo(mid, more)
<1>1. /\ Len(have) \in Nat /\ Len(more) \in Nat /\ Len(all) = n + Len(more)
      /\ \A k \in 1 .. n : all[k] = have[k]
      /\ \A k \in 1 .. Len(more) : all[n + k] = more[k]
  <2> DEFINE X == ToSet(have) \cup ToSet(more)
  <2>1. /\ have \in Seq(X) /\ more \in Seq(X)
        /\ Len(have) \in Nat /\ Len(more) \in Nat
    BY ListLength
  <2> HIDE DEF X
  <2>2. Len(have \o more) = Len(have) + Len(more)
    BY <2>1
  <2>3. \A k \in 1 .. Len(have) : (have \o more)[k] = have[k]
    BY <2>1
  <2>4. \A k \in 1 .. Len(more) : (have \o more)[Len(have) + k] = more[k]
    BY <2>1
  <2> QED BY <2>1, <2>2, <2>3, <2>4
<1>2. \A k \in 0 .. Len(all) :
        whole[k] = IF k = 0 THEN order ELSE Lifted(whole[k - 1], all[k])
  <2>1. Len(all) \in Nat
    BY <1>1
  <2> HIDE DEF all
  <2> QED BY <2>1, LiftedUpToUnfolds
<1>3. \A k \in 0 .. n :
        first[k] = IF k = 0 THEN order ELSE Lifted(first[k - 1], have[k])
  BY <1>1, LiftedUpToUnfolds
<1>4. \A k \in 0 .. Len(more) :
        rest[k] = IF k = 0 THEN mid ELSE Lifted(rest[k - 1], more[k])
  <2> HIDE DEF mid
  <2> QED BY <1>1, LiftedUpToUnfolds
<1> HIDE DEF all, n, whole, first, mid, rest
<1>5. n = Len(have) /\ n \in Nat
  BY <1>1 DEF n
<1>6. { k \in 0 .. n : whole[k] # first[k] } = {}
  <2> DEFINE Bad == { k \in 0 .. n : whole[k] # first[k] }
  <2> SUFFICES ASSUME Bad # {} PROVE FALSE
    OBVIOUS
  <2>1. PICK k \in Bad : \A i \in Bad : k <= i
    <3>1. Bad \subseteq Nat
      BY <1>5
    <3> HIDE DEF Bad
    <3> QED BY <3>1, LeastNatural
  <2>2. k \in 0 .. n /\ k \in 0 .. Len(all)
    BY <1>1, <1>5
  <2>3. k # 0
    BY <1>2, <1>3, <2>1, <2>2
  <2>4. k - 1 \in 0 .. n /\ k - 1 < k /\ k \in 1 .. n
    BY <1>5, <2>2, <2>3
  <2>5. whole[k - 1] = first[k - 1]
    BY <2>1, <2>4
  <2> QED BY <1>1, <1>2, <1>3, <2>1, <2>2, <2>3, <2>4, <2>5
<1>7. whole[n] = mid
  BY <1>5, <1>6 DEF mid
<1>8. { k \in 0 .. Len(more) : whole[n + k] # rest[k] } = {}
  <2> DEFINE Bad == { k \in 0 .. Len(more) : whole[n + k] # rest[k] }
  <2> SUFFICES ASSUME Bad # {} PROVE FALSE
    OBVIOUS
  <2>1. PICK k \in Bad : \A i \in Bad : k <= i
    <3>1. Bad \subseteq Nat
      BY <1>1
    <3> HIDE DEF Bad
    <3> QED BY <3>1, LeastNatural
  <2>2. k \in 0 .. Len(more) /\ n + k \in 0 .. Len(all)
    BY <1>1, <1>5
  <2>3. k # 0
    BY <1>4, <1>5, <1>7, <2>1, <2>2
  <2>4. k - 1 \in 0 .. Len(more) /\ k - 1 < k /\ k \in 1 .. Len(more)
        /\ n + k # 0 /\ (n + k) - 1 = n + (k - 1)
    BY <1>1, <1>5, <2>2, <2>3
  <2>5. whole[n + (k - 1)] = rest[k - 1]
    BY <2>1, <2>4
  <2>6. whole[n + k] = Lifted(whole[n + (k - 1)], all[n + k])
    BY <1>2, <2>2, <2>4
  <2>7. rest[k] = Lifted(rest[k - 1], more[k]) /\ all[n + k] = more[k]
    BY <1>1, <1>4, <2>3, <2>2, <2>4
  <2> QED BY <2>1, <2>5, <2>6, <2>7
<1>9. whole[Len(all)] = rest[Len(more)]
  BY <1>1, <1>8
<1> QED BY <1>9 DEF Replayed, whole, all, rest, mid, first, n

(* One rule stands above another.                                           *)
Above(order, x, y) ==
  \E i, j \in DOMAIN order : i < j /\ order[i] = x /\ order[j] = y

(* One table is another with rule x taken from index m up to b: the rule at *)
(* i goes to to[i], and only x overtakes others.                            *)
Moves(order, x, g, to, m, b) ==
  /\ m \in DOMAIN order /\ b \in DOMAIN order /\ b < m
  /\ order[m] = x /\ to[m] = b
  /\ DOMAIN g = DOMAIN order
  /\ to \in [DOMAIN order -> DOMAIN order]
  /\ \A i \in DOMAIN order : /\ g[to[i]] = order[i]
                             /\ i < b => to[i] = i
                             /\ b < to[i] => b <= i
  /\ \A k \in DOMAIN order : \E i \in DOMAIN order : to[i] = k
  /\ \A i, j \in DOMAIN order : i < j /\ j # m => to[i] < to[j]

(* A lift that changes the table is such a move.                            *)
LEMMA LiftedMoves ==
  ASSUME NEW S, NEW order, Listing(order, S), NEW pair, Lifted(order, pair) # order
  PROVE  \E to, m, b : Moves(order, pair[1], Lifted(order, pair), to, m, b)
<1> DEFINE m == Position(order, pair[1])
           b == Position(order, pair[2])
           g == Lifted(order, pair)
           to == [ i \in DOMAIN order |->
                   IF i = m THEN b ELSE IF i \in b .. m - 1 THEN i + 1 ELSE i ]
<1>1. order \in Seq(Names) /\ DOMAIN order = 1 .. Len(order) /\ Len(order) \in Nat
  BY DEF Listing
<1>2. ~(m > Len(order) \/ b > Len(order) \/ m <= b)
  BY DEF Lifted
<1>3. /\ m \in 1 .. Len(order) + 1 /\ b \in 1 .. Len(order) + 1
      /\ m <= Len(order) => order[m] = pair[1]
  BY <1>1, PositionType
<1>4. g = [ i \in DOMAIN order |-> IF i = b THEN order[m]
                                   ELSE IF i \in b + 1 .. m THEN order[i - 1]
                                   ELSE order[i] ]
  BY <1>2 DEF Lifted
<1> HIDE DEF m, b, g
<1>5. /\ m \in DOMAIN order /\ b \in DOMAIN order /\ b < m /\ order[m] = pair[1]
  BY <1>1, <1>2, <1>3
<1>6. ASSUME NEW i \in DOMAIN order
      PROVE  to[i] \in DOMAIN order /\ g[to[i]] = order[i]
  <2>1. CASE i = m
    BY <1>1, <1>4, <1>5, <2>1
  <2>2. CASE i \in b .. m - 1
    <3>1. to[i] = i + 1 /\ i + 1 \in DOMAIN order /\ i + 1 # b /\ i + 1 \in b + 1 .. m
          /\ (i + 1) - 1 = i
      BY <1>1, <1>5, <2>2
    <3> QED BY <1>4, <3>1
  <2>3. CASE i # m /\ i \notin b .. m - 1
    <3>1. to[i] = i /\ i # b /\ i \notin b + 1 .. m
      BY <1>1, <1>5, <2>3
    <3> QED BY <1>4, <3>1
  <2> QED BY <2>1, <2>2, <2>3
<1>7. ASSUME NEW k \in DOMAIN order PROVE \E i \in DOMAIN order : to[i] = k
  <2> DEFINE back == IF k = b THEN m ELSE IF k \in b + 1 .. m THEN k - 1 ELSE k
  <2>1. to[back] = k /\ back \in DOMAIN order
    BY <1>1, <1>5
  <2> HIDE DEF to, back
  <2> QED BY <2>1
<1>8. \A i, j \in DOMAIN order : i < j /\ j # m => to[i] < to[j]
  BY <1>1, <1>5
<1>9. /\ to[m] = b
       /\ \A i \in DOMAIN order : (i < b => to[i] = i) /\ (b < to[i] => b <= i)
  BY <1>1, <1>5
<1>10. DOMAIN g = DOMAIN order
  BY <1>4
<1> HIDE DEF to
<1>11. to \in [DOMAIN order -> DOMAIN order]
  BY <1>6 DEF to
<1>12. Moves(order, pair[1], g, to, m, b)
  BY <1>5, <1>6, <1>7, <1>8, <1>9, <1>10, <1>11 DEF Moves
<1> QED BY <1>12 DEF g

(* Lifting any other rule keeps a rule below those it was below.            *)
LEMMA LiftedKeepsAbove ==
  ASSUME NEW S, NEW order, Listing(order, S), NEW pair,
         NEW x, NEW y, y # pair[1], Above(order, x, y)
  PROVE  Above(Lifted(order, pair), x, y)
<1>1. CASE Lifted(order, pair) = order
  BY <1>1
<1>2. CASE Lifted(order, pair) # order
  <2>1. PICK to, m, b : Moves(order, pair[1], Lifted(order, pair), to, m, b)
    BY <1>2, LiftedMoves
  <2>2. PICK i, j \in DOMAIN order : i < j /\ order[i] = x /\ order[j] = y
    BY DEF Above
  <2>3. to[i] < to[j] /\ to[i] \in DOMAIN order /\ to[j] \in DOMAIN order
    BY <2>1, <2>2 DEF Moves
  <2> QED BY <2>1, <2>2, <2>3 DEF Above, Moves
<1> QED BY <1>1, <1>2

(* Nor do any number of lifts of other rules.                               *)
LEMMA ReplayedKeepsAbove ==
  ASSUME NEW S, NEW order, Listing(order, S), NEW pairs, IsList(pairs),
         NEW x, NEW y, \A k \in DOMAIN pairs : y # pairs[k][1], Above(order, x, y)
  PROVE  Above(Replayed(order, pairs), x, y)
<1> DEFINE r == LiftedUpTo(order, pairs)
           Bad == { k \in 0 .. Len(pairs) : ~(Listing(r[k], S) /\ Above(r[k], x, y)) }
<1>1. Len(pairs) \in Nat /\ DOMAIN pairs = 1 .. Len(pairs)
  BY ListLength
<1>2. \A k \in 0 .. Len(pairs) :
        r[k] = IF k = 0 THEN order ELSE Lifted(r[k - 1], pairs[k])
  BY <1>1, LiftedUpToUnfolds
<1> HIDE DEF r
<1>3. Bad = {}
  <2> SUFFICES ASSUME Bad # {} PROVE FALSE
    OBVIOUS
  <2>1. PICK n \in Bad : \A k \in Bad : n <= k
    <3>1. Bad \subseteq Nat
      BY <1>1
    <3> HIDE DEF Bad
    <3> QED BY <3>1, LeastNatural
  <2>2. n # 0
    BY <1>1, <1>2, <2>1
  <2>3. n \in 0 .. Len(pairs) /\ n - 1 \in 0 .. Len(pairs) /\ n - 1 < n /\ n \in DOMAIN pairs
    BY <1>1, <2>1, <2>2
  <2>4. Listing(r[n - 1], S) /\ Above(r[n - 1], x, y)
    BY <2>1, <2>3
  <2>5. Listing(r[n], S) /\ Above(r[n], x, y)
    BY <1>2, <2>2, <2>3, <2>4, LiftedListing, LiftedKeepsAbove
  <2> QED BY <2>1, <2>5
<1>4. Above(r[Len(pairs)], x, y)
  BY <1>1, <1>3
<1> QED BY <1>4 DEF Replayed, r

(* A member's rank in an order given as its set of pairs.                   *)
RankIn(S, R, x) == Cardinality({ y \in S : << y, x >> \in R })

(* In a finite set with a total order, given as its set of pairs, every     *)
(* rank is some member's: ranks differ and there are as many as members.    *)
LEMMA EveryRankTaken ==
  ASSUME NEW S, IsFiniteSet(S), NEW R,
         \A x \in S : << x, x >> \notin R,
         \A x, y, z \in S : << x, y >> \in R /\ << y, z >> \in R => << x, z >> \in R,
         \A x, y \in S : x # y => << x, y >> \in R \/ << y, x >> \in R
  PROVE  \A k \in 1 .. Cardinality(S) :
           \E x \in S : RankIn(S, R, x) = k - 1
<1> DEFINE Below(x) == { y \in S : << y, x >> \in R }
           n == Cardinality(S)
           rank == [ x \in S |-> Cardinality(Below(x)) ]
<1>1. n \in Nat
  BY FS_CardinalityType
<1>2. \A T \in SUBSET S : IsFiniteSet(T) /\ Cardinality(T) \in Nat
  BY FS_Subset, FS_CardinalityType
<1>3. ASSUME NEW T \in SUBSET S, NEW U \in SUBSET T, U # T
      PROVE  Cardinality(U) < Cardinality(T)
  <2>1. /\ IsFiniteSet(T) /\ Cardinality(T) \in Nat /\ Cardinality(U) \in Nat
    BY <1>2, <1>3
  <2>2. Cardinality(U) <= Cardinality(T) /\ Cardinality(T) # Cardinality(U)
    BY <1>3, <2>1, FS_Subset
  <2> QED BY <2>1, <2>2
<1>4. rank \in [ S -> 0 .. n - 1 ]
  <2> SUFFICES ASSUME NEW x \in S PROVE Cardinality(Below(x)) \in 0 .. n - 1
    OBVIOUS
  <2>1. Below(x) \in SUBSET S /\ Below(x) # S /\ S \in SUBSET S
    OBVIOUS
  <2>2. Cardinality(Below(x)) \in Nat /\ Cardinality(Below(x)) < n
    <3> HIDE DEF Below
    <3> QED BY <1>2, <1>3, <2>1
  <2> HIDE DEF Below, n
  <2> QED BY <1>1, <2>2
<1>5. ASSUME NEW x \in S, NEW y \in S, x # y PROVE rank[x] # rank[y]
  <2>1. ASSUME NEW a \in S, NEW b \in S, << a, b >> \in R PROVE rank[a] < rank[b]
    <3>1. Below(a) \in SUBSET Below(b) /\ Below(b) \in SUBSET S /\ Below(a) # Below(b)
      BY <2>1
    <3>2. Cardinality(Below(a)) < Cardinality(Below(b))
      <4> HIDE DEF Below
      <4> QED BY <1>3, <3>1
    <3> QED BY <3>2
  <2>2. rank[x] \in Nat /\ rank[y] \in Nat
    <3> HIDE DEF rank
    <3> QED BY <1>1, <1>4
  <2>3. << x, y >> \in R \/ << y, x >> \in R
    BY <1>5
  <2> HIDE DEF rank
  <2> QED BY <2>1, <2>2, <2>3
<1>6. rank \in Injection(S, 0 .. n - 1)
  <2> HIDE DEF rank
  <2> QED BY <1>4, <1>5 DEF Injection, IsInjective
<1>7. IsFiniteSet(0 .. n - 1) /\ Cardinality(0 .. n - 1) = n
  <2> HIDE DEF n
  <2>1. 0 \in Int /\ n - 1 \in Int /\ (0 > n - 1 <=> n = 0)
    BY <1>1
  <2>2. Cardinality(0 .. n - 1) = IF 0 > n - 1 THEN 0 ELSE (n - 1) - 0 + 1
    BY <2>1, FS_Interval
  <2> QED BY <1>1, <2>1, <2>2, FS_Interval
<1>8. rank \in Surjection(S, 0 .. n - 1)
  <2> HIDE DEF rank
  <2> QED BY <1>6, <1>7, FS_Injection
<1>9. ASSUME NEW k \in 1 .. n PROVE \E x \in S : rank[x] = k - 1
  <2>1. k - 1 \in 0 .. n - 1
    <3> HIDE DEF n
    <3> QED BY <1>1
  <2> HIDE DEF rank
  <2> QED BY <1>8, <2>1 DEF Surjection
<1> QED BY <1>9 DEF RankIn

(* apply_fix appends only values that were posted, and no more than those.  *)
LEMMA MergedAppends ==
  ASSUME NEW have, NEW new, IsList(new)
  PROVE  \E more : /\ IsList(more) /\ ToSet(more) \subseteq ToSet(new)
                   /\ Len(more) <= Len(new)
                   /\ Merged(have, new) = have \o more
<1> DEFINE fresh == { i \in DOMAIN new : /\ new[i] \notin ToSet(have)
                                        /\ \A j \in 1 .. i - 1 : new[j] # new[i] }
           at == Ranked(fresh, <)
           more == [ k \in DOMAIN at |-> new[at[k]] ]
<1>1. DOMAIN new = 1 .. Len(new) /\ Len(new) \in Nat
  BY ListLength
<1>2. IsFiniteSet(fresh) /\ fresh \subseteq DOMAIN new /\ fresh \subseteq Nat
  <2>1. IsFiniteSet(DOMAIN new)
    BY <1>1, FS_Interval
  <2>2. fresh \in SUBSET DOMAIN new /\ fresh \subseteq Nat
    BY <1>1
  <2> HIDE DEF fresh
  <2> QED BY <2>1, <2>2, FS_Subset
<1>3. Cardinality(fresh) \in Nat /\ Cardinality(fresh) <= Len(new)
  <2>1. IsFiniteSet(1 .. Len(new)) /\ Cardinality(1 .. Len(new)) = Len(new)
    <3>1. 1 \in Int /\ Len(new) \in Int
      BY <1>1
    <3>2. /\ IsFiniteSet(1 .. Len(new))
          /\ Cardinality(1 .. Len(new)) = IF 1 > Len(new) THEN 0 ELSE Len(new) - 1 + 1
      BY <3>1, FS_Interval
    <3> QED BY <1>1, <3>2
  <2>2. fresh \in SUBSET (1 .. Len(new))
    BY <1>1
  <2> HIDE DEF fresh
  <2> QED BY <1>2, <2>1, <2>2, FS_CardinalityType, FS_Subset
<1>4. Merged(have, new) = have \o more
  BY DEF Merged
<1> HIDE DEF fresh
<1>5. ASSUME NEW k \in 1 .. Cardinality(fresh) PROVE at[k] \in fresh
  <2> DEFINE R == { p \in fresh \X fresh : p[1] < p[2] }
  <2>1. /\ \A x \in fresh : << x, x >> \notin R
        /\ \A x, y, z \in fresh : << x, y >> \in R /\ << y, z >> \in R => << x, z >> \in R
        /\ \A x, y \in fresh : x # y => << x, y >> \in R \/ << y, x >> \in R
    BY <1>2
  <2>2. \A x, y \in fresh : << y, x >> \in R <=> y < x
    OBVIOUS
  <2> HIDE DEF R
  <2>4. PICK x \in fresh : RankIn(fresh, R, x) = k - 1
    BY <1>2, <2>1, EveryRankTaken
  <2>5. { y \in fresh : << y, x >> \in R } = { y \in fresh : y < x }
    BY <2>2
  <2>6. \E z \in fresh : Cardinality({ y \in fresh : y < z }) = k - 1
    BY <2>4, <2>5 DEF RankIn
  <2>7. at[k] = CHOOSE z \in fresh : Cardinality({ y \in fresh : y < z }) = k - 1
    BY DEF Ranked
  <2> QED BY <2>6, <2>7
<1>6. DOMAIN at = 1 .. Cardinality(fresh)
  BY DEF Ranked
<1> HIDE DEF at
<1>7. more = [ k \in 1 .. Cardinality(fresh) |-> more[k] ]
      /\ DOMAIN more = 1 .. Cardinality(fresh)
      /\ \A k \in 1 .. Cardinality(fresh) : more[k] = new[at[k]]
  BY <1>6
<1> HIDE DEF more
<1>8. IsList(more) /\ Len(more) <= Len(new)
  BY <1>3, <1>7 DEF IsList
<1>9. ToSet(more) \subseteq ToSet(new)
  BY <1>2, <1>5, <1>7 DEF ToSet
<1> QED BY <1>4, <1>8, <1>9

(* Every pair of a page lifts a rule that is enabled in its own system, has *)
(* the reported action and was found hidden there.                          *)
LEMMA LiftsFromHidden ==
  ASSUME NEW src, NEW tables, NEW act,
         \A v \in 1 .. Systems : tables[v].order \in Seq(Names),
         NEW k \in DOMAIN Lifts(src, tables, act)
  PROVE  \E v \in 1 .. Systems : \E j \in HiddenAt(src[v].rules, tables[v], act) :
           Lifts(src, tables, act)[k][1] = tables[v].order[j]
<1> DEFINE all == Findings(src, tables, act)
           at == Ranked(all, Reported)
<1>1. IsFiniteSet(all)
  BY FindingsFinite
<1>2. Cardinality(all) \in Nat
  BY <1>1, FS_CardinalityType
<1>3. DOMAIN at = 1 .. Cardinality(all)
  BY DEF Ranked
<1>4. k \in 1 .. Cardinality(all)
  BY <1>3 DEF Lifts
<1>5. \A x \in all : /\ x = << x[1], x[2] >> /\ x[1] \in 1 .. Systems
                     /\ x[2] \in HiddenAt(src[x[1]].rules, tables[x[1]], act)
                     /\ x[2] \in Nat /\ x[1] \in Nat
  <2> SUFFICES ASSUME NEW v \in 1 .. Systems,
                      NEW x \in {v} \X HiddenAt(src[v].rules, tables[v], act)
               PROVE  /\ x = << x[1], x[2] >> /\ x[1] \in 1 .. Systems
                      /\ x[2] \in HiddenAt(src[x[1]].rules, tables[x[1]], act)
                      /\ x[2] \in Nat /\ x[1] \in Nat
    BY DEF Findings
  <2>1. HiddenAt(src[v].rules, tables[v], act) \subseteq Nat
    <3>1. HiddenAt(src[v].rules, tables[v], act) \subseteq DOMAIN tables[v].order
      BY DEF HiddenAt, DeadAt
    <3>2. DOMAIN tables[v].order \subseteq Nat
      OBVIOUS
    <3> QED BY <3>1, <3>2
  <2> QED BY <2>1, FixesAssumption
<1> HIDE DEF all
<1>6. at[k] \in all
  <2> DEFINE R == { p \in all \X all : Reported(p[1], p[2]) }
  <2>1. \A x, y \in all : << y, x >> \in R <=> Reported(y, x)
    OBVIOUS
  <2> HIDE DEF R
  <2>2. \A x \in all : << x, x >> \notin R
    BY <1>5, <2>1 DEF Reported
  <2>3. \A x, y, z \in all : << x, y >> \in R /\ << y, z >> \in R => << x, z >> \in R
    <3> SUFFICES ASSUME NEW x \in all, NEW y \in all, NEW z \in all,
                        Reported(x, y), Reported(y, z)
                 PROVE  Reported(x, z)
      BY <2>1
    <3>1. x[1] \in Nat /\ x[2] \in Nat /\ y[1] \in Nat /\ y[2] \in Nat
          /\ z[1] \in Nat /\ z[2] \in Nat
      BY <1>5
    <3> QED BY <3>1 DEF Reported
  <2>4. \A x, y \in all : x # y => << x, y >> \in R \/ << y, x >> \in R
    <3> SUFFICES ASSUME NEW x \in all, NEW y \in all, x # y
                 PROVE  Reported(x, y) \/ Reported(y, x)
      BY <2>1
    <3>1. x[1] \in Nat /\ x[2] \in Nat /\ y[1] \in Nat /\ y[2] \in Nat
          /\ (x[1] # y[1] \/ x[2] # y[2])
      BY <1>5
    <3> QED BY <3>1 DEF Reported
  <2>6. PICK x \in all : RankIn(all, R, x) = k - 1
    BY <1>1, <1>4, <2>2, <2>3, <2>4, EveryRankTaken
  <2>7. { y \in all : << y, x >> \in R } = { y \in all : Reported(y, x) }
    BY <2>1
  <2>8. \E z \in all : Cardinality({ y \in all : Reported(y, z) }) = k - 1
    BY <2>6, <2>7 DEF RankIn
  <2>9. at[k] = CHOOSE z \in all : Cardinality({ y \in all : Reported(y, z) }) = k - 1
    BY <1>4 DEF Ranked
  <2> QED BY <2>8, <2>9
<1>7. Lifts(src, tables, act)[k][1] = tables[at[k][1]].order[at[k][2]]
  <2> HIDE DEF at
  <2> QED BY <1>3, <1>4 DEF Lifts, all, at
<1> HIDE DEF at
<1> QED BY <1>5, <1>6, <1>7

-----------------------------------------------------------------------------
(* One lift, and what it does to the traffic.                               *)

(* Lifting a deny: what is accepted below was accepted before, as only the  *)
(* deny has overtaken anything.                                             *)
LEMMA LiftedDenyTightens ==
  ASSUME NEW rules, NEW S, NEW t, Listing(t.order, S), NEW pair,
         pair[1] \in S => rules[pair[1]].act = "deny",
         NEW u, u.order = Lifted(t.order, pair), u.off = t.off
  PROVE  Accepted(rules, u) \subseteq Accepted(rules, t)
<1>1. CASE u.order = t.order
  BY <1>1 DEF Accepted, Fires, Enabled
<1>2. CASE u.order # t.order
  <2>1. PICK to, m, b : Moves(t.order, pair[1], u.order, to, m, b)
    BY <1>2, LiftedMoves
  <2>2. DOMAIN t.order = 1 .. Len(t.order) /\ Len(t.order) \in Nat /\ ToSet(t.order) = S
    BY DEF Listing
  <2>3. rules[t.order[m]].act = "deny"
    <3>1. m \in DOMAIN t.order /\ t.order[m] = pair[1]
      BY <2>1 DEF Moves
    <3>2. pair[1] \in S
      BY <2>2, <3>1 DEF ToSet
    <3> QED BY <3>1, <3>2
  <2> SUFFICES ASSUME NEW f \in Flows, NEW p \in DOMAIN u.order,
                      Fires(rules, u, f, p), rules[u.order[p]].act = "accept"
               PROVE  \E i \in DOMAIN t.order :
                        Fires(rules, t, f, i) /\ rules[t.order[i]].act = "accept"
    BY DEF Accepted
  <2>4. PICK i \in DOMAIN t.order : to[i] = p
    BY <2>1 DEF Moves
  <2>5. u.order[p] = t.order[i] /\ i # m
    BY <2>1, <2>3, <2>4 DEF Moves
  <2>6. ASSUME NEW k \in 1 .. i - 1, Enabled(t, k) PROVE ~RuleMatches(rules[t.order[k]], f)
    <3>1. k \in DOMAIN t.order /\ k < i /\ i \in Nat
      BY <2>2
    <3>2. to[k] < p /\ to[k] \in DOMAIN t.order /\ p \in DOMAIN t.order
          /\ u.order[to[k]] = t.order[k]
      BY <2>1, <2>4, <2>5, <3>1 DEF Moves
    <3>3. to[k] \in 1 .. p - 1 /\ Enabled(u, to[k])
      BY <2>2, <2>6, <3>2 DEF Enabled
    <3> QED BY <3>2, <3>3 DEF Fires
  <2>7. Fires(rules, t, f, i)
    BY <2>5, <2>6 DEF Fires, Enabled
  <2> QED BY <2>5, <2>7
<1> QED BY <1>1, <1>2

(* Lifting an accept: what was accepted still is, by the same rule or by    *)
(* the one that has overtaken it.                                           *)
LEMMA LiftedAcceptWidens ==
  ASSUME NEW rules, NEW S, NEW t, Listing(t.order, S), NEW pair,
         pair[1] \in S => rules[pair[1]].act = "accept",
         NEW u, u.order = Lifted(t.order, pair), u.off = t.off
  PROVE  Accepted(rules, t) \subseteq Accepted(rules, u)
<1>1. CASE u.order = t.order
  BY <1>1 DEF Accepted, Fires, Enabled
<1>2. CASE u.order # t.order
  <2>1. PICK to, m, b : Moves(t.order, pair[1], u.order, to, m, b)
    BY <1>2, LiftedMoves
  <2>2. DOMAIN t.order = 1 .. Len(t.order) /\ Len(t.order) \in Nat /\ ToSet(t.order) = S
    BY DEF Listing
  <2>3. rules[t.order[m]].act = "accept"
    <3>1. m \in DOMAIN t.order /\ t.order[m] = pair[1]
      BY <2>1 DEF Moves
    <3>2. pair[1] \in S
      BY <2>2, <3>1 DEF ToSet
    <3> QED BY <3>1, <3>2
  <2>4. /\ m \in 1 .. Len(t.order) /\ b \in 1 .. Len(t.order) /\ b < m
        /\ \A k \in 1 .. b - 1 : to[k] = k /\ k \in DOMAIN t.order /\ k # m
    <3>1. m \in 1 .. Len(t.order) /\ b \in 1 .. Len(t.order) /\ b < m
      BY <2>1, <2>2 DEF Moves
    <3>2. \A k \in 1 .. b - 1 : k \in DOMAIN t.order /\ k < b /\ k # m
      BY <2>2, <3>1
    <3> QED BY <2>1, <3>1, <3>2 DEF Moves
  <2>5. \A k \in DOMAIN t.order : /\ to[k] \in 1 .. Len(t.order)
                                  /\ u.order[to[k]] = t.order[k]
    BY <2>1, <2>2 DEF Moves
  <2> SUFFICES ASSUME NEW f \in Flows, NEW i \in DOMAIN t.order,
                      Fires(rules, t, f, i), rules[t.order[i]].act = "accept"
               PROVE  \E p \in DOMAIN u.order :
                        Fires(rules, u, f, p) /\ rules[u.order[p]].act = "accept"
    BY DEF Accepted
  <2>6. \A k \in 1 .. i - 1 : Enabled(t, k) => ~RuleMatches(rules[t.order[k]], f)
    BY DEF Fires
  <2>7. CASE /\ i = m \/ to[m] < to[i]
             /\ Enabled(t, m) /\ RuleMatches(rules[t.order[m]], f)
    <3>1. b <= i /\ i \in Nat
      <4>1. i \in 1 .. Len(t.order) /\ to[m] = b /\ (b < to[i] => b <= i)
        BY <2>1, <2>2 DEF Moves
      <4> QED BY <2>4, <2>7, <4>1
    <3>2. ASSUME NEW k \in 1 .. b - 1, Enabled(u, k) PROVE ~RuleMatches(rules[u.order[k]], f)
      <4>1. u.order[k] = t.order[k]
        BY <2>4, <2>5
      <4>2. k \in 1 .. i - 1
        BY <2>4, <3>1
      <4> QED BY <2>6, <3>2, <4>1, <4>2 DEF Enabled
    <3>3. u.order[b] = t.order[m] /\ b \in DOMAIN u.order
      BY <2>1, <2>4 DEF Moves
    <3>4. Fires(rules, u, f, b)
      BY <2>7, <3>2, <3>3 DEF Fires, Enabled
    <3> QED BY <2>3, <3>3, <3>4
  <2>8. CASE i # m /\ ~(to[m] < to[i] /\ Enabled(t, m) /\ RuleMatches(rules[t.order[m]], f))
    <3> DEFINE p == to[i]
    <3>1. p \in DOMAIN u.order /\ u.order[p] = t.order[i] /\ p \in 1 .. Len(t.order)
      BY <2>1, <2>2, <2>5 DEF Moves
    <3>2. ASSUME NEW q \in 1 .. p - 1, Enabled(u, q) PROVE ~RuleMatches(rules[u.order[q]], f)
      <4>1. q \in DOMAIN t.order /\ q < p
        BY <2>2, <3>1
      <4>2. PICK k \in DOMAIN t.order : to[k] = q
        BY <2>1, <4>1 DEF Moves
      <4>3. u.order[q] = t.order[k] /\ Enabled(t, k)
        BY <2>1, <3>2, <4>2 DEF Enabled, Moves
      <4>4. CASE k = m
        BY <2>8, <4>1, <4>2, <4>3, <4>4
      <4>5. CASE k # m
        <5>1. k \in Nat /\ i \in Nat /\ 1 <= k /\ q \in Nat /\ p \in Nat
          BY <2>2, <3>1
        <5>2. ~(i < k)
          BY <2>1, <4>1, <4>2, <4>5, <5>1 DEF Moves
        <5>3. k # i
          BY <4>1, <4>2, <5>1
        <5>4. k \in 1 .. i - 1
          BY <5>1, <5>2, <5>3
        <5> QED BY <2>6, <4>3, <5>4
      <4> QED BY <4>4, <4>5
    <3>3. Fires(rules, u, f, p)
      BY <3>1, <3>2 DEF Fires, Enabled
    <3> QED BY <3>1, <3>3
  <2>9. Enabled(t, i) /\ RuleMatches(rules[t.order[i]], f)
    BY DEF Fires
  <2> QED BY <2>7, <2>8, <2>9
<1> QED BY <1>1, <1>2

(* What every conversion makes of a system: the kept rules in the replayed  *)
(* order, with the disables of the source and of the form.                  *)
LEMMA OutputOfForm ==
  ASSUME LoopInv, NEW v \in 1 .. Systems
  PROVE  LET F == Filtered(source[v].table, form.exclude) IN
         /\ out[v].order = Replayed(F.order, form.reorder)
         /\ out[v].off = F.off \cup (form.disable \cap ToSet(F.order))
         /\ F.off = source[v].table.off \ form.exclude
         /\ Listing(F.order, ToSet(source[v].table.order) \ form.exclude)
<1>1. out[v] = Tuned(source[v].table, form)
  BY DEF LoopInv, Replays, Converted
<1>2. source[v].table \in RuleTables /\ Distinct(source[v].table.order)
  BY FixesAssumption DEF LoopInv, Replays
<1>3. Filtered(source[v].table, form.exclude).off = source[v].table.off \ form.exclude
  BY DEF Filtered
<1> DEFINE F == Filtered(source[v].table, form.exclude)
<1>4. Listing(F.order, ToSet(source[v].table.order) \ form.exclude)
  BY <1>2, FilteredListing
<1>5. /\ out[v].order = Replayed(F.order, form.reorder)
      /\ out[v].off = F.off \cup (form.disable \cap ToSet(F.order))
  <2> HIDE DEF F
  <2>1. out[v] = Reordered(Disabled(F, form.disable), form.reorder)
    BY <1>1 DEF Tuned, F
  <2> QED BY <2>1 DEF Disabled, Reordered
<1> QED BY <1>3, <1>4, <1>5

(* Posting pairs moves rules in the current tables and nothing else: what   *)
(* was replayed before is replayed again to the same tables, and the new    *)
(* pairs are lifted there.                                                  *)
LEMMA ReorderingOutput ==
  ASSUME LoopInv, NEW pairs, IsList(pairs), FixOrder(pairs)
  PROVE  \E more :
           /\ IsList(more) /\ ToSet(more) \subseteq ToSet(pairs) /\ Len(more) <= Len(pairs)
           /\ \A v \in 1 .. Systems : /\ out'[v].order = Replayed(out[v].order, more)
                                      /\ out'[v].off = out[v].off
<1>1. PICK more : /\ IsList(more) /\ ToSet(more) \subseteq ToSet(pairs)
                  /\ Len(more) <= Len(pairs)
                  /\ Merged(form.reorder, pairs) = form.reorder \o more
  BY MergedAppends
<1> DEFINE fixes == [form EXCEPT !.reorder = Merged(@, pairs)]
<1>2. /\ fixes.exclude = form.exclude /\ fixes.disable = form.disable
      /\ fixes.reorder = form.reorder \o more
  BY <1>1 DEF LoopInv, Replays
<1>3. ASSUME NEW v \in 1 .. Systems
      PROVE  out'[v].order = Replayed(out[v].order, more) /\ out'[v].off = out[v].off
  <2> DEFINE F == Filtered(source[v].table, form.exclude)
  <2>1. out'[v] = Tuned(source[v].table, fixes)
    BY DEF FixOrder, Convert, Converted
  <2> HIDE DEF fixes
  <2>2. /\ out'[v].order = Replayed(F.order, form.reorder \o more)
        /\ out'[v].off = F.off \cup (form.disable \cap ToSet(F.order))
    BY <1>2, <2>1 DEF Tuned, Disabled, Reordered
  <2>3. /\ out[v].order = Replayed(F.order, form.reorder)
        /\ out[v].off = F.off \cup (form.disable \cap ToSet(F.order))
    BY OutputOfForm
  <2>4. Replayed(F.order, form.reorder \o more)
          = Replayed(Replayed(F.order, form.reorder), more)
    BY <1>1, ReplayContinues DEF LoopInv
  <2> QED BY <2>2, <2>3, <2>4
<1> QED BY <1>1, <1>3

(* No pair replayed, or one.                                                *)
LEMMA ReplayedFew ==
  ASSUME NEW order, NEW pair
  PROVE  /\ Replayed(order, << >>) = order
         /\ Replayed(order, << pair >>) = Lifted(order, pair)
<1>1. Len(<< >>) = 0 /\ Len(<< pair >>) = 1 /\ << pair >>[1] = pair
  OBVIOUS
<1>2. LiftedUpTo(order, << >>) = [ k \in 0 .. Len(<< >>) |->
                 IF k = 0 THEN order ELSE Lifted(LiftedUpTo(order, << >>)[k - 1], << >>[k]) ]
  BY <1>1, LiftedUpToUnfolds
<1>3. LiftedUpTo(order, << pair >>) = [ k \in 0 .. Len(<< pair >>) |->
                 IF k = 0 THEN order
                 ELSE Lifted(LiftedUpTo(order, << pair >>)[k - 1], << pair >>[k]) ]
  BY <1>1, LiftedUpToUnfolds
<1>4. LiftedUpTo(order, << >>)[0] = order /\ LiftedUpTo(order, << pair >>)[0] = order
  BY <1>1, <1>2, <1>3
<1>5. LiftedUpTo(order, << pair >>)[1] = Lifted(LiftedUpTo(order, << pair >>)[0], pair)
  BY <1>1, <1>3
<1> QED BY <1>1, <1>4, <1>5 DEF Replayed

(* A click that posts one pair lifts one rule, or none if the pair was      *)
(* posted before.                                                           *)
LEMMA OneLift ==
  ASSUME LoopInv, NEW pair, FixOrder(<< pair >>)
  PROVE  \/ \A v \in 1 .. Systems : /\ out'[v].order = Lifted(out[v].order, pair)
                                    /\ out'[v].off = out[v].off
         \/ \A v \in 1 .. Systems : /\ out'[v].order = out[v].order
                                    /\ out'[v].off = out[v].off
<1>1. IsList(<< pair >>) /\ Len(<< pair >>) = 1 /\ ToSet(<< pair >>) = { pair }
  BY OneList DEF ToSet
<1>2. PICK more :
        /\ IsList(more) /\ ToSet(more) \subseteq { pair } /\ Len(more) <= 1
        /\ \A v \in 1 .. Systems : /\ out'[v].order = Replayed(out[v].order, more)
                                   /\ out'[v].off = out[v].off
  BY <1>1, ReorderingOutput
<1>3. more \in Seq(ToSet(more)) /\ Len(more) \in Nat
  BY <1>2, ListLength
<1>4. more = << >> \/ more = << pair >>
  <2>1. CASE Len(more) = 0
    BY <1>3, <2>1
  <2>2. CASE Len(more) = 1
    <3>1. more = << more[1] >> /\ more[1] \in ToSet(more)
      BY <1>3, <2>2
    <3> QED BY <1>2, <3>1
  <2> QED BY <1>2, <1>3, <2>1, <2>2
<1> QED BY <1>2, <1>4, ReplayedFew

(* What a page, or a tab that shows an earlier one, offers to lift: denies  *)
(* that are bypassed, accepts that are unreachable, each a rule of one of   *)
(* the virtual systems.                                                     *)
Lifting(pair, act) ==
  \E w \in 1 .. Systems : /\ pair[1] \in ToSet(source[w].table.order)
                          /\ source[w].rules[pair[1]].act = act

OffersHidden(tab) ==
  /\ \A k \in DOMAIN tab.bypassed : Lifting(tab.bypassed[k], "deny")
  /\ \A k \in DOMAIN tab.unreachable : Lifting(tab.unreachable[k], "accept")

(* The page of a conversion does.                                           *)
LEMMA PageOffersHidden == LoopInv => OffersHidden(page)
<1> SUFFICES ASSUME LoopInv PROVE OffersHidden(page)
  OBVIOUS
<1>1. TypeOK /\ page = Page(source, out)
  BY LoopInvTypes DEF LoopInv, Replays
<1>2. \A v \in 1 .. Systems : out[v].order \in Seq(Names)
  BY <1>1 DEF TypeOK, RuleTables
<1>3. ASSUME NEW act, NEW k \in DOMAIN Lifts(source, out, act)
      PROVE  Lifting(Lifts(source, out, act)[k], act)
  <2>1. PICK v \in 1 .. Systems : \E j \in HiddenAt(source[v].rules, out[v], act) :
          Lifts(source, out, act)[k][1] = out[v].order[j]
    BY <1>2, <1>3, LiftsFromHidden
  <2>2. PICK j \in HiddenAt(source[v].rules, out[v], act) :
          Lifts(source, out, act)[k][1] = out[v].order[j]
    BY <2>1
  <2>3. j \in DOMAIN out[v].order /\ source[v].rules[out[v].order[j]].act = act
    BY DEF HiddenAt, DeadAt
  <2>4. out[v].order[j] \in ToSet(source[v].table.order)
    BY <1>1, <2>3 DEF TypeOK, ToSet
  <2> QED BY <2>2, <2>3, <2>4 DEF Lifting
<1>4. page.bypassed = Lifts(source, out, "deny")
      /\ page.unreachable = Lifts(source, out, "accept")
  BY <1>1 DEF Page
<1> QED BY <1>3, <1>4 DEF OffersHidden

(* The loop invariant, and that the open tabs stay true to their word.      *)
TabsInv == LoopInv /\ OffersHidden(old)

(* An earlier page does, for the source never changes.                      *)
LEMMA TabsInvInductive == Spec => []TabsInv
<1>1. Init => TabsInv
  <2> SUFFICES ASSUME Init PROVE OffersHidden(old)
    BY LoopInvInit DEF TabsInv
  <2>1. old.bypassed = << >> /\ old.unreachable = << >>
    BY DEF Init, EmptyPage
  <2> QED BY <2>1 DEF OffersHidden
<1>2. TabsInv /\ [Next]_vars => TabsInv'
  <2> SUFFICES ASSUME TabsInv, [Next]_vars PROVE OffersHidden(old)'
    BY LoopInvStep DEF TabsInv
  <2>1. source' = source /\ (old' = old \/ old' = page)
    BY DEF Next, vars, Wizard, KeepTab, Click, DisableDead, LiftDeny, LiftAccept, FixAll,
           FixDisable, FixOrder, Convert
  <2>2. OffersHidden(old) /\ OffersHidden(page)
    BY PageOffersHidden DEF TabsInv
  <2> QED BY <2>1, <2>2 DEF OffersHidden, Lifting
<1> QED BY <1>1, <1>2, PTL DEF Spec

(* Lifting a deny only tightens and lifting an accept only widens, whatever *)
(* the rules are, however many pairs have been replayed before and from     *)
(* whatever tab, when no two virtual systems name a rule alike.             *)
THEOREM LiftsKeepTheirWord == NamesApart => (Spec => LiftsKeepTheirPromise)
<1> SUFFICES ASSUME NamesApart PROVE Spec => LiftsKeepTheirPromise
  OBVIOUS
<1>1. ASSUME TabsInv, NEW pair, FixOrder(<< pair >>), NEW v \in 1 .. Systems, NEW act,
             Lifting(pair, act)
      PROVE  /\ act = "deny" => Traffic(v)' \subseteq Traffic(v)
             /\ act = "accept" => Traffic(v) \subseteq Traffic(v)'
  <2> DEFINE S == ToSet(out[v].order)
             rules == source[v].rules
             u == out'[v]
  <2>1. LoopInv /\ TypeOK /\ source \in Sources /\ source' = source
    BY <1>1, LoopInvTypes DEF TabsInv, TypeOK, FixOrder, Convert
  <2>2. Listing(out[v].order, S) /\ S \subseteq ToSet(source[v].table.order)
    BY <2>1 DEF TypeOK, RuleTables, Listing
  <2>3. pair[1] \in S => rules[pair[1]].act = act
    BY <1>1, <2>1, <2>2 DEF Lifting, NamesApart
  <2>4. /\ Traffic(v)' = Accepted(rules, u)
        /\ Traffic(v) = Accepted(rules, out[v])
    BY <2>1 DEF Traffic
  <2>5. \/ u.order = Lifted(out[v].order, pair) /\ u.off = out[v].off
        \/ u.order = out[v].order /\ u.off = out[v].off
    BY <1>1, <2>1, OneLift
  <2> HIDE DEF S, rules, u
  <2>6. CASE u.order = out[v].order /\ u.off = out[v].off
    <3>1. Accepted(rules, u) = Accepted(rules, out[v])
      BY <2>6 DEF Accepted, Fires, Enabled
    <3> QED BY <2>4, <3>1
  <2>7. CASE u.order = Lifted(out[v].order, pair) /\ u.off = out[v].off
    <3>1. CASE act = "deny"
      <4>1. Accepted(rules, u) \subseteq Accepted(rules, out[v])
        BY <2>2, <2>3, <2>7, <3>1, LiftedDenyTightens
      <4> QED BY <2>4, <3>1, <4>1
    <3>2. CASE act = "accept"
      <4>1. Accepted(rules, out[v]) \subseteq Accepted(rules, u)
        BY <2>2, <2>3, <2>7, <3>2, LiftedAcceptWidens
      <4> QED BY <2>4, <3>2, <4>1
    <3> QED BY <3>1, <3>2
  <2> QED BY <2>5, <2>6, <2>7
<1>2. ASSUME TabsInv, NEW tab \in { page, old }, NEW v \in 1 .. Systems
      PROVE  /\ \A i \in DOMAIN tab.bypassed :
                  LiftDeny(tab, tab.bypassed[i]) => Traffic(v)' \subseteq Traffic(v)
             /\ \A i \in DOMAIN tab.unreachable :
                  LiftAccept(tab, tab.unreachable[i]) => Traffic(v) \subseteq Traffic(v)'
  <2>1. OffersHidden(tab)
    BY <1>2, PageOffersHidden DEF TabsInv
  <2> QED BY <1>1, <1>2, <2>1 DEF OffersHidden, LiftDeny, LiftAccept
<1>3. TabsInv => [ \A tab \in { page, old } : \A v \in 1 .. Systems :
        /\ \A i \in DOMAIN tab.bypassed :
             LiftDeny(tab, tab.bypassed[i]) => Traffic(v)' \subseteq Traffic(v)
        /\ \A i \in DOMAIN tab.unreachable :
             LiftAccept(tab, tab.unreachable[i]) => Traffic(v) \subseteq Traffic(v)' ]_vars
  BY <1>2
<1> QED BY <1>3, TabsInvInductive, PTL DEF LiftsKeepTheirPromise
-----------------------------------------------------------------------------
(* What has been disabled stays covered.                                    *)

(* The inductive invariant: what the user disabled is covered by an enabled *)
(* rule above it.                                                           *)
DisabledCovered ==
  \A v \in 1 .. Systems : \A i \in DOMAIN out[v].order :
    out[v].order[i] \in out[v].off \ source[v].table.off =>
      CoveredAbove(source[v].rules, out[v], i)

HarmlessInv == LoopInv /\ old = EmptyPage /\ DisabledCovered

(* Without disables in the form there is nothing to cover.                  *)
LEMMA NothingDisabled == LoopInv /\ form.disable = {} => DisabledCovered
<1> SUFFICES ASSUME LoopInv, form.disable = {}, NEW v \in 1 .. Systems
             PROVE  out[v].off \ source[v].table.off = {}
  BY DEF DisabledCovered
<1> QED BY OutputOfForm

(* The Disable button keeps every disabled rule covered.                    *)
LEMMA DisablingKeepsCovered ==
  ASSUME ExactSources, NamesApart, LoopInv, DisabledCovered, DisableDead(page)
  PROVE  DisabledCovered'
<1>1. FixDisable(page.shadowed) /\ source' = source /\ TypeOK
  BY LoopInvTypes DEF DisableDead, FixDisable, Convert
<1> SUFFICES ASSUME NEW v \in 1 .. Systems, NEW i \in DOMAIN out'[v].order,
                    out'[v].order[i] \in out'[v].off \ source[v].table.off
             PROVE  CoveredAbove(source[v].rules, out'[v], i)
  BY <1>1 DEF DisabledCovered, CoveredAbove
<1> DEFINE u == out'[v]
<1>2. /\ u.order = out[v].order
      /\ \A k \in DOMAIN out[v].order :
           Enabled(out[v], k) /\ ~Enabled(u, k) => out[v].order[k] \in page.shadowed
  BY <1>1, DisablingOutput
<1>3. /\ out[v] \in RuleTables /\ ExactTable(source[v].rules, out[v])
  BY <1>1, ConvertedExact
<1> HIDE DEF u
<1>4. \A k \in DOMAIN out[v].order :
        Enabled(out[v], k) /\ ~Enabled(u, k) => k \in DeadAt(source[v].rules, out[v])
  BY <1>2, ShadowedAreDead
<1>5. i \in DOMAIN out[v].order /\ ~Enabled(u, i) /\ out[v].order[i] \notin source[v].table.off
  BY <1>2 DEF Enabled, u
<1>6. CoveredAbove(source[v].rules, out[v], i) \/ i \in DeadAt(source[v].rules, out[v])
  BY <1>4, <1>5 DEF DisabledCovered, Enabled
<1>7. CoveredAbove(source[v].rules, u, i)
  BY <1>2, <1>3, <1>4, <1>5, <1>6, DisablingDeadKeepsCovers
<1> QED BY <1>7 DEF u

(* A pair of the page lifts no rule that is disabled in any table.          *)
LEMMA OfferedAreEnabled ==
  ASSUME LoopInv, NamesApart, NEW v \in 1 .. Systems,
         NEW pair, pair \in ToSet(page.bypassed) \cup ToSet(page.unreachable)
  PROVE  ~(pair[1] \in ToSet(out[v].order) /\ pair[1] \in out[v].off)
<1>1. TypeOK /\ page = Page(source, out) /\ source \in Sources
  BY LoopInvTypes DEF LoopInv, Replays
<1>2. \A w \in 1 .. Systems : out[w].order \in Seq(Names)
  BY <1>1 DEF TypeOK, RuleTables
<1>3. PICK act : \E k \in DOMAIN Lifts(source, out, act) : pair = Lifts(source, out, act)[k]
  BY <1>1 DEF Page, ToSet
<1>4. PICK w \in 1 .. Systems : \E j \in HiddenAt(source[w].rules, out[w], act) :
        pair[1] = out[w].order[j]
  BY <1>2, <1>3, LiftsFromHidden
<1>5. PICK j \in DOMAIN out[w].order : Enabled(out[w], j) /\ pair[1] = out[w].order[j]
  BY <1>4 DEF HiddenAt, DeadAt
<1>6. CASE w = v
  BY <1>5, <1>6 DEF Enabled
<1>7. CASE w # v
  <2>1. pair[1] \in ToSet(source[w].table.order)
    BY <1>1, <1>5 DEF TypeOK, ToSet
  <2>2. pair[1] \notin ToSet(source[v].table.order)
    BY <1>1, <1>7, <2>1 DEF NamesApart
  <2> QED BY <1>1, <2>2 DEF TypeOK
<1> QED BY <1>6, <1>7

(* Lifting what the page offers keeps every disabled rule covered.          *)
LEMMA LiftingKeepsCovered ==
  ASSUME NamesApart, LoopInv, DisabledCovered, NEW pairs, IsList(pairs),
         ToSet(pairs) \subseteq ToSet(page.bypassed) \cup ToSet(page.unreachable),
         FixOrder(pairs)
  PROVE  DisabledCovered'
<1>1. source' = source /\ TypeOK
  BY LoopInvTypes DEF FixOrder, Convert
<1> SUFFICES ASSUME NEW v \in 1 .. Systems, NEW i \in DOMAIN out'[v].order,
                    out'[v].order[i] \in out'[v].off \ source[v].table.off
             PROVE  CoveredAbove(source[v].rules, out'[v], i)
  BY <1>1 DEF DisabledCovered, CoveredAbove
<1> DEFINE u == out'[v]
           t == out[v]
           d == u.order[i]
           rules == source[v].rules
           S == ToSet(t.order)
<1>2. PICK more : /\ IsList(more) /\ ToSet(more) \subseteq ToSet(pairs)
                  /\ u.order = Replayed(t.order, more) /\ u.off = t.off
  BY ReorderingOutput
<1>3. Listing(t.order, S)
  BY <1>1 DEF TypeOK, RuleTables, Listing
<1> HIDE DEF u, t, S
<1>4. Listing(u.order, S)
  BY <1>2, <1>3, ListLength, ReplayedListing
<1>5. i \in DOMAIN u.order /\ d \in u.off \ source[v].table.off
  BY DEF u
<1>6. d \in S
  BY <1>4, <1>5 DEF Listing, ToSet
<1>7. PICK j \in DOMAIN t.order : t.order[j] = d
  BY <1>6 DEF S, ToSet
<1> HIDE DEF d, rules
<1>8. CoveredAbove(rules, t, j)
  BY <1>2, <1>5, <1>7 DEF DisabledCovered, t, rules
<1>9. PICK k \in 1 .. j - 1 :
        /\ Enabled(t, k)
        /\ \A f \in Flows : RuleMatches(rules[d], f) => RuleMatches(rules[t.order[k]], f)
  BY <1>7, <1>8 DEF CoveredAbove
<1> DEFINE x == t.order[k]
<1>10. k \in DOMAIN t.order /\ k < j /\ Above(t.order, x, d)
  <2>1. DOMAIN t.order = 1 .. Len(t.order) /\ Len(t.order) \in Nat
    BY <1>3 DEF Listing
  <2>2. k \in DOMAIN t.order /\ k < j
    BY <1>7, <1>9, <2>1
  <2> QED BY <1>7, <2>2 DEF Above
<1>11. ASSUME NEW n \in DOMAIN more PROVE d # more[n][1]
  <2>1. more[n] \in ToSet(page.bypassed) \cup ToSet(page.unreachable)
    BY <1>2 DEF ToSet
  <2>2. ~(more[n][1] \in S /\ more[n][1] \in t.off)
    BY <2>1, OfferedAreEnabled DEF S, t
  <2> QED BY <1>2, <1>5, <1>6, <2>2
<1> HIDE DEF x
<1>12. Above(u.order, x, d)
  BY <1>2, <1>3, <1>10, <1>11, ReplayedKeepsAbove
<1>13. PICK a, b \in DOMAIN u.order : a < b /\ u.order[a] = x /\ u.order[b] = d
  BY <1>12 DEF Above
<1>14. b = i
  BY <1>4, <1>5, <1>13 DEF Listing, Distinct, d
<1>15. a \in 1 .. i - 1
  <2>1. DOMAIN u.order = 1 .. Len(u.order) /\ Len(u.order) \in Nat
    BY <1>4 DEF Listing
  <2> QED BY <1>13, <1>14, <2>1
<1>16. Enabled(u, a)
  BY <1>2, <1>9, <1>13 DEF Enabled, x
<1>17. CoveredAbove(rules, u, i)
  BY <1>9, <1>13, <1>14, <1>15, <1>16 DEF CoveredAbove, x, d
<1> QED BY <1>17 DEF u, rules

(* The invariant is inductive when no earlier page is kept open.            *)
LEMMA HarmlessInvInductive ==
  ExactSources /\ NamesApart /\ OldTabs = FALSE => (Spec => []HarmlessInv)
<1> SUFFICES ASSUME ExactSources, NamesApart, OldTabs = FALSE
             PROVE  Spec => []HarmlessInv
  OBVIOUS
<1>1. Init => HarmlessInv
  BY LoopInvInit, NothingDisabled DEF Init, NoFixes, HarmlessInv
<1>2. HarmlessInv /\ [Next]_vars => HarmlessInv'
  <2> SUFFICES ASSUME HarmlessInv, [Next]_vars PROVE HarmlessInv'
    OBVIOUS
  <2>1. LoopInv /\ LoopInv' /\ old = EmptyPage /\ DisabledCovered
    BY LoopInvStep DEF HarmlessInv
  <2>2. CASE UNCHANGED vars
    BY <2>1, <2>2 DEF vars, HarmlessInv, DisabledCovered, CoveredAbove
  <2>3. ASSUME NEW ex \in Exclusions, Wizard(ex) PROVE HarmlessInv'
    <3>1. form'.disable = {} /\ old' = old
      BY <2>3 DEF Wizard, Convert, NoFixes
    <3>2. (LoopInv /\ form.disable = {} => DisabledCovered)'
      BY NothingDisabled, PTL
    <3> QED BY <2>1, <3>1, <3>2 DEF HarmlessInv
  <2>4. ~KeepTab
    BY DEF KeepTab
  <2>5. ASSUME NEW tab \in { page, old }, Click(tab) PROVE HarmlessInv'
    <3>1. old' = old
      BY <2>5 DEF Click, DisableDead, LiftDeny, LiftAccept, FixAll
    <3>2. tab = page
      <4>1. ~Click(EmptyPage)
        <5>1. EmptyPage.shadowed = {} /\ EmptyPage.bypassed = << >>
              /\ EmptyPage.unreachable = << >> /\ << >> \o << >> = << >>
          BY DEF EmptyPage
        <5> QED BY <5>1 DEF Click, DisableDead, FixAll
      <4> QED BY <2>1, <2>5, <4>1
    <3>3. IsList(page.bypassed) /\ IsList(page.unreachable)
      BY <2>1 DEF LoopInv, OffersLists
    <3>4. CASE DisableDead(page)
      BY <2>1, <3>1, <3>4, DisablingKeepsCovered DEF HarmlessInv
    <3>5. ASSUME NEW x \in ToSet(page.bypassed) \cup ToSet(page.unreachable),
                 FixOrder(<< x >>)
          PROVE  HarmlessInv'
      <4>1. IsList(<< x >>) /\ ToSet(<< x >>) = { x }
        BY OneList DEF ToSet
      <4> QED BY <2>1, <3>1, <3>5, <4>1, LiftingKeepsCovered DEF HarmlessInv
    <3>6. CASE FixAll(page)
      <4> DEFINE a == page.bypassed
                 b == page.unreachable
      <4>1. a \in Seq(ToSet(a) \cup ToSet(b)) /\ b \in Seq(ToSet(a) \cup ToSet(b))
        BY <3>3, ListLength
      <4> HIDE DEF a, b
      <4>2. ToSet(a \o b) \subseteq ToSet(a) \cup ToSet(b)
        <5>1. a \o b \in Seq(ToSet(a) \cup ToSet(b))
          BY <4>1
        <5> QED BY <5>1 DEF ToSet
      <4>3. IsList(a \o b) /\ FixOrder(a \o b)
        BY <3>3, <3>6, ConcatList DEF FixAll, a, b
      <4> QED BY <2>1, <3>1, <4>2, <4>3, LiftingKeepsCovered DEF HarmlessInv, a, b
    <3>7. ASSUME NEW i \in DOMAIN page.bypassed, LiftDeny(page, page.bypassed[i])
          PROVE  HarmlessInv'
      BY <3>5, <3>7 DEF LiftDeny, ToSet
    <3>8. ASSUME NEW i \in DOMAIN page.unreachable, LiftAccept(page, page.unreachable[i])
          PROVE  HarmlessInv'
      BY <3>5, <3>8 DEF LiftAccept, ToSet
    <3> QED BY <2>5, <3>2, <3>4, <3>6, <3>7, <3>8 DEF Click
  <2> QED BY <2>2, <2>3, <2>4, <2>5 DEF Next
<1> QED BY <1>1, <1>2, PTL DEF Spec

(* Enabling again what the user disabled would change no verdict, however   *)
(* many fixes have been merged and replayed since: when every rule of the   *)
(* source is exact, no two virtual systems name a rule alike and only the   *)
(* current result's tab is used.                                            *)
THEOREM DisablesStayHarmless ==
  ExactSources /\ NamesApart /\ OldTabs = FALSE => (Spec => []DisabledStayHarmless)
<1>1. HarmlessInv => DisabledStayHarmless
  <2> SUFFICES ASSUME HarmlessInv, NEW v \in 1 .. Systems
               PROVE  Accepted(source[v].rules, [out[v] EXCEPT !.off = source[v].table.off])
                        = Traffic(v)
    BY DEF DisabledStayHarmless
  <2> DEFINE t == out[v]
             u == [out[v] EXCEPT !.off = source[v].table.off]
  <2>1. TypeOK /\ LoopInv /\ DisabledCovered
    BY LoopInvTypes DEF HarmlessInv
  <2>2. t \in RuleTables /\ t.order \in Seq(Names)
    BY <2>1 DEF TypeOK, RuleTables
  <2>3. u.order = t.order /\ u.off = source[v].table.off
    BY <2>2 DEF RuleTables
  <2>4. \A i \in DOMAIN t.order : Enabled(t, i) => Enabled(u, i)
    <3>1. /\ source[v].table.off \ form.exclude \subseteq t.off
          /\ ToSet(t.order) \cap form.exclude = {}
      BY <2>1, OutputOfForm DEF TypeOK
    <3> HIDE DEF t, u
    <3> QED BY <2>3, <3>1 DEF Enabled, ToSet
  <2>5. \A i \in DOMAIN t.order :
          Enabled(u, i) /\ ~Enabled(t, i) => CoveredAbove(source[v].rules, t, i)
    BY <2>1, <2>3 DEF DisabledCovered, Enabled
  <2> HIDE DEF t, u
  <2>6. Accepted(source[v].rules, u) = Accepted(source[v].rules, t)
    BY <2>2, <2>3, <2>4, <2>5, CoveredDecideNothing
  <2> QED BY <2>6 DEF t, u, Traffic
<1> QED BY <1>1, HarmlessInvInductive, PTL
=============================================================================

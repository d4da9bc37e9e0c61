---------------------------- MODULE MCRuleFixes ----------------------------
(* Small rule tables for RuleFixes: every table of three rules over a few   *)
(* match criteria that contain, overlap and miss one another.               *)
EXTENDS RuleFixes

CONSTANTS r1, r2, r3, r4

Net(ips) == [type |-> "net", ips |-> ips]
Span(lo, hi) == [type |-> "range", ips |-> lo .. hi]
Fqdn(ips) == [type |-> "fqdn", ips |-> ips]
Tcp(lo, hi) == [proto |-> "tcp", lo |-> lo, hi |-> hi]

Rule(act, from, src, svc) ==
  [act |-> act, from |-> from, to |-> {}, src |-> src, srcNeg |-> FALSE,
   dst |-> {}, dstNeg |-> FALSE, svc |-> svc, when |-> {}]

Flow(from, src, proto, port, ctx) ==
  [from |-> from, to |-> "wan", src |-> src, dst |-> 9,
   proto |-> proto, port |-> port, ctx |-> ctx]

TcpFlows ==
  { Flow(z, ip, "tcp", p, "day") : z \in {"lan", "dmz"}, ip \in 1 .. 3, p \in {80, 443} }

(* The match criteria, as the arguments of Rule.                            *)
Matches == { << {}, {}, {} >>,
             << {"lan"}, { Net({1, 2}) }, {} >>,
             << {"lan"}, { Net({1}) }, { Tcp(80, 80) } >>,
             << {}, { Net({1}), Net({2, 3}) }, { Tcp(80, 443) } >>,
             << {"lan", "dmz"}, { Fqdn({1}) }, { Tcp(80, 80) } >> }
WideMatches == { << {}, { Net({1, 2}) }, {} >>,
                 << {"lan"}, { Net({1}) }, { Tcp(80, 80) } >>,
                 << {"lan"}, { Net({1}), Net({2, 3}) }, { Tcp(80, 443) } >> }

(* Everything but one host.                                                 *)
NegatedRules ==
  { [Rule(a, {}, { Net({2}) }, {}) EXCEPT !.srcNeg = TRUE] : a \in {"accept", "deny"} }

RulesOver(ms) == { Rule(a, m[1], m[2], m[3]) : a \in {"accept", "deny"}, m \in ms }

Table(order, off) == [order |-> order, off |-> off]
System(order, off, rules) == [table |-> Table(order, off), rules |-> rules]

(* One virtual system of four rules, the top one possibly negated.          *)
PlainSources ==
  { << System(<< r1, r2, r3, r4 >>, {}, [n \in {r1, r2, r3, r4} |-> IF n = r1 THEN r ELSE rs[n]]) >> :
      r \in RulesOver(WideMatches) \cup NegatedRules,
      rs \in [{r2, r3, r4} -> RulesOver(WideMatches)] }

(* Three rules of every kind, the first one disabled or not.                *)
MixedSources ==
  { << System(<< r1, r2, r3 >>, off, rs) >> :
      off \in { {}, {r1} }, rs \in [{r1, r2, r3} -> RulesOver(Matches)] }

FirstExcluded == { {}, {r1} }
NoExclusion == { {} }

-----------------------------------------------------------------------------
(* What the plain tables leave out.                                         *)

(* Two hosts above the address range that runs from one to the other.       *)
RangeSources ==
  LET first == Rule("accept", {}, { Net({1}), Net({3}) }, {})
      second == Rule("accept", {}, { Span(1, 3) }, {})
  IN  { << System(<< r1, r2 >>, {}, [n \in {r1, r2} |-> IF n = r1 THEN first ELSE second]) >> }
=============================================================================

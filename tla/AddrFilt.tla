------------------------------ MODULE AddrFilt ------------------------------
(***************************************************************************)
(* addrfilt.rs: the access table, a trie that consumes Nbits of an address *)
(* per level (4 in the code).  A tree is a function from the nodes that    *)
(* exist (paths: sequences of digits) to their states; a node is extended  *)
(* exactly when its children exist.  One family is modelled: set_subnet_   *)
(* keeps a tree for each.                                                  *)
(***************************************************************************)
EXTENDS Integers, Sequences, FiniteSets, SequencesExt

CONSTANTS Nbits,        \* NBITS: bits per level
          Levels,       \* an address has Nbits * Levels bits
          Subnets,      \* the subnets of the commands: [ip, bits]
          MaxRules      \* bound: commands

AddrBits == Nbits * Levels
Digits == 0..(2^Nbits - 1)
Addrs == 0..(2^AddrBits - 1)

VARIABLES tree,         \* AuthTable: the nodes and their states
          rules         \* history: the commands, in order

adfvars == <<tree, rules>>

\* get_subnet, for level l = 0, 1, ...
GetSubnet(ip, l) == (ip \div 2^(AddrBits - Nbits * (l + 1))) % 2^Nbits

PathTo(ip, depth) == [l \in 1..depth |-> GetSubnet(ip, l - 1)]

\* open: children that inherit, unless the node is already extended.
Open(t, p) == IF Append(p, 0) \in DOMAIN t THEN t
              ELSE [q \in DOMAIN t \cup {Append(p, d) : d \in Digits} |->
                      IF q \in DOMAIN t THEN t[q] ELSE "as_parent"]

OpenTo(t, ip, depth) ==
    LET f[l \in 0..depth] == IF l = 0 THEN t ELSE Open(f[l - 1], PathTo(ip, l - 1))
    IN f[depth]

\* The nodes that set_subnet sets: one, or the siblings a partial level covers.
Targets(ip, bits) ==
    LET depth == bits \div Nbits
        rest  == bits % Nbits
        n     == 2^(Nbits - rest)
        base  == (GetSubnet(ip, depth) \div n) * n
    IN IF rest = 0 THEN {PathTo(ip, depth)}
       ELSE {Append(PathTo(ip, depth), d) : d \in base..(base + n - 1)}

\* set_subnet, with close for the nodes below those it sets.
SetSubnet(t, ip, bits, state, delete_children) ==
    LET opened == OpenTo(t, ip, (bits + Nbits - 1) \div Nbits)
        set    == Targets(ip, bits)
        kept   == {q \in DOMAIN opened :
                     delete_children => \A p \in set : q = p \/ ~IsPrefix(p, q)}
    IN [q \in kept |-> IF q \in set THEN state ELSE opened[q]]

\* check_ip: the last explicit state on the way down.
CheckIp(t, ip) ==
    LET walk[l \in 0..Levels, st \in {"deny", "allow"}] ==
            LET p    == PathTo(ip, l)
                here == IF t[p] # "as_parent" THEN t[p] ELSE st
            IN IF l < Levels /\ Append(p, 0) \in DOMAIN t THEN walk[l + 1, here] ELSE here
    IN walk[0, "deny"] = "allow"

\* any_allowed: some leaf of the tree is allowed, by itself or by inheritance.
AnyAllowed(t) ==
    LET up[p \in DOMAIN t] == IF t[p] # "as_parent" \/ p = <<>> THEN t[p] ELSE up[Front(p)]
    IN \E p \in DOMAIN t : Append(p, 0) \notin DOMAIN t /\ up[p] = "allow"

----------------------------------------------------------------------------
AdfInit == tree = [p \in {<<>>} |-> "deny"] /\ rules = <<>>

\* allow, allow_all, deny, deny_all; a width out of range changes nothing.
Command(s, state, all) ==
    /\ Len(rules) < MaxRules
    /\ s.bits \in 0..AddrBits
    /\ tree' = SetSubnet(tree, s.ip, s.bits, state, all)
    /\ rules' = Append(rules, [ip |-> s.ip, bits |-> s.bits, state |-> state, all |-> all])

AdfNext == \E s \in Subnets, state \in {"allow", "deny"}, all \in BOOLEAN : Command(s, state, all)

AdfSpec == AdfInit /\ [][AdfNext]_adfvars

----------------------------------------------------------------------------
(* Properties *)

\* What the commands mean.  A rule covers an address when they agree on its
\* bits; its rank is the level it is kept at.  A rule is in force unless a
\* later "all" rule that covers the whole of it has cleared it.  The address
\* gets the state of the deepest rule in force, of the latest at that depth.
Covers(r, ip) == ip \div 2^(AddrBits - r.bits) = r.ip \div 2^(AddrBits - r.bits)
Rank(r) == (r.bits + Nbits - 1) \div Nbits
Granted(ip) ==
    LET covering == {k \in DOMAIN rules : Covers(rules[k], ip)}
        force    == {k \in covering : \A j \in covering :
                       j > k /\ rules[j].all => Rank(rules[k]) < Rank(rules[j])}
        better(j, k) == \/ Rank(rules[j]) > Rank(rules[k])
                        \/ Rank(rules[j]) = Rank(rules[k]) /\ j > k
    IN \E k \in force : rules[k].state = "allow" /\ \A j \in force : j = k \/ better(k, j)

\* is_allowed answers what the commands given so far mean, for every address,
\* in whatever order wider and narrower subnets were allowed and denied: the
\* nodes opened, overwritten and pruned on the way change no other address.
AdfDecisionExact == \A ip \in Addrs : CheckIp(tree, ip) = Granted(ip)

\* is_any_allowed, which decides whether the server socket is opened at all,
\* is true exactly when some address is allowed: a tree whose allowed subnets
\* are all overridden by narrower rules counts as closed.
AdfAnyExact == AnyAllowed(tree) <=> \E ip \in Addrs : CheckIp(tree, ip)

=============================================================================

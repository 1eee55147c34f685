----------------------------- MODULE SourceMap -----------------------------
(***************************************************************************)
(* What the table of NTP sources promises (ntp_sources.rs): a finite map   *)
(* from IP addresses to ports, at most MaxSources of them.  An address is  *)
(* added only when it is not there, a change moves one source to an        *)
(* address no other source has, and only removals lose sources.            *)
(***************************************************************************)
EXTENDS FiniteSets, Integers
CONSTANTS Ips, Ports, MaxSources
VARIABLE map

Known == DOMAIN map
Extended(ip, port) == [i \in Known \union {ip} |-> IF i = ip THEN port ELSE map[i]]
Without(S) == [i \in Known \ S |-> map[i]]

Init == map = [i \in {} |-> 0]

Add(ip, port) ==
  /\ ip \notin Known /\ Cardinality(Known) < MaxSources
  /\ map' = Extended(ip, port)

Change(old, new, port) ==
  /\ old \in Known /\ (new = old \/ new \notin Known)
  /\ map' = [i \in (Known \ {old}) \union {new} |-> IF i = new THEN port ELSE map[i]]

Remove(S) == map' = Without(S)

Next ==
  \/ \E ip \in Ips, port \in Ports : Add(ip, port)
  \/ \E old, new \in Ips, port \in Ports : Change(old, new, port)
  \/ \E S \in SUBSET Known : Remove(S)

Spec == Init /\ [][Next]_map
=============================================================================

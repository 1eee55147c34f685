--------------------------- MODULE TimestampStore ---------------------------
(***************************************************************************)
(* What the interleaved mode of the server needs from the timestamp map of *)
(* clientlog.rs: a store from receive timestamps to the state of their     *)
(* transmit timestamp.  The store may forget entries at any save, but a    *)
(* timestamp just saved is in it, a receive timestamp seen twice is        *)
(* disabled, and no entry ever changes into the entry of another packet.   *)
(***************************************************************************)
CONSTANTS Rx, Status
VARIABLE store

Known == DOMAIN store

Init == store = [rx \in {} |-> "none"]

\* A new receive timestamp: kept, possibly at the expense of others.
Save(rx, status) ==
  /\ rx \notin Known
  /\ rx \in DOMAIN store' /\ DOMAIN store' \subseteq Known \union {rx}
  /\ store' = [r \in DOMAIN store' |-> IF r = rx THEN status ELSE store[r]]

Disable(rx) ==
  /\ rx \in Known
  /\ store' = [store EXCEPT ![rx] = "disabled"]

Update(rx, status) ==
  /\ rx \in Known /\ store[rx] # "disabled"
  /\ store' = [store EXCEPT ![rx] = status]

Clear == store' = [rx \in {} |-> "none"]

Next ==
  \/ \E rx \in Rx, status \in Status \ {"disabled"} : Save(rx, status) \/ Update(rx, status)
  \/ \E rx \in Rx : Disable(rx)
  \/ Clear

Spec == Init /\ [][Next]_store
=============================================================================

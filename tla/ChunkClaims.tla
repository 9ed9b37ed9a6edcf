------------------------------ MODULE ChunkClaims ------------------------------
(***************************************************************************)
(* Claims and leases of chunk records in scripts/build_hazard_layers.py,   *)
(* shared by the reducer's execution plan and by the plan of trajectory    *)
(* generation.  A claim is part of the chunk's record in a plan file.      *)
(***************************************************************************)
EXTENDS Naturals

CONSTANTS
  Owner,         \* owner labels
  NoOwner,       \* owner_id None
  LeaseSeconds   \* --chunk-claim-ttl-seconds

ASSUME LeaseAssumption == LeaseSeconds \in Nat \ {0} /\ NoOwner \notin Owner

Ownership ==
  [state : {"unclaimed", "claimed", "released", "stale"},
   owner : Owner \cup {NoOwner}, expires : Nat]

\* chunk_ownership_state: a record nobody has claimed.
Unclaimed == [state |-> "unclaimed", owner |-> NoOwner, expires |-> 0]

\* claim_chunk.
Claimed(owner, now) ==
  [state |-> "claimed", owner |-> owner, expires |-> now + LeaseSeconds]

\* The ownership release_chunk writes; nothing reads a released lease.
Released(owner) == [state |-> "released", owner |-> owner, expires |-> 0]

\* mark_chunk_stale_release: the owner and the lease stay, the state changes.
MarkStale(r) == [r EXCEPT !.ownership.state = "stale"]

\* is_stale_claim: a lease that ends now is still live.
IsStale(r, now) ==
  /\ r.ownership.state \in {"claimed", "stale"}
  /\ r.ownership.expires < now

\* is_claim_active_for_other_owner.
ActiveForOther(r, owner, now) ==
  /\ r.ownership.owner # owner
  /\ r.ownership.state = "claimed"
  /\ ~IsStale(r, now)
===============================================================================

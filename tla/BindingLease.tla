---------------------------- MODULE BindingLease ----------------------------
(***************************************************************************)
(* What the extension promises about a fixed value, whoever calls it and   *)
(* in whatever order: a lease.  A binding leases a value from the moment   *)
(* it was obtained; the same value is not leased anew by traffic, however  *)
(* often the upstream repeats it, and no change of a rule restarts its     *)
(* clock ("the same token does not extend the local countdown", README).   *)
(***************************************************************************)
EXTENDS Naturals

CONSTANTS
  Bindings,   \* bindings
  Groups,     \* the bindings of one model, for every model
  Values,     \* values
  Lifetimes,  \* lifetimes the rules may give
  None        \* no lease

VARIABLES
  clock,
  lease,      \* binding -> None or value, start and end of its lease
  disk        \* the leases a new process would find

Leased(b) == lease[b] # None
Running(b) == Leased(b) /\ lease[b].until > clock

Init == clock \in Nat /\ lease = [b \in Bindings |-> None] /\ disk = lease

(* A value that the binding does not hold already.  Another binding may    *)
(* have to make room.                                                      *)
Grant(b, v, ttl) ==
  /\ Leased(b) => lease[b].value # v
  /\ \E dropped \in SUBSET (Bindings \ {b}) :
       lease' = [x \in Bindings |->
         IF x = b THEN [value |-> v, since |-> clock, until |-> clock + ttl]
         ELSE IF x \in dropped THEN None ELSE lease[x]]
  /\ disk' \in {disk, lease'}
  /\ UNCHANGED clock

Revoke(revoked) ==
  /\ lease' = [b \in Bindings |-> IF b \in revoked /\ Leased(b)
                                  THEN [lease[b] EXCEPT !.until = 0] ELSE lease[b]]
  /\ UNCHANGED <<clock, disk>>

(* The administrator types a value in. *)
Override(b, v, ttl) ==
  /\ Leased(b)
  /\ lease' = [lease EXCEPT ![b] = [value |-> v, since |-> clock, until |-> clock + ttl]]
  /\ UNCHANGED <<clock, disk>>

(* l is c's lease under another lifetime. *)
Recounted(c, l) ==
  /\ Running(c)
  /\ l.value = lease[c].value /\ l.since = lease[c].since
  /\ l.until > clock
  /\ \E ttl \in Lifetimes : l.until <= l.since + ttl

(* A change of rules: a lease is kept, dropped, or recounted from its      *)
(* start, possibly moving to another binding of the same model.            *)
Edit ==
  /\ \A b \in Bindings :
       \/ lease'[b] \in {lease[b], None}
       \/ \E group \in Groups : b \in group /\ \E c \in group : Recounted(c, lease'[b])
  /\ UNCHANGED <<clock, disk>>

Write == disk' = lease /\ UNCHANGED <<clock, lease>>

(* A new process takes over what was written, or part of it. *)
Reload ==
  /\ \A b \in Bindings : lease'[b] \in {disk[b], None}
  /\ UNCHANGED <<clock, disk>>

Pass == clock' = clock + 1 /\ UNCHANGED <<lease, disk>>

Next ==
  \/ \E b \in Bindings, v \in Values, ttl \in Lifetimes : Grant(b, v, ttl) \/ Override(b, v, ttl)
  \/ \E revoked \in SUBSET Bindings : Revoke(revoked)
  \/ Edit \/ Write \/ Reload \/ Pass

Spec == Init /\ [][Next]_<<clock, lease, disk>>
=============================================================================

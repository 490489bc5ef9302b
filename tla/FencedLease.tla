----------------------------- MODULE FencedLease -----------------------------
(***************************************************************************)
(* What a table of leases promises to the engines that share it, with no   *)
(* clock, no rows and no transactions.  Every key has at most one current  *)
(* grant.  A grant is an identity (an owner and an id); ids of one key are *)
(* never used twice.  A grant starts live or already lapsed (its holder    *)
(* was slow to get the write lock), may lapse, and may be extended again   *)
(* by its holder as long as nobody else was granted the key; once released *)
(* it is over.  A key is granted only while its current grant is not live, *)
(* and the grant it replaces is fenced off for ever.                       *)
(***************************************************************************)
EXTENDS Naturals

CONSTANTS
    Keys,      \* what is leased
    Owners,    \* who may hold a lease
    NoOwner    \* the owner of a key that was never granted

VARIABLES
    grant      \* grant[k]: the current grant of key k

Status == {"never", "live", "lapsed", "released"}

Grants == [owner : Owners \cup {NoOwner}, id : Nat, status : Status]

NoGrant == [owner |-> NoOwner, id |-> 0, status |-> "never"]

Init == grant = [k \in Keys |-> NoGrant]

(* A new identity for k.  Its id is the next one, larger than every id k   *)
(* ever had, so an earlier grant can never be mistaken for it.             *)
Grant(k, o, s) ==
    /\ grant[k].status # "live"
    /\ s \in {"live", "lapsed"}
    /\ grant' = [grant EXCEPT ![k] =
                    [owner |-> o, id |-> grant[k].id + 1, status |-> s]]

(* The holder of the current grant of k extends it. *)
Extend(k, s) ==
    /\ grant[k].status \in {"live", "lapsed"}
    /\ s \in {"live", "lapsed"}
    /\ grant' = [grant EXCEPT ![k].status = s]

(* The holder of the current grant of k gives it up. *)
Release(k) ==
    /\ grant[k].status # "never"
    /\ grant' = [grant EXCEPT ![k].status = "released"]

(* Time passes: the grants of the keys in K lapse. *)
Lapse(K) ==
    /\ \A k \in K : grant[k].status = "live"
    /\ grant' = [k \in Keys |-> IF k \in K THEN [grant[k] EXCEPT !.status = "lapsed"]
                                           ELSE grant[k]]

Next ==
    \/ \E k \in Keys, o \in Owners, s \in Status : Grant(k, o, s)
    \/ \E k \in Keys, s \in Status : Extend(k, s)
    \/ \E k \in Keys : Release(k)
    \/ \E K \in SUBSET Keys : Lapse(K)

Spec == Init /\ [][Next]_grant
=============================================================================

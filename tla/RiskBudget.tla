----------------------------- MODULE RiskBudget -----------------------------
(***************************************************************************)
(* What the risk engine promises the execution side, without the ledger,   *)
(* the index of keys, the clock and the guards that keep the promise.      *)
(* Grants are numbered as they are made.  A grant holds lots of each asset *)
(* until it is taken back, once and for good.  A new grant never shares    *)
(* its key with one that is still held, and never takes what is held of an *)
(* asset past Limit; a Limit that is not positive is no limit.             *)
(***************************************************************************)
EXTENDS Sequences, PrefixSums

CONSTANTS Assets, Keys, Limit

VARIABLE grants   \* a sequence of [key, lots of each asset, held]

HeldLots(a) ==
  PrefixSum([i \in 1 .. Len(grants) |-> IF grants[i].held THEN grants[i].lots[a] ELSE 0], Len(grants))

Init == grants = << >>

\* Some of the held grants, possibly none, are taken back; the others do not change.
SomeTakenBack ==
  \A i \in 1 .. Len(grants) :
    \/ grants'[i] = grants[i]
    \/ grants[i].held /\ grants'[i] = [grants[i] EXCEPT !.held = FALSE]

TakeBack ==
  /\ Len(grants') = Len(grants)
  /\ SomeTakenBack

\* Expired grants may be taken back in the step that makes a new one.
Grant(new) ==
  /\ Len(grants') = new
  /\ SomeTakenBack
  /\ grants'[new].held
  /\ grants'[new].key \in Keys
  /\ grants'[new].lots \in [Assets -> Nat]
  /\ \A i \in 1 .. Len(grants) : grants'[i].held => grants'[i].key # grants'[new].key
  /\ Limit > 0 => \A a \in Assets : HeldLots(a)' <= Limit

Next == TakeBack \/ Grant(Len(grants) + 1)

Spec == Init /\ [][Next]_grants
=============================================================================

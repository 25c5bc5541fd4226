---- MODULE MCAccounts ----
(* The seeded administrator and one other account, in any state earlier       *)
(* requests may have left it in, under a few requests and one mailed link.    *)
EXTENDS Accounts, TLC

CONSTANTS root, ana, bo, q1, q2

MCFirstEmail == (root :> "first") @@ (ana :> "second") @@ (bo :> "third")
B(address, on, off) == [email |-> address, on |-> on, off |-> off]
MCBodies == {B("third", {}, {}),
             B(Keep, {"admin"}, {}), B(Keep, {}, {"admin"}),
             B(Keep, {"disabled"}, {}), B(Keep, {}, {"disabled"}),
             B(Keep, {"lock"}, {"disabled"}), B(Keep, {}, {"lock"}),
             B(Keep, {}, {"local"})}
Symmetric == Permutations({q1, q2})
====

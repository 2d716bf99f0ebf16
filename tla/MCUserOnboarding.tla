-------------------------- MODULE MCUserOnboarding --------------------------
(* Keys for UserOnboarding: of two partners, of none, and one without scope. *)
EXTENDS UserOnboarding, TLC

CONSTANTS p1, p2, k1, k2, k0, kx, c1, c2, e1

MCKeyPartner == k1 :> p1 @@ k2 :> p2 @@ k0 :> Null @@ kx :> p1

Create(key, external) == [key |-> key, kind |-> "create", external |-> external]

MCAsks ==
    c1 :> {Create(k1, e1)} @@
    c2 :> {Create(k2, e1), Create(k2, Malformed), Create(k0, Malformed),
           Create(kx, e1), [key |-> k1, kind |-> "usage", external |-> Malformed]}

=============================================================================

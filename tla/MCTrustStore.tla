--------------------------- MODULE MCTrustStore ---------------------------
(***************************************************************************)
(* Two connect processes and two servers with self-signed certificates;    *)
(* one of them may also come with a certificate of a CA.                   *)
(***************************************************************************)
EXTENDS TrustStore, TLC

CONSTANTS s1, s2, c1, c2, ca, n1

MCPresents == (s1 :> {c1, ca}) @@ (s2 :> {c2})

\* A fingerprint is given with the profile, and replaced by another later.
MCAdds == {[name |-> n1, host |-> s1, fingerprint |-> c1],
           [name |-> n1, host |-> None, fingerprint |-> ca]}

Symmetry == Permutations(Procs)
=============================================================================

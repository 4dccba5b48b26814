---------------------------- MODULE MCTokenStore ----------------------------
(* Small instances of the token store.                                     *)
EXTENDS TokenStore

\* A one-time token, besides the reusable ones with an expiry that jobs get.
OneTime == {[exp |-> FALSE, one |-> TRUE]}

\* Raw tokens are interchangeable random values.
Symmetry == Permutations(Tokens)
=============================================================================

--------------------------- MODULE MCUserAccounts ---------------------------
(* Two Google users; one changes address and name, one token is unverified,  *)
(* and the second user is given the address the first one gave up.           *)
EXTENDS UserAccounts, TLC
CONSTANTS ann, bob, e1, e2, n1, n2, c1, c2, c3

payload(u, e, n, ok) == [id |-> u, email |-> e, name |-> n, email_verified |-> ok]
McPayloads == {payload(ann, e1, n1, TRUE), payload(ann, e2, n2, TRUE),
               payload(bob, e1, n1, TRUE), payload(bob, e2, n1, FALSE)}

CallSymmetry == Permutations({c1, c2, c3})
=============================================================================

----------------------------- MODULE MCAccounts -----------------------------
(***************************************************************************)
(* Small instances of Accounts.  Requests either overlap, few and without  *)
(* failures, or are served one at a time, more of them and with failures.  *)
(***************************************************************************)
EXTENDS Accounts, TLC

CONSTANTS e1, e2, e3, p1, p2, ann, bob, god, f1, f2

\* f1 has the address of a registered user, f2 has none.
MCFacebookEmail == [f \in Facebooks |-> IF f = f1 THEN e1 ELSE NoEmail]
\* Everybody has a name of their own, or some share one.
MCPeople == {<<ann, e1>>, <<bob, e2>>}
MCNamesakes == {ann, bob} \X Emails \cup {<<god, e1>>}
MCFacebookName == [f \in Facebooks |-> ann]

\* Requests overlap only as long as there are few, without failures, and with
\* Facebook logins only when there are two.
MCNext ==
  /\ Next
  /\ overlapped' => /\ requests' <= 4 /\ codes' <= 1 /\ failures' = 0
                    /\ \A w \in Workers : job'[w].op = "facebook" => requests' <= 2
MCSpec == Init /\ [][MCNext]_vars

MCSymmetry == Permutations(Passwords) \cup Permutations(Workers)
=============================================================================

---------------------------- MODULE Credentials ----------------------------
(***************************************************************************)
(* What credential bootstrap promises, seen from outside: the admin        *)
(* account's password and the one the operator has kept. Passwords may be  *)
(* tried out as long as none is kept; the one that is kept is the          *)
(* account's, and from then on neither of the two ever changes.            *)
(***************************************************************************)
CONSTANTS Passwords, None

VARIABLES account, \* the admin account's password, None before there is one
          kept     \* the password the operator has kept

Init == account \in Passwords \cup {None} /\ kept = None

Establish ==
  /\ kept = None
  /\ account' \in Passwords
  /\ UNCHANGED kept

Keep ==
  /\ kept = None /\ account # None
  /\ kept' = account
  /\ UNCHANGED account

Next == Establish \/ Keep

Spec == Init /\ [][Next]_<<account, kept>>
=============================================================================

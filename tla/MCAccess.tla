----------------------------- MODULE MCAccess -----------------------------
(* Small instances of Access for TLC. *)
EXTENDS Access, TLC

CONSTANTS l1, l2

Symmetry == Permutations(Users) \cup Permutations(Handlers) \cup Permutations(Sessions)
                \cup Permutations(Invitations) \cup Permutations(IngestKeys)

Members == {"update_member", "remove_member"}

(* Each behaviour draws one of these: owners and invitations; an admin;     *)
(* keys and tokens; sign-in.                                                *)
SmallBudgets ==
    {[operations |-> Members \cup {"invite"}, roles |-> {"owner", "viewer"},
      requests |-> 4, logins |-> {}],
     [operations |-> Members \cup {"invite", "revoke_invitation"}, roles |-> {"admin", "developer"},
      requests |-> 3, logins |-> {}],
     [operations |-> Operations \ {"revoke_invitation"}, roles |-> {"admin"},
      requests |-> 4, logins |-> {}],
     [operations |-> {}, roles |-> {}, requests |-> 0, logins |-> {l1, l2}]}
=============================================================================

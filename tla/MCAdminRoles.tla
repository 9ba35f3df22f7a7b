--------------------------- MODULE MCAdminRoles ---------------------------
(* Small instances of AdminRoles: two Super Admins, one with TOTP on, a      *)
(* Moderator, and an address without an account.                             *)
EXTENDS AdminRoles, TLC

CONSTANTS root, peer, mod, hire

MCInitialAdmin ==
    LET signedUp == [NoRow EXCEPT !.role = "SUPER_ADMIN", !.active = TRUE]
    IN  root :> [signedUp EXCEPT !.secret = root, !.enabled = TRUE,
                                 !.codes = backupCodesOf(root)]
        @@ peer :> signedUp
        @@ mod :> [signedUp EXCEPT !.role = "MODERATOR"]
        @@ hire :> NoRow

Symmetry == Permutations(Call)
=============================================================================

------------------------------ MODULE MCInvite ------------------------------
(* Small instances of the listings and of the invitations.                  *)
EXTENDS Invite
CONSTANTS anna, ben, cleo, nobody
MCNames    == {anna, ben, cleo, nobody}
MCAccounts == {anna, ben, cleo}
MCPrefixed == {anna, ben}
MCFiles    == {<<>>, <<anna, ben, cleo>>, <<anna, nobody, ben>>, <<cleo, anna>>}
MCTwo      == {<<anna, nobody>>}
=============================================================================

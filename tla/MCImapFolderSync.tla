-------------------------- MODULE MCImapFolderSync ----------------------------
(* ImapFolderSync on small mailboxes, for TLC: the servers to choose from. *)
EXTENDS ImapFolderSync

AllCodes  == {"UIDVALIDITY", "UIDNEXT"}
NoUidNext == {"UIDVALIDITY"}
===============================================================================

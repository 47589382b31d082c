---------------------------- MODULE MCImapService -----------------------------
(* ImapService with two folders, for TLC.                                  *)
EXTENDS ImapService

CONSTANTS inbox, archive

TwoFolders == {inbox, archive}
===============================================================================

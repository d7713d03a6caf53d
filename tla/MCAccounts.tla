----------------------------- MODULE MCAccounts -----------------------------
(* The requests of the instance: those that work on the user, and those    *)
(* that work on the chats, both with the deletion of the account.          *)
EXTENDS Accounts

UserAndChatRequests ==
    {{"login", "signIn", "block", "unblock", "deleteAccount"},
     {"createSession", "addMessage", "shareMessage", "getShare", "deleteSession",
      "deleteAccount"}}
=============================================================================

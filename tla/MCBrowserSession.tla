--------------------------- MODULE MCBrowserSession --------------------------
EXTENDS BrowserSession, TLC

\* Tabs and accounts are interchangeable, and only invariants are checked.
TabsAndAccounts == Permutations(Tabs) \cup Permutations(Accounts)
=============================================================================

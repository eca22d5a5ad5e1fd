\* Two tabs and two accounts.
CONSTANTS
    Tabs = {t1, t2}
    Accounts = {a, b}
    None = None
    Torn = Torn
SPECIFICATION Spec
SYMMETRY TabsAndAccounts
INVARIANT TabsStayWithAccount
INVARIANT NoTabLeftLoading

CONSTANTS
  Account = {a1}
  NoAccount = NoAccount
  MaxAccounts = 2
  Thread = {t1, t2, t3}
  RegIds = 2
SPECIFICATION Spec
INVARIANT Blocked

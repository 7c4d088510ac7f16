CONSTANTS
  Account = {a1}
  NoAccount = NoAccount
  MaxAccounts = 2
  Thread = {t1, t2, t3}
  RegIds = 2
SPECIFICATION FairSpec
INVARIANTS TypeOK OneKeeper AnswerWillFit ArrivedMeansAnswered
PROPERTIES RegisteredOnlyIfGranted UnregistrationEnds
CONSTRAINT Apart

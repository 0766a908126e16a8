CONSTANTS
  Calls = {c1, c2}
  Temporary = {temp}
  Own = {own}
  JwtLife = 2
  OtpLife = 1
  CodeLife = 1
  LastSecond = 2
  MaxTokens = 2
  Users = {u1, u2}
  PublicKeys = {k1, k2}
  Indexes = {1}
  NoIndex = NoIndex
  Uploads = {q1, q2}
  MaxKeys = 1
  MaxKeyRows = 2
  t1 = t1
  t2 = t2
  TransactionIds = {t1, t2}
  Creators = {r1, r2}
  Items <- SingleAndGroups
  MaxRequests = 3
SPECIFICATION Spec
INVARIANTS SpentStaysSpent VerifiedMeansOwn OneRowPerKey OneActive AnswerTellsWhatIsLeft
SYMMETRY Alike
CHECK_DEADLOCK FALSE

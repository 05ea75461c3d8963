SPECIFICATION FairSpec
CONSTANTS
  Upload = {u1, u2, u3}
  Stem <- MCStem
  Folded <- MCFolded
  DataLen <- MCLen
  Mover = {m1, m2}
  MaxKey = 2
  Phrase = {w1, w2}
  MayBeRubbish = {u3}
  Word16 = 16
  Word32 = 1000
  Garbled = Garbled
  MaxLines = 2
  Offers = {{}, {"STARTTLS", "PLAIN"}, {"LOGIN"}, {"STARTTLS", "LOGIN"}}
  NoOne = NoOne
  Emails = {e1, e2}
  Invites = {i1, i2}
  Legacy = {i2}
  Requests = {r1, r2}
  Passwords = {pw1, pw2}
  MaxFaults = 1
INVARIANTS ArchiveIsWhole MovedFilesOpen SentIsTaken
PROPERTIES PassesEnd LettersEnd KeepsThePromise EntryIsFinished
CHECK_DEADLOCK FALSE

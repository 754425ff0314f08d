CONSTANTS
  q1 = q1
  q2 = q2
  q3 = q3
  plain = plain
  personal = personal
  listed = listed
  Requests = {q1, q2, q3}
  Prompts <- MCPrompts
  PromptOf <- MCPromptOf
  Guard <- MCGuard
  Fingerprint <- MCFingerprint
  Nothing = Nothing
  MaxCopies = 2
  MaxDrops = 2
SPECIFICATION Spec
INVARIANTS
  TypeOK
  AnswersArePaidFor
  UsageAccountedFor
  OneStoryPerRequest
CHECK_DEADLOCK FALSE

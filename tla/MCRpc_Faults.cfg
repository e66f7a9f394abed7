SPECIFICATION MCSpec
CONSTANTS
  NCalls = 3
  FLUSH_CHUNK = 2
  MaxConns = 3
  MaxOpened <- MCMaxOpened
  MaxLost = 1
  Slow = TRUE
  IdemCap = 2
  Langs = {"rust", "py", "go", "ts"}
  Programs <- MCPrograms
  Protocols = {1, 2, 3}
  Misreads = FALSE
  Closing = TRUE
INVARIANTS AnswersOwn EffectsOnceInOrder 
CHECK_DEADLOCK FALSE
 

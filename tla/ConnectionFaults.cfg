\* Breaks, ends of file, done contexts and every answer of the pipeline.
SPECIFICATION LiveSpec
CONSTANTS
  Records = {1, 2, 3, 4}
  MaxElapsedTime = 1
  MaxDelay = 1
  MaxBatch = 2
  MaxLines = 4
INVARIANT AnswerIsTrue
INVARIANT NothingSentTwice
INVARIANT CursorIsHonest
INVARIANT DuplicatesAreOwed
INVARIANT CleanEndIsComplete
PROPERTY Delivers
PROPERTY ReaderExits
PROPERTY CancelReturns
PROPERTY FlushReturns
\* A stream that is over stops.
CHECK_DEADLOCK FALSE

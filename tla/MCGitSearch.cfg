SPECIFICATION SearchSpec
CONSTANTS
  a = a
  b = b
  w = w
  f = f
  Chars <- MCChars
  Expressions <- MCExpressions
  Depth <- MCDepth
  WideChars <- MCWideChars
  Lines <- MCLines
  Queries <- MCQueries
  Files <- MCFiles
  Words <- MCWords
  LineTexts <- MCLineTexts
  Binaries = FALSE
  MaxLines = 2
  MaxBomLines = 1
  MaxCommits = 3
  MayFail = TRUE
INVARIANTS
  LookupMatchesDocuments LiveWordsHaveBits NewLinesAreFound
  SearchesDoNotPanic ResultsAreReadable CandidatesCover FirstMatchIsExact HeadMatchIsShown

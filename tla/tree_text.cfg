SPECIFICATION Spec
CONSTANTS
  Lines <- MCLines
  MaxLines = 6
  Chars <- MCChars
  MaxChars = 6
INVARIANTS TypeOK WrittenReadsBack NothingElseDropped SettingsKeepTheirPath TokensReadBack
CHECK_DEADLOCK FALSE

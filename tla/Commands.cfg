SPECIFICATION CommandsSpec
CONSTANTS
  Fields <- MCFields
  Programs <- MCPrograms
  Asked <- MCAsked
INVARIANTS CommandsTypeOK AnsweredOnce NothingLeftOpen ResetForgets
PROPERTY TimeoutKept

SPECIFICATION SessionSpec
CONSTANTS
  SetPathOK <- MCPath
  Texts <- MCTexts
  Descriptions <- MCDescriptions
  Declarations <- MCDeclarations
  BaseEnvs <- MCBaseEnvs
INVARIANT CheckedIsSent
INVARIANT DescriptionSurvives
INVARIANT RefusedOnlyForMeta
INVARIANT EnvAsDeclared
INVARIANT OuterEnvHidden

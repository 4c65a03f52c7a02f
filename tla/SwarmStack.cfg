CONSTANTS
    Plans <- MCPlans
    Candidates <- MCCandidates
    Lexical <- MCLexical
    MaxCatalog = 4
SPECIFICATION Spec
INVARIANTS ConversionIsSound SecretFilesGranted NoLiteralSecret OrderIndependent ProfilesDeploy

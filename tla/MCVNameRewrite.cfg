CONSTANTS
  RawRuleLists <- PlainRuleLists
  Inputs <- MCInputs
  Default <- MCDefault
SPECIFICATION Spec
INVARIANTS
  TypeOK
  RewriteAsDocumented

CONSTANTS
  RawRuleLists <- AltRuleLists
  Inputs <- MCInputs
  Default <- MCDefault
SPECIFICATION Spec
INVARIANT RewriteAsDocumented

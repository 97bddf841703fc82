SPECIFICATION DetectSpec
CONSTANTS
  Lower <- MCLower
  Words <- MCWords
  Identifiers <- MCIdentifiers
  Numbers = {"1", "2"}
  MaxMatches = 2
  MaxAssigns = 4
  Kinds = {"service", "hosted-llm"}
  Languages = {"python", "javascript", "go", "java", "rust", "csharp", "kotlin", "sql"}
  RelTypes = {"uses"}
  KnownRisks = {}
  Builtins <- MCBuiltins
  RuleOrder <- MCRuleOrder
  Worlds <- MCWorlds
CHECK_DEADLOCK FALSE
INVARIANTS LiveCallsOnly OwnArguments RulesInForce

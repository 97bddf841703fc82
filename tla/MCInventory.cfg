SPECIFICATION ISpec
CONSTANTS
  Canon <- MCCanon
  DateOf <- MCDateOf
  Publisher <- MCPublisher
  Vendor <- MCVendor
  Lexicon <- MCLexicon
  TestPaths <- MCTestPaths
  RootName = "shop"
  Candidates <- MCCandidates
  Slug <- MCSlug
  VersionOf <- MCVersionOf
  CVEs <- MCCVEs
  Worlds <- MCWorlds
  Scans <- MCScans
  Frameworks <- MCFrameworks
  Policies <- MCPolicies
INVARIANTS OrderFree ClaimsKept NeverGuessed RelationsAccounted DocumentsResolve DocumentsAgree DiffBlamesTheCode GateMissesNothing AdvisoriesKept LifecycleHonest

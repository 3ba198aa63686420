\* Bodies imported, stored, exported and built with small settings.
SPECIFICATION Spec
CONSTANTS
  HiddenTags <- MCHidden
  DefaultTags <- MCDefault
  V6Tags <- MCV6
  Sectioned <- MCSectioned
  Registered <- MCRegistered
  Bodies <- MCBodies
  Reimports <- MCReimports
  SettingsFor <- MCSettingsFor
  Allowlists <- MCAllowlists
  Fragments <- MCFragments
  RuleSetInputs <- MCRuleSetInputs
INVARIANTS
  ImportKeepsWhatIsSound
  LinksBecomeLeaves
  OfferedNodesExist
  RulesDecideInOrder
  DnsComesUp

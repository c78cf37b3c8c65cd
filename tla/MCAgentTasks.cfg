CONSTANTS
  None = None
  Failed = Failed
  Other = Other
  Star = Star
  Bad = Bad
  Infinity = 1000
  Unreadable = Unreadable
  Closed = Closed
  Words = Words
  Unanswered = Unanswered
  Stdout = Stdout
  AccountKey <- MCAccountKey
  AccountFormat <- MCAccountFormat
  AccountRegion <- MCAccountRegion
  AccountFile <- MCAccountFile
  AccountFileType <- MCAccountFileType
  AccountHost <- MCAccountHost
  AzurePattern <- MCAzurePattern
  AzureDump <- MCAzureDump
  AzureMatching <- MCAzureMatching
  AzureHost <- MCAzureHost
  InfraLog <- MCInfraLog
  InfraEndpoint <- MCInfraEndpoint
  InfraHost <- MCInfraHost
  IntegrationsHost <- MCIntegrationsHost
  AgentsFile <- MCAgentsFile
  AgentsKind <- MCAgentsKind
  AgentsKey <- MCAgentsKey
  AgentsKeys <- MCAgentsKeys
  AgentsMark <- MCAgentsMark
  AgentsText <- MCAgentsText
  AgentsSet <- MCAgentsSet
  AgentsLog <- MCAgentsLog
  AgentsLogOf <- MCAgentsLogOf
  AgentsHost <- MCAgentsHost
SPECIFICATION Spec
INVARIANTS
  OnlyOnConsent
  InOrder
  RequestsAsFound
  NothingHidden
  HandedOn
  VerdictsFollow

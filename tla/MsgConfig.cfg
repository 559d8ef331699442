SPECIFICATION Spec
CONSTANTS
  Texts <- MCTexts
  Atoi <- MCAtoi
  Resolved <- MCResolved
  Address <- MCAddress
  Users <- MCUsers
  Classless = {"0-0-0"}
  UserOf <- MCUserOf
  MmTypes <- MCMmTypes
  DefaultMmType = 5
  Names <- MCNames
  MaxItems = 2
  MaxArgs = 1
INVARIANTS
  TypeOK
  LastLegalWins
  SecretsWiped
  SslAsFiled

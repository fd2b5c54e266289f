SPECIFICATION Spec
CONSTANTS
  None = None
  Unreadable = Unreadable
  MaxClockSkew = 2
  Jobs <- MCJobs
  Mail <- MCMail
  SignedBefore <- MCSignedBefore
  Floors <- MCFloors
  Lead = 1
  AuthorityKinds <- Kinds
  SiteKinds = {"down", "max_rtt", "metered", "jurisdiction", "encryption", "link_type", "directive"}
  TrustedKey = "our key"
  Issuer = "ours"
  Site = "here"
  LinksHere <- Links
  MaxTime = 4
  MaxFaults = 0
  RenameSurvivesPowerCut = TRUE
INVARIANTS NoncesOnlyRefuseTheOld

SPECIFICATION Spec
CONSTANTS
  KexSuites = {"RSA", "SM2", "SM2DHE", "ECCKyber", "ECDHEKyber", "Kyber", "KyberAigisEnc"}
  MaxHandshakes = 3
INVARIANTS
  MasterSecretAsPromised
  KeyExchangeNeverFails
  GroupsAgreeUnlessEccKyber
  KexInv

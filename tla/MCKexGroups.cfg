SPECIFICATION Spec
CONSTANTS
  KexSuites = {"RSA", "SM2", "SM2DHE", "ECCKyber", "ECDHEKyber", "Kyber", "KyberAigisEnc"}
  MaxHandshakes = 3
INVARIANT
  GroupsAgree

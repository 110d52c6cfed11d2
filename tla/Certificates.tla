--------------------------- MODULE Certificates ---------------------------
(***************************************************************************)
(* The certificate checks of package certificate: validity window, key     *)
(* usage, policies and the chain to a trusted intermediate CA.             *)
(*                                                                         *)
(* A CA certificate is a record with the key it holds and its validity     *)
(* window.  A user certificate is a record with the key that signed it and *)
(* the fields the checks read.  Parsing and cryptography are abstracted: a *)
(* certificate was signed by the key its issuer field names.               *)
(***************************************************************************)
EXTENDS Integers, FiniteSets

CONSTANTS
  CAs,                 \* CA certificates: [key, notBefore, notAfter]
  Certs,               \* user certificates, see Certificate below
  DisallowedPolicies   \* policy OIDs that Configuration rejects

(***************************************************************************)
(* The fields of a user certificate that the checks read.  policies is the *)
(* set of policy OIDs, with "unparsable" in it when the extension does not *)
(* parse; idCode says whether the subject carries a serial number; ocspURL *)
(* is the first AIA responder, or "none".                                  *)
(***************************************************************************)
CertificateFields ==
  {"issuer", "notBefore", "notAfter", "digitalSignature", "extKeyUsage",
   "policies", "cn", "idCode", "ocspURL"}

ASSUME CertsAssumption == \A c \in Certs : DOMAIN c = CertificateFields

MutantNeverExpires(cert, t) == cert.notBefore <= t

CheckValidity(cert, t) == cert.notBefore <= t /\ t <= cert.notAfter

hasExtKeyUsage(cert, want) == cert.extKeyUsage \cap {want, "any"} # {}

CheckKeyUsageForAuthentication(cert) ==
  cert.digitalSignature /\ hasExtKeyUsage(cert, "clientAuth")

CheckDisallowedPolicies(cert) ==
  \/ DisallowedPolicies = {}
  \/ cert.policies \cap (DisallowedPolicies \cup {"unparsable"}) = {}

(***************************************************************************)
(* TrustStore.Verify against the pool of one snapshot: x509 checks the     *)
(* window of the anchor as well as that of the leaf.                       *)
(***************************************************************************)
VerifyChain(cert, t, anchors) ==
  /\ CheckValidity(cert, t)
  /\ \E ca \in anchors : ca.key = cert.issuer /\ CheckValidity(ca, t)

(***************************************************************************)
(* TrustStore.IssuerOf: the anchors whose key signed the certificate.  The *)
(* window of the anchor is not looked at.                                  *)
(***************************************************************************)
IssuersOf(cert, anchors) == {ca \in anchors : ca.key = cert.issuer}
============================================================================

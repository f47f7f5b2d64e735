----------------------- MODULE MCDomainCertificates -----------------------
(* Two projects and one contended domain for model checking.  *)
EXTENDS DomainCertificates, TLC

CONSTANTS site, p, q, v, w, c, d

Symmetric == Permutations({p, q}) \cup Permutations({v, w}) \cup Permutations({c, d})
=============================================================================

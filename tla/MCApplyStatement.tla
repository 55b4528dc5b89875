-------------------------- MODULE MCApplyStatement --------------------------
(***************************************************************************)
(* Small instances of ApplyStatement.  A finite number of references bounds*)
(* the whole state: a balance moves at most once per reference.            *)
(***************************************************************************)
EXTENDS ApplyStatement, TLC

CONSTANTS MCPrincipal   \* every deployment of the instance costs this

MCPrincipals == [d \in Dep |-> MCPrincipal]

\* Connections and deployments are interchangeable, and so are references.
Symmetry == Permutations(Session) \cup Permutations(Ref) \cup Permutations(Dep)
=============================================================================

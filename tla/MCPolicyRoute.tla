--------------------------- MODULE MCPolicyRoute ---------------------------
(***************************************************************************)
(* Small instances of PolicyRoute for TLC: one category that may be        *)
(* switched off and one that may not, a locale the build has and one it    *)
(* does not, an environment that configures a country and one that         *)
(* configures none.                                                        *)
(***************************************************************************)
EXTENDS PolicyRoute, TLC

MCEnvironments ==
  {[off |-> {}, locales |-> L, substitution |-> "token", level |-> "weak"] :
     L \in SUBSET Locales}

\* A credential switched off, half a document, and a country there is not.
MCHandMade ==
  Documents \intersect
  { [off |-> {"API_KEY"}, locales |-> {"fr"}, substitution |-> "fake", level |-> "weak"],
    [off |-> {"EMAIL"}, locales |-> {}, substitution |-> "absent", level |-> "absent"],
    [off |-> {}, locales |-> {"uk"}, substitution |-> "fake", level |-> "weak"] }

Symmetry == Permutations(Requests) \union Permutations(Surfaces)
=============================================================================

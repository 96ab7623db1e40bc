---------------------------- MODULE MCLicenseScope ----------------------------
EXTENDS LicenseScope, TLC

CONSTANTS a, b, c

\* Every graph on three packages, with four sorts of edge or none, without self-loops.
MCGraphs ==
  {g \in [Packages \X Packages -> {{}, {"dev"}, {"unstated"}, {"normal", "dev"}, {"build"}}] :
     \A p \in Packages : g[p, p] = {}}
MCLicense == (a :> {"mit"}) @@ (b :> {"mit", "gpl"}) @@ (c :> {"bsd"})
=============================================================================

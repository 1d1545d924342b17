---------------------------- MODULE MCInstaller ----------------------------
(***************************************************************************)
(* Installer for TLC: one domain an operator or admin may choose besides   *)
(* the two that may be detected.                                           *)
(***************************************************************************)
EXTENDS Installer

CONSTANTS host, agent, s1, s2, public, private, custom

Host == {host}
Agent == {agent}
TwoSecrets == {s1, s2}
OneSafe == {s1}
TwoAddresses == {public, private}
OneDomain == {custom}
AnyBuild == {"source", "release"}
AnyInstallTls == {"letsencrypt", "cloudflare"}
AnySettingsTls == {"letsencrypt", "cloudflared", "disabled"}
FailBetweenSteps == {"fail"}
NoFaults == {}
=============================================================================

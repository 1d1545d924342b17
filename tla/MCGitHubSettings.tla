-------------------------- MODULE MCGitHubSettings --------------------------
(***************************************************************************)
(* GitHubSettings for TLC: app id and private key stand for the three      *)
(* settings (half of them may be new and half old, or missing), one value  *)
(* to save besides the one in the environment.                             *)
(***************************************************************************)
EXTENDS GitHubSettings

CONSTANTS app_id, private_key, api, worker, r1, r2, saved, env

TwoKeys == <<app_id, private_key>>
OneValue == {saved}
ApiAndWorker == {api, worker}
TwoRequests == {r1, r2}
=============================================================================

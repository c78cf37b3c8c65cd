----------------------------- MODULE MCUploads -----------------------------
(***************************************************************************)
(* Two license keys; ValidateLicenseKey did not run, found both keys       *)
(* valid, found one that is not, or was overridden.                        *)
(***************************************************************************)
EXTENDS Uploads

CONSTANTS k1, k2

MCLicenseKey == {k1, k2}

AllFlagChoices ==
  [yes : BOOLEAN, apiKey : BOOLEAN, autoAttach : BOOLEAN, usageOptOut : BOOLEAN]

\* The zero result of a task that did not run is read by nobody.
MCLicenseResults ==
  {[ran |-> FALSE, status |-> "None", payload |-> [type |-> "text", keys |-> {}]],
   [ran |-> TRUE, status |-> "Success", payload |-> [type |-> "keys", keys |-> {k1, k2}]],
   [ran |-> TRUE, status |-> "Failure", payload |-> [type |-> "keys", keys |-> {k1}]],
   [ran |-> TRUE, status |-> "Success", payload |-> [type |-> "text", keys |-> {}]]}

KeysFound == {r \in MCLicenseResults : r.status = "Success" /\ r.payload.type = "keys"}

MCLogResults == [status : {"Success", "None"}, payload : {"reports", "text"}]
NoLogs == {[status |-> "None", payload |-> "reports"]}

=============================================================================

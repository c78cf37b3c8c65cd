------------------------------ MODULE Uploads ------------------------------
(***************************************************************************)
(* What main does with the results once every task has run: it writes the  *)
(* report, asks whether to upload, sends the archive and the report to one *)
(* account after the other, and sends usage data.                          *)
(*                                                                         *)
(* A result exists twice: in registration.Work.Results, where              *)
(* checkAttachmentFlags looks for license keys, and in outputResults,      *)
(* whose payloads getResultsJSON replaces before it writes the report.     *)
(***************************************************************************)
EXTENDS Integers, Sequences, FiniteSets

CONSTANTS
  LicenseKey,     \* license keys
  ApiKey,         \* the key of -api-key
  FlagChoices,    \* [yes, apiKey, autoAttach, usageOptOut]
  LicenseResults, \* results of Base/Config/ValidateLicenseKey: [ran, status, payload]
  LogResults,     \* results of Base/Log/ReportingTo: [status, payload]
  EarlierFiles,   \* the output files there may be from an earlier run
  DiskFaults      \* whether the report may fail to be written

\* The payload of ValidateLicenseKey: a set of keys, or what is not one. An
\* override sets a string.
Payload == [type : {"keys"}, keys : SUBSET LicenseKey] \cup
           [type : {"text", "obfuscated"}, keys : {{}}]

ASSUME UploadsAssumption ==
  /\ ApiKey \notin LicenseKey
  /\ FlagChoices \subseteq [yes : BOOLEAN, apiKey : BOOLEAN, autoAttach : BOOLEAN,
                            usageOptOut : BOOLEAN]
  /\ LicenseResults \subseteq [ran : BOOLEAN, status : STRING, payload : Payload]
  /\ LogResults \subseteq [status : STRING, payload : {"reports", "text"}]
  /\ EarlierFiles \in BOOLEAN
  /\ DiskFaults \in BOOLEAN

VARIABLES
  flags,     \* the flags of this run
  stored,    \* the result of ValidateLicenseKey in registration.Work.Results
  reported,  \* its copy in outputResults
  logs,      \* the result of ReportingTo in outputResults
  json,      \* nrdiag-output.json: "none", "earlier", "partial" or "this" run's
  answer,    \* what the user answered, "" before
  pc,        \* where main is
  keys,      \* the keys still to upload with
  sending,   \* the upload that is going on: [key, files]
  received,  \* what the service has received: [key, file]
  usage,     \* the usage data sent: [sent, keys]
  process    \* "running", or how the process ended

vars == <<flags, stored, reported, logs, json, answer, pc, keys, sending, received, usage, process>>

Account == LicenseKey \cup {ApiKey}
File == {"zip", "json"}

TypeOK ==
  /\ flags \in FlagChoices
  /\ stored \in LicenseResults /\ logs \in LogResults
  /\ reported \in [ran : BOOLEAN, status : STRING, payload : Payload]
  /\ json \in {"none", "earlier", "partial", "this"}
  /\ answer \in {"", "y", "n"}
  /\ pc \in {"json", "ask", "attach", "next", "send", "usage"}
  /\ keys \subseteq Account
  /\ sending \in [key : Account, files : Seq(File)]
  /\ received \subseteq [key : Account, file : File]
  /\ usage \in [sent : BOOLEAN, keys : SUBSET LicenseKey]
  /\ process \in {"running", "ok", "failed", "crashed"}

Init ==
  /\ flags \in FlagChoices
  /\ stored \in LicenseResults /\ reported = stored
  /\ logs \in LogResults
  /\ json \in {"none"} \cup (IF EarlierFiles THEN {"earlier"} ELSE {})
  /\ answer = "" /\ pc = "json"
  /\ keys = {} /\ sending = [key |-> ApiKey, files |-> << >>]
  /\ received = {}
  /\ usage = [sent |-> FALSE, keys |-> {}]
  /\ process = "running"

At(p) == process = "running" /\ pc = p

\* BaseConfigValidateLicenseKey.ObfuscatePayload.
Obfuscated(result) ==
  IF result.payload.type # "keys" THEN result
  ELSE [result EXCEPT !.payload = [type |-> "obfuscated", keys |-> {}]]

\* getResultsJSON and outputJSON. os.WriteFile may fail before or after it has
\* truncated the file, and nobody looks.
WriteOutputFile ==
  /\ At("json")
  /\ pc' = "ask"
  /\ reported' = Obfuscated(reported)
  /\ json' \in {"this"} \cup (IF DiskFaults THEN {json, "partial"} ELSE {})
  /\ UNCHANGED <<flags, stored, logs, answer, keys, sending, received, usage, process>>

\* processUploads: without -y, and with a way to upload, the user is asked.
ProcessUploads ==
  /\ At("ask")
  /\ \/ /\ flags.yes
        /\ pc' = "attach"
        /\ UNCHANGED answer
     \/ /\ ~flags.yes
        /\ flags.apiKey \/ flags.autoAttach
        /\ \E a \in {"y", "n"} : answer' = a /\ pc' = IF a = "y" THEN "attach" ELSE "usage"
     \/ /\ ~flags.yes /\ ~flags.apiKey /\ ~flags.autoAttach
        /\ pc' = "usage"
        /\ UNCHANGED answer
  /\ UNCHANGED <<flags, stored, reported, logs, json, keys, sending, received, usage, process>>

\* Mutant: a slice made with a length and then appended to.
KeysAndEmptyKey(result) ==
  IF result.ran /\ result.status = "Success" /\ result.payload.type = "keys"
  THEN result.payload.keys \cup {""} ELSE {}

\* Mutant: the status of the result is not looked at.
KeysOfAnyStatus(result) ==
  IF result.ran /\ result.payload.type = "keys" THEN result.payload.keys ELSE {}

\* The valid license keys of a result of ValidateLicenseKey: it has run, with
\* success, and left a map.
KeysIn(result) ==
  IF result.ran /\ result.status = "Success" /\ result.payload.type = "keys"
  THEN result.payload.keys ELSE {}

\* Mutant: the keys come from the results that are reported.
AttachReported ==
  /\ At("attach")
  /\ pc' = "next"
  /\ keys' = IF flags.apiKey THEN {ApiKey} ELSE IF flags.autoAttach THEN KeysIn(reported) ELSE {}
  /\ UNCHANGED <<flags, stored, reported, logs, json, answer, sending, received, usage, process>>

\* checkAttachmentFlags: -api-key goes before -a.
CheckAttachmentFlags ==
  /\ At("attach")
  /\ pc' = "next"
  /\ keys' = IF flags.apiKey THEN {ApiKey} ELSE IF flags.autoAttach THEN KeysIn(stored) ELSE {}
  /\ UNCHANGED <<flags, stored, reported, logs, json, answer, sending, received, usage, process>>

\* Mutant: the key stays among those to upload with.
UploadKeepsKey ==
  /\ At("next")
  /\ keys # {}
  /\ json # "none"
  /\ \E k \in keys : sending' = [key |-> k, files |-> <<"zip", "json">>]
  /\ pc' = "send"
  /\ UNCHANGED <<flags, stored, reported, logs, json, answer, keys, received, usage, process>>

\* Upload with one of the keys, in the order of a Go map: the sizes of both
\* files are taken before anything is sent, and a file that is not there, the
\* report or an archive that could not be created, is fatal.
Upload ==
  /\ At("next")
  /\ keys # {}
  /\ \/ /\ json = "none" \/ DiskFaults
        /\ process' = "failed"
        /\ UNCHANGED <<pc, keys, sending>>
     \/ /\ json # "none"
        /\ \E k \in keys : /\ sending' = [key |-> k, files |-> <<"zip", "json">>]
                           /\ keys' = keys \ {k}
        /\ pc' = "send"
        /\ UNCHANGED process
  /\ UNCHANGED <<flags, stored, reported, logs, json, answer, received, usage>>

\* Mutant: a file that could not be sent is left out.
SkipFailedFile ==
  /\ At("send")
  /\ sending.files # << >>
  /\ received' \in {received, received \cup {[key |-> sending.key, file |-> Head(sending.files)]}}
  /\ sending' = [sending EXCEPT !.files = Tail(@)]
  /\ UNCHANGED <<flags, stored, reported, logs, json, answer, pc, keys, usage, process>>

\* uploadFile on the next file: sent and confirmed; or fatal, because it could
\* not be read or sent, or because the answer is lost or not a success.
UploadFile ==
  /\ At("send")
  /\ sending.files # << >>
  /\ LET copy == [key |-> sending.key, file |-> Head(sending.files)]
     IN \/ /\ received' = received \cup {copy}
           /\ sending' = [sending EXCEPT !.files = Tail(@)]
           /\ UNCHANGED process
        \/ /\ received' \in {received, received \cup {copy}}
           /\ process' = "failed"
           /\ UNCHANGED sending
  /\ UNCHANGED <<flags, stored, reported, logs, json, answer, pc, keys, usage>>

KeyUploaded ==
  /\ At("send")
  /\ sending.files = << >>
  /\ pc' = "next"
  /\ UNCHANGED <<flags, stored, reported, logs, json, answer, keys, sending, received, usage, process>>

UploadsDone ==
  /\ At("next")
  /\ keys = {}
  /\ pc' = "usage"
  /\ UNCHANGED <<flags, stored, reported, logs, json, answer, keys, sending, received, usage, process>>

\* SendUsageData: prepareMeta looks for the keys in the results that were
\* reported; getRPMdetails asserts a payload's type without a check; an error of
\* the service is ignored. main returns.
SendUsageData ==
  /\ At("usage")
  /\ \/ /\ flags.usageOptOut
        /\ process' = "ok"
        /\ UNCHANGED usage
     \/ /\ ~flags.usageOptOut
        /\ logs.status = "Success" /\ logs.payload # "reports"
        /\ process' = "crashed"
        /\ UNCHANGED usage
     \/ /\ ~flags.usageOptOut
        /\ ~(logs.status = "Success" /\ logs.payload # "reports")
        /\ process' = "ok"
        /\ usage' = [sent |-> TRUE, keys |-> KeysIn(reported)]
  /\ UNCHANGED <<flags, stored, reported, logs, json, answer, pc, keys, sending, received>>

\* The process is over.
Ended == process # "running" /\ UNCHANGED vars

Next ==
  \/ WriteOutputFile
  \/ ProcessUploads
  \/ CheckAttachmentFlags
  \/ Upload
  \/ UploadFile
  \/ KeyUploaded
  \/ UploadsDone
  \/ SendUsageData
  \/ Ended

\* One goroutine; requests time out (after two hours for a file), and the
\* prompt ends with the input.
Spec == Init /\ [][Next]_vars /\ WF_vars(Next)

----------------------------------------------------------------------------

\* What the run was started with, and the user, allow an upload.
Consent == (flags.apiKey \/ flags.autoAttach) /\ (flags.yes \/ answer = "y")

\* A run that ends well has uploaded the archive and the report to the account
\* of every valid license key, although the payload that held the keys has been
\* replaced in the report before the uploads start.
EveryAccountHasBoth ==
  process = "ok" /\ Consent =>
    \A k \in (IF flags.apiKey THEN {ApiKey} ELSE KeysIn(stored)) : \A f \in File :
      [key |-> k, file |-> f] \in received

\* Nothing is sent against the flags or the answer, nor with a key that
\* ValidateLicenseKey did not find valid.
OnlyAllowedUploads ==
  \A copy \in received :
    /\ Consent
    /\ IF flags.apiKey THEN copy.key = ApiKey
       ELSE stored.status = "Success" /\ copy.key \in stored.payload.keys

\* An account that was sent only a part is the last one, and the run that left it
\* so does not send usage data as if it had succeeded.
PartialUploadEndsRun ==
  \A k, l \in Account :
    /\ [key |-> k, file |-> "zip"] \in received
    /\ [key |-> k, file |-> "json"] \notin received
    /\ process # "running"
    => /\ process = "failed" /\ ~usage.sent
       /\ l # k /\ [key |-> l, file |-> "zip"] \in received
            => [key |-> l, file |-> "json"] \in received

\* Both files or a run that is known to have failed, for every account.
UploadsAccounted == TypeOK /\ EveryAccountHasBoth /\ PartialUploadEndsRun

\* "We've created nrdiag-output.zip and nrdiag-output.json. Do you want to
\* upload these" (processUploads): the report that is sent is the one this run
\* has written, entire.
ReportIsOfThisRun ==
  \A copy \in received : copy.file = "json" => json = "this"

\* One upload after the other, the run ends.
UploadsEnd == <>(process # "running")

=============================================================================

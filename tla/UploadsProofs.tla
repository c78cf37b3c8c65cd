--------------------------- MODULE UploadsProofs ---------------------------
(***************************************************************************)
(* Proofs about the uploads, for every set of license keys, every choice   *)
(* of flags and every result of ValidateLicenseKey: what the service has   *)
(* received follows from where main is and from the keys that are left.    *)
(***************************************************************************)
EXTENDS Uploads, TLAPS

\* The accounts that the flags and the stored result allow to upload to.
Allowed ==
  IF flags.apiKey THEN {ApiKey} ELSE IF flags.autoAttach THEN KeysIn(stored) ELSE {}

Agreed == flags.yes \/ answer = "y"

Sent(k, f) == [key |-> k, file |-> f] \in received

Both(k) == Sent(k, "zip") /\ Sent(k, "json")

\* Nothing is sent before checkAttachmentFlags, and nothing fails there.
NothingYet ==
  pc \in {"json", "ask", "attach"} => keys = {} /\ received = {} /\ process = "running"

\* Who uploads has agreed, and uploads with allowed keys.
UploadsAgreed ==
  pc \in {"attach", "next", "send"} => Agreed /\ keys \subseteq Allowed

\* Between two keys, the keys that are not left are done.
DoneAtNext ==
  pc = "next" =>
    /\ \A k \in Allowed \ keys : Both(k)
    /\ \A copy \in received : copy.key \in Allowed \ keys

\* The key that is being sent is neither left nor done.
DoneAtSend ==
  pc = "send" =>
    /\ sending.key \in Allowed \ keys
    /\ \A k \in Allowed \ keys : k = sending.key \/ Both(k)
    /\ \A copy \in received : copy.key \in Allowed \ keys

\* Its archive goes before its report; only a process that has failed may have
\* sent the file it still has in hand.
FilesInOrder ==
  pc = "send" =>
    \/ /\ sending.files = <<"zip", "json">>
       /\ ~Sent(sending.key, "json")
       /\ Sent(sending.key, "zip") => process = "failed"
    \/ /\ sending.files = <<"json">>
       /\ Sent(sending.key, "zip")
       /\ Sent(sending.key, "json") => process = "failed"
    \/ /\ sending.files = << >>
       /\ Both(sending.key)

\* Usage data is reached with all uploads done, or with none because the user or
\* the flags did not want any.
DoneAtUsage ==
  pc = "usage" =>
    \/ received = {} /\ ~Consent
    \/ /\ Agreed
       /\ \A k \in Allowed : Both(k)
       /\ \A copy \in received : copy.key \in Allowed

\* Where a process may end, and as what.
EndsAtItsPlace ==
  /\ process = "failed" => pc \in {"next", "send"}
  /\ process \in {"ok", "crashed"} => pc = "usage"
  /\ usage.sent => process = "ok"

UploadsInv ==
  /\ TypeOK
  /\ NothingYet
  /\ UploadsAgreed
  /\ DoneAtNext
  /\ DoneAtSend
  /\ FilesInOrder
  /\ DoneAtUsage
  /\ EndsAtItsPlace

-----------------------------------------------------------------------------
(* The keys *)

\* The keys of a result are license keys.
LEMMA KeysAreLicenseKeys ==
  ASSUME NEW result \in [ran : BOOLEAN, status : STRING, payload : Payload]
  PROVE  KeysIn(result) \subseteq LicenseKey
BY DEF KeysIn, Payload

LEMMA AllowedAreAccounts ==
  ASSUME TypeOK
  PROVE  /\ Allowed \subseteq Account
         /\ Allowed # {} => flags.apiKey \/ flags.autoAttach
<1>1. stored \in [ran : BOOLEAN, status : STRING, payload : Payload]
  BY UploadsAssumption DEF TypeOK
<1> QED
  BY <1>1, KeysAreLicenseKeys DEF Allowed, Account

\* Where the key of a copy is allowed, the flags and the result allow it.
LEMMA AllowedKey ==
  ASSUME TypeOK, NEW k \in Allowed
  PROVE  IF flags.apiKey THEN k = ApiKey
         ELSE stored.status = "Success" /\ k \in stored.payload.keys
BY DEF Allowed, KeysIn

-----------------------------------------------------------------------------
(* The steps *)

LEMMA UploadsInitially == Init => UploadsInv
<1> SUFFICES ASSUME Init PROVE UploadsInv
  OBVIOUS
<1>1. TypeOK
  <2>1. reported \in [ran : BOOLEAN, status : STRING, payload : Payload]
    BY UploadsAssumption DEF Init
  <2>2. sending \in [key : Account, files : Seq(File)]
    <3>1. << >> \in Seq(File)
      OBVIOUS
    <3>2. ApiKey \in Account
      BY DEF Account
    <3> QED
      BY <3>1, <3>2 DEF Init
  <2>3. json \in {"none", "earlier", "partial", "this"}
    BY DEF Init
  <2>4. usage \in [sent : BOOLEAN, keys : SUBSET LicenseKey]
    BY DEF Init
  <2> QED
    BY <2>1, <2>2, <2>3, <2>4 DEF Init, TypeOK
<1> QED
  BY <1>1 DEF Init, UploadsInv, NothingYet, UploadsAgreed, DoneAtNext, DoneAtSend,
              FilesInOrder, DoneAtUsage, EndsAtItsPlace

\* Obfuscation leaves a result a result.
LEMMA ObfuscatedType ==
  ASSUME NEW result \in [ran : BOOLEAN, status : STRING, payload : Payload]
  PROVE  Obfuscated(result) \in [ran : BOOLEAN, status : STRING, payload : Payload]
BY DEF Obfuscated, Payload

LEMMA WriteOutputFileKeeps ==
  ASSUME UploadsInv, WriteOutputFile
  PROVE  UploadsInv'
<1>1. TypeOK'
  <2>1. reported' \in [ran : BOOLEAN, status : STRING, payload : Payload]
    BY ObfuscatedType DEF UploadsInv, TypeOK, WriteOutputFile
  <2>2. json' \in {"none", "earlier", "partial", "this"}
    BY DEF UploadsInv, TypeOK, WriteOutputFile
  <2> QED
    BY <2>1, <2>2 DEF UploadsInv, TypeOK, WriteOutputFile
<1>2. NothingYet' /\ EndsAtItsPlace'
  BY DEF UploadsInv, NothingYet, EndsAtItsPlace, WriteOutputFile, At
<1> QED
  BY <1>1, <1>2 DEF UploadsInv, UploadsAgreed, DoneAtNext, DoneAtSend, FilesInOrder,
                    DoneAtUsage, WriteOutputFile

LEMMA ProcessUploadsKeeps ==
  ASSUME UploadsInv, ProcessUploads
  PROVE  UploadsInv'
<1>1. TypeOK'
  BY DEF UploadsInv, TypeOK, ProcessUploads
<1>2. NothingYet' /\ EndsAtItsPlace'
  BY DEF UploadsInv, NothingYet, EndsAtItsPlace, ProcessUploads, At
<1>3. UploadsAgreed'
  BY DEF UploadsInv, NothingYet, UploadsAgreed, Agreed, ProcessUploads, At
<1>4. DoneAtUsage'
  BY DEF UploadsInv, NothingYet, DoneAtUsage, Consent, ProcessUploads, At
<1> QED
  BY <1>1, <1>2, <1>3, <1>4
     DEF UploadsInv, DoneAtNext, DoneAtSend, FilesInOrder, ProcessUploads

LEMMA CheckAttachmentFlagsKeeps ==
  ASSUME UploadsInv, CheckAttachmentFlags
  PROVE  UploadsInv'
<1>1. keys' = Allowed /\ Allowed' = Allowed /\ received' = {}
  BY DEF UploadsInv, NothingYet, CheckAttachmentFlags, Allowed, At
<1>2. TypeOK'
  BY <1>1, AllowedAreAccounts DEF UploadsInv, TypeOK, CheckAttachmentFlags
<1>3. UploadsAgreed' /\ DoneAtNext'
  BY <1>1 DEF UploadsInv, UploadsAgreed, DoneAtNext, Agreed, CheckAttachmentFlags, At
<1>4. EndsAtItsPlace'
  BY DEF UploadsInv, EndsAtItsPlace, CheckAttachmentFlags, At
<1> QED
  BY <1>2, <1>3, <1>4 DEF UploadsInv, NothingYet, DoneAtSend, FilesInOrder, DoneAtUsage,
                          CheckAttachmentFlags

LEMMA UploadKeeps ==
  ASSUME UploadsInv, Upload
  PROVE  UploadsInv'
<1> Allowed' = Allowed /\ Agreed' = Agreed
  BY DEF Upload, Allowed, Agreed
<1>1. CASE /\ process' = "failed"
           /\ UNCHANGED <<pc, keys, sending>>
  BY <1>1 DEF UploadsInv, TypeOK, NothingYet, UploadsAgreed, DoneAtNext, DoneAtSend,
              FilesInOrder, DoneAtUsage, EndsAtItsPlace, Upload, At, Both, Sent
<1>2. CASE /\ \E k \in keys : /\ sending' = [key |-> k, files |-> <<"zip", "json">>]
                              /\ keys' = keys \ {k}
           /\ pc' = "send"
           /\ UNCHANGED process
  <2>1. PICK k \in keys : /\ sending' = [key |-> k, files |-> <<"zip", "json">>]
                          /\ keys' = keys \ {k}
    BY <1>2
  <2>2. k \in Allowed /\ k \in Account /\ received' = received
    BY <2>1 DEF UploadsInv, TypeOK, UploadsAgreed, Upload, At
  <2>3. sending' \in [key : Account, files : Seq(File)]
    BY <2>1, <2>2 DEF File
  <2>4. TypeOK'
    BY <1>2, <2>1, <2>3 DEF UploadsInv, TypeOK, Upload
  <2>5. UploadsAgreed'
    BY <1>2, <2>1 DEF UploadsInv, UploadsAgreed, Upload, At
  <2>6. DoneAtSend'
    <3>1. \A l \in Allowed \ keys : Both(l)
      BY DEF UploadsInv, DoneAtNext, Upload, At
    <3>2. \A copy \in received : copy.key \in Allowed \ keys
      BY DEF UploadsInv, DoneAtNext, Upload, At
    <3>3. sending'.key = k
      BY <2>1
    <3> QED
      BY <2>1, <2>2, <3>1, <3>2, <3>3 DEF DoneAtSend, Both, Sent
  <2>7. FilesInOrder'
    <3>1. ~Sent(k, "json") /\ ~Sent(k, "zip")
      BY <2>1 DEF UploadsInv, DoneAtNext, Upload, At, Sent
    <3> QED
      BY <2>1, <2>2, <3>1 DEF FilesInOrder, Sent
  <2> QED
    BY <1>2, <2>4, <2>5, <2>6, <2>7
       DEF UploadsInv, NothingYet, DoneAtNext, DoneAtUsage, EndsAtItsPlace, Upload, At
<1> QED
  BY <1>1, <1>2 DEF Upload

LEMMA UploadFileKeeps ==
  ASSUME UploadsInv, UploadFile
  PROVE  UploadsInv'
<1> PICK k, f : k = sending.key /\ f = Head(sending.files)
  OBVIOUS
<1> DEFINE copy == [key |-> k, file |-> f]
<1>1. /\ pc = "send" /\ process = "running" /\ pc' = "send"
      /\ Allowed' = Allowed /\ Agreed' = Agreed /\ keys' = keys /\ usage' = usage
  BY DEF UploadFile, At, Allowed, Agreed
<1>2. k \in Allowed \ keys /\ k \in Account
  BY <1>1, AllowedAreAccounts DEF UploadsInv, DoneAtSend
<1>3. \/ sending.files = <<"zip", "json">> /\ f = "zip" /\ Tail(sending.files) = <<"json">>
      \/ sending.files = <<"json">> /\ f = "json" /\ Tail(sending.files) = << >>
  <2>1. sending.files = <<"zip", "json">> \/ sending.files = <<"json">>
    BY <1>1 DEF UploadsInv, FilesInOrder, UploadFile
  <2>2. Head(<<"zip", "json">>) = "zip" /\ Tail(<<"zip", "json">>) = <<"json">>
    OBVIOUS
  <2>3. Head(<<"json">>) = "json" /\ Tail(<<"json">>) = << >>
    OBVIOUS
  <2> QED
    BY <2>1, <2>2, <2>3
<1>4. copy \in [key : Account, file : File]
  BY <1>2, <1>3 DEF File
<1>5. received' \in {received, received \cup {copy}}
  BY DEF UploadFile
<1>6. \/ /\ received' = received \cup {copy}
         /\ sending' = [sending EXCEPT !.files = Tail(@)]
         /\ process' = process
      \/ /\ process' = "failed"
         /\ sending' = sending
  BY DEF UploadFile
<1>7. sending' \in [key : Account, files : Seq(File)] /\ sending'.key = k
  <2>1. Tail(sending.files) \in Seq(File)
    BY <1>3 DEF File
  <2> QED
    BY <1>6, <2>1 DEF UploadsInv, TypeOK
<1>8. TypeOK'
  BY <1>1, <1>4, <1>5, <1>6, <1>7 DEF UploadsInv, TypeOK, UploadFile
<1>9. UploadsAgreed' /\ EndsAtItsPlace'
  BY <1>1, <1>6 DEF UploadsInv, UploadsAgreed, EndsAtItsPlace
<1>10. \A l, g : Sent(l, g) => Sent(l, g)'
  BY <1>5 DEF Sent
<1>11. DoneAtSend'
  <2>1. \A l \in Allowed \ keys : l = k \/ Both(l)'
    BY <1>1, <1>10 DEF UploadsInv, DoneAtSend, Both
  <2>2. \A c \in received' : c.key \in Allowed \ keys
    BY <1>1, <1>2, <1>5 DEF UploadsInv, DoneAtSend
  <2> QED
    BY <1>1, <1>2, <1>7, <2>1, <2>2 DEF DoneAtSend
<1>12. FilesInOrder'
  <2>1. ASSUME NEW g, Sent(k, g)' PROVE Sent(k, g) \/ g = f
    <3>1. [key |-> k, file |-> g] \in received \cup {copy}
      BY <1>5, <2>1 DEF Sent
    <3>2. [key |-> k, file |-> g] = copy => g = f
      BY DEF copy
    <3> QED
      BY <3>1, <3>2 DEF Sent
  <2>2. CASE process' = "failed" /\ sending' = sending
    BY <1>1, <1>3, <1>10, <2>1, <2>2 DEF UploadsInv, FilesInOrder, Both
  <2>3. CASE /\ received' = received \cup {copy}
             /\ sending' = [sending EXCEPT !.files = Tail(@)]
             /\ process' = process
    <3>1. sending'.files = Tail(sending.files)
      BY <2>3 DEF UploadsInv, TypeOK
    <3>2. Sent(k, f)'
      BY <2>3 DEF Sent
    <3> QED
      BY <1>1, <1>3, <1>7, <1>10, <2>1, <3>1, <3>2 DEF UploadsInv, FilesInOrder, Both
  <2> QED
    BY <1>6, <2>2, <2>3
<1> QED
  BY <1>1, <1>8, <1>9, <1>11, <1>12 DEF UploadsInv, NothingYet, DoneAtNext, DoneAtUsage

LEMMA KeyUploadedKeeps ==
  ASSUME UploadsInv, KeyUploaded
  PROVE  UploadsInv'
<1> Allowed' = Allowed /\ Agreed' = Agreed /\ (\A k, f : Sent(k, f)' = Sent(k, f))
  BY DEF KeyUploaded, Allowed, Agreed, Sent
<1>1. TypeOK' /\ UploadsAgreed' /\ EndsAtItsPlace'
  BY DEF UploadsInv, TypeOK, UploadsAgreed, EndsAtItsPlace, KeyUploaded, At
<1>2. Both(sending.key)
  BY DEF UploadsInv, FilesInOrder, KeyUploaded, At
<1>3. DoneAtNext'
  BY <1>2 DEF UploadsInv, DoneAtSend, DoneAtNext, Both, KeyUploaded, At
<1> QED
  BY <1>1, <1>3 DEF UploadsInv, NothingYet, DoneAtSend, FilesInOrder, DoneAtUsage, KeyUploaded

LEMMA UploadsDoneKeeps ==
  ASSUME UploadsInv, UploadsDone
  PROVE  UploadsInv'
<1> Allowed' = Allowed /\ Agreed' = Agreed /\ (\A k, f : Sent(k, f)' = Sent(k, f))
  BY DEF UploadsDone, Allowed, Agreed, Sent
<1>1. TypeOK' /\ EndsAtItsPlace'
  BY DEF UploadsInv, TypeOK, EndsAtItsPlace, UploadsDone, At
<1>2. DoneAtUsage'
  BY DEF UploadsInv, UploadsAgreed, DoneAtNext, DoneAtUsage, Both, UploadsDone, At
<1> QED
  BY <1>1, <1>2 DEF UploadsInv, NothingYet, UploadsAgreed, DoneAtNext, DoneAtSend,
                    FilesInOrder, UploadsDone

LEMMA SendUsageDataKeeps ==
  ASSUME UploadsInv, SendUsageData
  PROVE  UploadsInv'
<1> Allowed' = Allowed /\ Agreed' = Agreed /\ (\A k, f : Sent(k, f)' = Sent(k, f))
    /\ Consent' = Consent
  BY DEF SendUsageData, Allowed, Agreed, Sent, Consent
<1>1. TypeOK'
  <2>1. KeysIn(reported) \subseteq LicenseKey
    BY KeysAreLicenseKeys DEF UploadsInv, TypeOK
  <2>2. usage' \in [sent : BOOLEAN, keys : SUBSET LicenseKey]
    <3>1. [sent |-> TRUE, keys |-> KeysIn(reported)] \in [sent : BOOLEAN, keys : SUBSET LicenseKey]
      BY <2>1
    <3> QED
      BY <3>1 DEF UploadsInv, TypeOK, SendUsageData
  <2> QED
    BY <2>2 DEF UploadsInv, TypeOK, SendUsageData
<1>2. DoneAtUsage'
  BY DEF UploadsInv, DoneAtUsage, Both, SendUsageData
<1>3. EndsAtItsPlace'
  BY DEF UploadsInv, EndsAtItsPlace, SendUsageData, At
<1> QED
  BY <1>1, <1>2, <1>3 DEF UploadsInv, NothingYet, UploadsAgreed, DoneAtNext, DoneAtSend,
                          FilesInOrder, SendUsageData, At

LEMMA UploadsStays ==
  ASSUME UploadsInv, UNCHANGED vars
  PROVE  UploadsInv'
<1> USE DEF vars
<1>1. Allowed' = Allowed /\ Agreed' = Agreed /\ Consent' = Consent
  BY DEF Allowed, Agreed, Consent
<1>2. TypeOK' /\ NothingYet' /\ EndsAtItsPlace' /\ UploadsAgreed'
  BY <1>1 DEF UploadsInv, TypeOK, NothingYet, EndsAtItsPlace, UploadsAgreed
<1>3. \A k, f : Sent(k, f)' = Sent(k, f)
  BY DEF Sent
<1>4. DoneAtNext' /\ DoneAtSend' /\ FilesInOrder' /\ DoneAtUsage'
  BY <1>1, <1>3 DEF UploadsInv, DoneAtNext, DoneAtSend, FilesInOrder, DoneAtUsage, Both
<1> QED
  BY <1>2, <1>4 DEF UploadsInv

LEMMA UploadsStep == UploadsInv /\ [Next]_vars => UploadsInv'
<1> SUFFICES ASSUME UploadsInv, [Next]_vars PROVE UploadsInv'
  OBVIOUS
<1>1. CASE WriteOutputFile
  BY <1>1, WriteOutputFileKeeps
<1>2. CASE ProcessUploads
  BY <1>2, ProcessUploadsKeeps
<1>3. CASE CheckAttachmentFlags
  BY <1>3, CheckAttachmentFlagsKeeps
<1>4. CASE Upload
  BY <1>4, UploadKeeps
<1>5. CASE UploadFile
  BY <1>5, UploadFileKeeps
<1>6. CASE KeyUploaded
  BY <1>6, KeyUploadedKeeps
<1>7. CASE UploadsDone
  BY <1>7, UploadsDoneKeeps
<1>8. CASE SendUsageData
  BY <1>8, SendUsageDataKeeps
<1>9. CASE Ended \/ UNCHANGED vars
  BY <1>9, UploadsStays DEF Ended
<1> QED
  BY <1>1, <1>2, <1>3, <1>4, <1>5, <1>6, <1>7, <1>8, <1>9 DEF Next

LEMMA UploadsInvariant == Spec => []UploadsInv
<1>1. Init => UploadsInv
  BY UploadsInitially
<1>2. UploadsInv /\ [Next]_vars => UploadsInv'
  BY UploadsStep
<1> QED
  BY <1>1, <1>2, PTL DEF Spec

-----------------------------------------------------------------------------
(* What follows *)

\* processUploads and Upload: nothing is sent against the flags or the answer, nor
\* with a key that ValidateLicenseKey did not find valid.
THEOREM OnlyAllowedAreSent == Spec => []OnlyAllowedUploads
<1>1. UploadsInv => OnlyAllowedUploads
  <2> SUFFICES ASSUME UploadsInv, NEW copy \in received
               PROVE  /\ Consent
                      /\ IF flags.apiKey THEN copy.key = ApiKey
                         ELSE stored.status = "Success" /\ copy.key \in stored.payload.keys
    BY DEF OnlyAllowedUploads
  <2>1. pc \in {"next", "send", "usage"}
    BY DEF UploadsInv, TypeOK, NothingYet
  <2>2. Agreed /\ copy.key \in Allowed
    BY <2>1 DEF UploadsInv, UploadsAgreed, DoneAtNext, DoneAtSend, DoneAtUsage
  <2> QED
    BY <2>2, AllowedAreAccounts, AllowedKey DEF UploadsInv, Consent, Agreed
<1> QED
  BY <1>1, UploadsInvariant, PTL

\* A run that ends well has uploaded both files to every account; only the account
\* that was being sent may lack the report, in a run that is known to have failed.
THEOREM UploadsAreAccounted == Spec => []UploadsAccounted
<1>1. ASSUME UploadsInv PROVE EveryAccountHasBoth
  <2> SUFFICES ASSUME process = "ok", Consent,
                      NEW k \in (IF flags.apiKey THEN {ApiKey} ELSE KeysIn(stored)),
                      NEW f \in File
               PROVE  [key |-> k, file |-> f] \in received
    BY DEF EveryAccountHasBoth
  <2>1. k \in Allowed
    BY DEF Allowed, Consent
  <2>2. Both(k)
    BY <1>1, <2>1 DEF UploadsInv, EndsAtItsPlace, DoneAtUsage
  <2> QED
    BY <2>2 DEF Both, Sent, File
<1>2. ASSUME UploadsInv PROVE PartialUploadEndsRun
  <2> SUFFICES ASSUME NEW k \in Account, NEW l \in Account,
                      Sent(k, "zip"), ~Sent(k, "json"), process # "running"
               PROVE  /\ process = "failed" /\ ~usage.sent
                      /\ l # k /\ Sent(l, "zip") => Sent(l, "json")
    BY DEF PartialUploadEndsRun, Sent
  <2>1. \A m : Sent(m, "zip") => \E copy \in received : copy.key = m
    BY DEF Sent
  <2>2. pc = "send" /\ k = sending.key
    BY <1>2, <2>1 DEF UploadsInv, TypeOK, NothingYet, DoneAtNext, DoneAtSend, DoneAtUsage, Both
  <2>3. process = "failed" /\ ~usage.sent
    BY <1>2, <2>2 DEF UploadsInv, TypeOK, EndsAtItsPlace
  <2>4. l # k /\ Sent(l, "zip") => Sent(l, "json")
    BY <1>2, <2>1, <2>2 DEF UploadsInv, DoneAtSend, Both
  <2> QED
    BY <2>3, <2>4
<1>3. UploadsInv => UploadsAccounted
  BY <1>1, <1>2 DEF UploadsInv, UploadsAccounted
<1> QED
  BY <1>3, UploadsInvariant, PTL

=============================================================================

---------------------------- MODULE ScriptStore ----------------------------
(***************************************************************************)
(* The script store: updateScript, createScript and deleteScript of        *)
(* src/src/storage.ts, called by the requests of src/src/apiscripts.ts,    *)
(* over three tables (scripts, scriptVersions, scriptVersionSha) and one   *)
(* blob container.                                                         *)
(*                                                                         *)
(* A request runs from one await to the next, and every await of these     *)
(* functions is one operation on the storage service, so there is one      *)
(* action per operation.  The service does each operation atomically, but  *)
(* there are no transactions: any number of requests interleave, and a     *)
(* request may stop after any of its steps (the service refuses, the body  *)
(* is over the limit, the gateway restarts) leaving what it did.           *)
(***************************************************************************)
EXTENDS Naturals, FiniteSets

CONSTANTS
  Requests,    \* request handlers that run at the same time
  Scripts,     \* the identifiers uniqueKey can return
  Bodies,      \* script bodies
  Sha,         \* the hash of the program in each body, None if it has none
  Oversize,    \* bodies verifyBody lets in and createScriptSnapshot does not
  None,        \* no body, no hash, no entry
  MaxVersion,  \* bound: versions of a script
  MayFail      \* can the service fail and the gateway restart?

Shas == {Sha[b] : b \in Bodies} \ {None}
Versions == 1..MaxVersion

ASSUME ScriptStoreAssumption ==
  /\ DOMAIN Sha = Bodies
  /\ None \notin Bodies \cup Scripts \cup (Scripts \X Versions)
  /\ Oversize \subseteq Bodies
  /\ MaxVersion \in Nat \ {0}
  /\ MayFail \in BOOLEAN

VARIABLES
  heads,      \* version in the row of each script, 0 if there is no row
  entries,    \* versions of each script with a row in scriptVersions
  blobs,      \* the body stored for each version of each script
  shaIndex,   \* the row of scriptVersionSha: a script and a version
  used,       \* identifiers uniqueKey has returned
  deleting,   \* scripts of which a deletion has begun
  pc,         \* what each request does next
  script, base, body,   \* its script, scr.version and the new body
  todo        \* versions a deletion has listed and not yet deleted

store == <<heads, entries, blobs, shaIndex>>
request == <<pc, script, base, body, todo>>
vars == <<store, used, deleting, request>>

\* Holding the version entry: after createEntity, before the head is written.
Claimed == {"copy", "upload", "index", "head"}
Deleting == {"listBlobs", "delBlobs", "delEntries"}
PCs == {"idle", "claim"} \cup Claimed \cup Deleting

StoreTypes ==
  /\ heads \in [Scripts -> 0..MaxVersion]
  /\ entries \in [Scripts -> SUBSET Versions]
  /\ blobs \in [Scripts -> [Versions -> Bodies \cup {None}]]
  /\ shaIndex \in [Shas -> (Scripts \X Versions) \cup {None}]
RequestTypes ==
  /\ pc \in [Requests -> PCs]
  /\ script \in [Requests -> Scripts \cup {None}]
  /\ base \in [Requests -> 0..(MaxVersion - 1)]
  /\ body \in [Requests -> Bodies \cup {None}]
  /\ todo \in [Requests -> SUBSET Versions]
  /\ \A r \in Requests : pc[r] # "idle" => script[r] \in Scripts

TypeOK ==
  StoreTypes /\ used \subseteq Scripts /\ deleting \subseteq Scripts /\ RequestTypes

Init ==
  /\ heads = [s \in Scripts |-> 0]
  /\ entries = [s \in Scripts |-> {}]
  /\ blobs = [s \in Scripts |-> [v \in Versions |-> None]]
  /\ shaIndex = [h \in Shas |-> None]
  /\ used = {} /\ deleting = {}
  /\ pc = [r \in Requests |-> "idle"]
  /\ script = [r \in Requests |-> None]
  /\ base = [r \in Requests |-> 0]
  /\ body = [r \in Requests |-> None]
  /\ todo = [r \in Requests |-> {}]

Goto(r, label) == pc' = [pc EXCEPT ![r] = label]

\* The request is answered, and its local variables are gone.
Done(r) ==
  /\ Goto(r, "idle")
  /\ script' = [script EXCEPT ![r] = None]
  /\ base' = [base EXCEPT ![r] = 0]
  /\ body' = [body EXCEPT ![r] = None]
  /\ todo' = [todo EXCEPT ![r] = {}]

-----------------------------------------------------------------------------
(* createScript and updateScript. *)

\* A request to publish b (None: keep the body) as the version after n of s.
Begin(r, s, n, b) ==
  /\ pc[r] = "idle" /\ n < MaxVersion
  /\ Goto(r, "claim")
  /\ script' = [script EXCEPT ![r] = s]
  /\ base' = [base EXCEPT ![r] = n]
  /\ body' = [body EXCEPT ![r] = b]
  /\ UNCHANGED <<store, deleting, todo>>

\* PUT and PATCH: fetchScript has read the row of the script.
UpdateBegin(r, s, b) ==
  /\ heads[s] # 0
  /\ Begin(r, s, heads[s], b)
  /\ UNCHANGED used

\* POST: a new identifier, version 0, and a body is required.
CreateBegin(r, s, b) ==
  /\ s \notin used /\ b # None
  /\ used' = used \cup {s}
  /\ Begin(r, s, 0, b)

\* Mutant: an upsert in place of createEntity, which two requests can pass.
ClaimUpsert(r) ==
  LET s == script[r] IN
  /\ pc[r] = "claim"
  /\ entries' = [entries EXCEPT ![s] = @ \cup {base[r] + 1}]
  /\ Goto(r, IF body[r] = None THEN "copy" ELSE "upload")
  /\ UNCHANGED <<heads, blobs, shaIndex, used, deleting, script, base, body, todo>>

\* Mutant: a body that does not change is not stored again.
ClaimNoCopy(r) ==
  LET s == script[r] IN
  /\ pc[r] = "claim"
  /\ base[r] + 1 \notin entries[s]
  /\ entries' = [entries EXCEPT ![s] = @ \cup {base[r] + 1}]
  /\ Goto(r, IF body[r] = None THEN "head" ELSE "upload")
  /\ UNCHANGED <<heads, blobs, shaIndex, used, deleting, script, base, body, todo>>

\* createEntity in scriptVersions: at most one request gets a version.
Claim(r) ==
  LET s == script[r] IN
  /\ pc[r] = "claim"
  /\ base[r] + 1 \notin entries[s]
  /\ entries' = [entries EXCEPT ![s] = @ \cup {base[r] + 1}]
  /\ Goto(r, IF body[r] = None THEN "copy" ELSE "upload")
  /\ UNCHANGED <<heads, blobs, shaIndex, used, deleting, script, base, body, todo>>

\* The row is there: 429, "race condition updating script".
Refused(r) ==
  /\ pc[r] = "claim"
  /\ base[r] + 1 \in entries[script[r]]
  /\ Done(r)
  /\ UNCHANGED <<store, used, deleting>>

\* No body in the request: that of the version the update is based on.
Copy(r) ==
  LET old == blobs[script[r]][base[r]] IN
  /\ pc[r] = "copy"
  /\ base[r] \in Versions /\ old # None
  /\ body' = [body EXCEPT ![r] = old]
  /\ Goto(r, "upload")
  /\ UNCHANGED <<store, used, deleting, script, base, todo>>

\* createScriptSnapshot: uploadBlockBlob overwrites whatever is there.
Upload(r) ==
  /\ pc[r] = "upload" /\ body[r] \notin Oversize
  /\ blobs' = [blobs EXCEPT ![script[r]][base[r] + 1] = body[r]]
  /\ Goto(r, IF Sha[body[r]] = None THEN "head" ELSE "index")
  /\ UNCHANGED <<heads, entries, shaIndex, used, deleting, script, base, body, todo>>

\* 413, "script too big": the version entry is left behind.
TooBig(r) ==
  /\ pc[r] = "upload" /\ body[r] \in Oversize
  /\ Done(r)
  /\ UNCHANGED <<store, used, deleting>>

\* Mutant: the index row names the version the update started from.
IndexOld(r) ==
  /\ pc[r] = "index"
  /\ shaIndex' = [shaIndex EXCEPT ![Sha[body[r]]] = <<script[r], base[r]>>]
  /\ Goto(r, "head")
  /\ UNCHANGED <<heads, entries, blobs, used, deleting, script, base, body, todo>>

\* upsertScriptVersionShaSnapshot: the last one to store a program wins.
Index(r) ==
  /\ pc[r] = "index"
  /\ shaIndex' = [shaIndex EXCEPT ![Sha[body[r]]] = <<script[r], base[r] + 1>>]
  /\ Goto(r, "head")
  /\ UNCHANGED <<heads, entries, blobs, used, deleting, script, base, body, todo>>

\* The row of the script: createEntity for version 1 needs it absent, the
\* "Merge" of a later version needs it present; otherwise the request fails.
HeadFits(r) == (base[r] = 0) <=> (heads[script[r]] = 0)

WriteHead(r) ==
  LET s == script[r] IN
  /\ pc[r] = "head"
  /\ HeadFits(r)
  /\ heads' = [heads EXCEPT ![s] = base[r] + 1]
  /\ Done(r)
  /\ UNCHANGED <<entries, blobs, shaIndex, used, deleting>>

-----------------------------------------------------------------------------
(* deleteScript: blobs, then version entries, then the row. *)

DeleteBegin(r, s) ==
  /\ pc[r] = "idle" /\ heads[s] # 0
  /\ Goto(r, "listBlobs")
  /\ script' = [script EXCEPT ![r] = s]
  /\ deleting' = deleting \cup {s}
  /\ UNCHANGED <<store, used, base, body, todo>>

ListBlobs(r) ==
  /\ pc[r] = "listBlobs"
  /\ todo' = [todo EXCEPT ![r] = {v \in Versions : blobs[script[r]][v] # None}]
  /\ Goto(r, "delBlobs")
  /\ UNCHANGED <<store, used, deleting, script, base, body>>

\* Keys are 1e6 - version, so a listing starts with the newest version.
Newest(s) == CHOOSE v \in s : \A w \in s : w <= v

DelBlob(r) ==
  LET v == Newest(todo[r]) IN
  /\ pc[r] = "delBlobs" /\ todo[r] # {}
  /\ blobs[script[r]][v] # None
  /\ blobs' = [blobs EXCEPT ![script[r]][v] = None]
  /\ todo' = [todo EXCEPT ![r] = @ \ {v}]
  /\ UNCHANGED <<heads, entries, shaIndex, used, deleting, pc, script, base, body>>

ListEntries(r) ==
  /\ pc[r] = "delBlobs" /\ todo[r] = {}
  /\ todo' = [todo EXCEPT ![r] = entries[script[r]]]
  /\ Goto(r, "delEntries")
  /\ UNCHANGED <<store, used, deleting, script, base, body>>

DelEntry(r) ==
  LET v == Newest(todo[r]) IN
  /\ pc[r] = "delEntries" /\ todo[r] # {}
  /\ v \in entries[script[r]]
  /\ entries' = [entries EXCEPT ![script[r]] = @ \ {v}]
  /\ todo' = [todo EXCEPT ![r] = @ \ {v}]
  /\ UNCHANGED <<heads, blobs, shaIndex, used, deleting, pc, script, base, body>>

DelHead(r) ==
  LET s == script[r] IN
  /\ pc[r] = "delEntries" /\ todo[r] = {}
  /\ heads[s] # 0
  /\ heads' = [heads EXCEPT ![s] = 0]
  /\ Done(r)
  /\ UNCHANGED <<entries, blobs, shaIndex, used, deleting>>

-----------------------------------------------------------------------------
\* The step in hand fails, or the gateway restarts: what was done stays.
\* A step that finds what it needs gone (404) has no other outcome.
MustFail(r) ==
  \/ pc[r] = "copy" /\ blobs[script[r]][base[r]] = None
  \/ pc[r] = "head" /\ ~HeadFits(r)
  \/ pc[r] = "delBlobs" /\ todo[r] # {} /\ blobs[script[r]][Newest(todo[r])] = None
  \/ pc[r] = "delEntries" /\ todo[r] # {} /\ Newest(todo[r]) \notin entries[script[r]]
  \/ pc[r] = "delEntries" /\ todo[r] = {} /\ heads[script[r]] = 0

Fail(r) ==
  /\ pc[r] # "idle"
  /\ MayFail \/ MustFail(r)
  /\ Done(r)
  /\ UNCHANGED <<store, used, deleting>>

Next ==
  \E r \in Requests :
    \/ \E s \in Scripts :
         \/ \E b \in Bodies \cup {None} : UpdateBegin(r, s, b) \/ CreateBegin(r, s, b)
         \/ DeleteBegin(r, s)
    \/ Claim(r) \/ Refused(r) \/ Copy(r) \/ Upload(r) \/ TooBig(r)
    \/ Index(r) \/ WriteHead(r)
    \/ ListBlobs(r) \/ DelBlob(r) \/ ListEntries(r) \/ DelEntry(r) \/ DelHead(r)
    \/ Fail(r)

Spec == Init /\ [][Next]_vars

-----------------------------------------------------------------------------
(* Properties.  A script is live until its deletion begins. *)

Live == Scripts \ deleting

\* Every version up to the one in the row of a live script has its entry and
\* its blob, whatever raced and wherever requests stopped: the order of the
\* writes in updateScript.
HeadComplete ==
  \A s \in Live : \A v \in 1..heads[s] : v \in entries[s] /\ blobs[s][v] # None

\* A row of the sha index leads to the program it names ("only create index
\* entry after creating blob", line 508 of storage.ts).
ShaIndexSound ==
  \A h \in Shas : \A s \in Live, v \in Versions :
    shaIndex[h] = <<s, v>> => blobs[s][v] # None /\ Sha[blobs[s][v]] = h

\* Between its claim and the write of the row, no other update of the script
\* is there and the row still has the version the update is based on.
ClaimExclusive ==
  \A r \in Requests : pc[r] \in Claimed /\ script[r] \in Live =>
    /\ heads[script[r]] = base[r]
    /\ \A q \in Requests : pc[q] \in Claimed /\ script[q] = script[r] => q = r

\* The inductive invariant behind the properties above.  A request that has
\* not claimed yet is not ahead of the row; one that has holds its entry, and
\* the blob of that entry is written by it alone.
InOrder ==
  \A r \in Requests :
    /\ pc[r] \in {"upload", "index", "head"} => body[r] \in Bodies
    /\ pc[r] = "index" => Sha[body[r]] # None
    /\ pc[r] \in Deleting => script[r] \in deleting
    /\ pc[r] = "claim" /\ script[r] \in Live => base[r] <= heads[script[r]]
    /\ pc[r] \in Claimed /\ script[r] \in Live =>
         /\ base[r] + 1 \in entries[script[r]]
         /\ blobs[script[r]][base[r] + 1] =
              IF pc[r] \in {"index", "head"} THEN body[r] ELSE None

\* No blob without its version entry.
NoStrayBlob ==
  \A s \in Live : \A v \in Versions : v \notin entries[s] => blobs[s][v] = None

IInv ==
  /\ TypeOK /\ HeadComplete /\ ClaimExclusive /\ ShaIndexSound
  /\ InOrder /\ NoStrayBlob

\* The store is a ScriptLog: the versions up to the row of a live script.
Log == INSTANCE ScriptLog WITH
  log <- [s \in Scripts |->
            IF s \in deleting THEN <<>> ELSE [v \in 1..heads[s] |-> blobs[s][v]]],
  dropped <- deleting
ImplementsLog == Log!Spec
=============================================================================

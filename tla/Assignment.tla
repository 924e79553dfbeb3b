----------------------------- MODULE Assignment -----------------------------
(***************************************************************************)
(* A device and the script store: patchDevice of apidevices.ts assigns a   *)
(* script to the device, and syncScript of wssk.ts downloads its body,     *)
(* while requests publish and delete versions (ScriptStore).               *)
(*                                                                         *)
(* The write of the row is one step here; what races with it is in         *)
(* Registry, and what is done with the program in Deploy.                  *)
(***************************************************************************)
EXTENDS ScriptStore

VARIABLES
  patch,      \* what patchDevice is about to assign, None outside
  assigned,   \* script and version of the row, None before the first PATCH
  fetching,   \* those of a download in progress, None outside
  loaded      \* history: bodies that downloads brought, by version

assignment == <<patch, assigned, fetching, loaded>>
avars == <<vars, assignment>>

\* default: scriptVersion was not given, and is that of the script's row.
Ref == [script : Scripts, version : Versions, default : BOOLEAN]

ATypeOK ==
  /\ patch \in Ref \cup {None}
  /\ assigned \in Ref \cup {None}
  /\ fetching \in Ref \cup {None}
  /\ loaded \in [Scripts -> [Versions -> SUBSET Bodies]]

AInit ==
  /\ Init
  /\ patch = None /\ assigned = None /\ fetching = None
  /\ loaded = [s \in Scripts |-> [v \in Versions |-> {}]]

-----------------------------------------------------------------------------
\* Mutant: the newest version entry in place of the row of the script.
ChooseLatestEntry(s) ==
  /\ patch = None /\ entries[s] # {}
  /\ patch' = [script |-> s, version |-> Newest(entries[s]), default |-> TRUE]
  /\ UNCHANGED <<vars, assigned, fetching, loaded>>

\* getScript with no version: the row of the script, or 404.
ChooseLatest(s) ==
  /\ patch = None /\ heads[s] # 0
  /\ patch' = [script |-> s, version |-> heads[s], default |-> TRUE]
  /\ UNCHANGED <<vars, assigned, fetching, loaded>>

\* getScript with one: the row, and then the entry of the version.
ChooseVersion(s, v) ==
  /\ patch = None /\ heads[s] # 0 /\ v \in entries[s]
  /\ patch' = [script |-> s, version |-> v, default |-> FALSE]
  /\ UNCHANGED <<vars, assigned, fetching, loaded>>

\* updateDevice.
Assign ==
  /\ patch # None
  /\ assigned' = patch /\ patch' = None
  /\ UNCHANGED <<vars, fetching, loaded>>

\* It fails, or an earlier part of the request does.
NotAssigned ==
  /\ patch # None /\ MayFail
  /\ patch' = None
  /\ UNCHANGED <<vars, assigned, fetching, loaded>>

\* syncScript, for the row as it is now or as an update of it published.
Fetch ==
  /\ fetching = None /\ assigned # None
  /\ fetching' = assigned
  /\ UNCHANGED <<vars, patch, assigned, loaded>>

Stored(ref) == blobs[ref.script][ref.version]

\* The body is there, long enough and of the right magic: setDeploy.
Fetched ==
  /\ fetching # None /\ Stored(fetching) # None
  /\ loaded' = [loaded EXCEPT ![fetching.script][fetching.version] = @ \cup {Stored(fetching)}]
  /\ fetching' = None
  /\ UNCHANGED <<vars, patch, assigned>>

\* An exception, which is reported, or a program that is too short or has a bad
\* magic, which is a warning: the next update of the row tries again.
FetchFails ==
  /\ fetching # None
  /\ fetching' = None
  /\ UNCHANGED <<vars, patch, assigned, loaded>>

ANext ==
  \/ Next /\ UNCHANGED assignment
  \/ \E s \in Scripts :
       ChooseLatest(s) \/ \E v \in Versions : ChooseVersion(s, v)
  \/ Assign \/ NotAssigned
  \/ Fetch \/ Fetched \/ FetchFails

ASpec == AInit /\ [][ANext]_avars

-----------------------------------------------------------------------------
(* Properties. *)

\* A device that is given the latest version of a script can load it, as long
\* as the script is not deleted, whatever races with the two reads and the
\* write of patchDevice, and wherever updates of the script stopped.
LatestCanBeLoaded ==
  \A ref \in {patch, assigned} \ {None} :
    ref.default /\ ref.script \in Live => Stored(ref) # None

\* A version of a script is the same program each time a device loads it.
SameEveryTime ==
  \A s \in Live, v \in Versions : Cardinality(loaded[s][v]) <= 1

\* What a device is given as the latest version is no later than the row of
\* the script, and what it has loaded is what is stored.
NotAhead ==
  \A ref \in {patch, assigned} \ {None} :
    ref.default /\ ref.script \in Live => ref.version <= heads[ref.script]
AsStored ==
  \A s \in Live, v \in Versions : loaded[s][v] \subseteq {blobs[s][v]} \ {None}

AIInv == IInv /\ ATypeOK /\ NotAhead /\ AsStored
=============================================================================

--------------------------- MODULE DeployPromise ---------------------------
(***************************************************************************)
(* What the deployment engine promises about a device: a hash it vouches   *)
(* for (backoff cleared after the device reported it) is the hash of a     *)
(* whole program, the device holds that program, and nothing the engine    *)
(* sends touches it until the engine has taken its word back.              *)
(***************************************************************************)
CONSTANTS
  Programs,   \* the whole programs a device can be asked to hold
  Contents,   \* whatever can be in its flash
  None        \* nothing vouched for

VARIABLES
  image,      \* what is in the flash
  vouched     \* the program the engine vouches for, or None

Init == image \in Contents /\ vouched = None

\* The engine stops vouching: a new deployment, a lost connection.
Doubt == vouched' = None /\ UNCHANGED image

\* The flash changes, which only happens in doubt.
Rewrite == vouched = None /\ vouched' = None /\ image' \in Contents

\* The engine vouches for a whole program, and it is the one in the flash.
Vouch == image \in Programs /\ vouched' = image /\ UNCHANGED image

Next == Doubt \/ Rewrite \/ Vouch

Spec == Init /\ [][Next]_<<image, vouched>>
=============================================================================

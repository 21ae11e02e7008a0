--------------------------- MODULE SensorRegistry ---------------------------
(***************************************************************************)
(* What the registry of sensors promises to the settings page and to any   *)
(* other connection: it changes by whole rounds of the bus. A round        *)
(* searches the bus; then exactly the rows of the sensors it found are     *)
(* active, and the rest of an old row is as it was. A round may be given    *)
(* up, and leaves nothing to be seen.                                      *)
(***************************************************************************)
EXTENDS Integers

CONSTANTS
  Sensors,
  Swapping,   \* TRUE: the settings page writes rows too
  None

VARIABLES registry, found

Search == found' \in SUBSET Sensors /\ UNCHANGED registry

\* A row that was not there is of a sensor this round or one that was given up
\* has found.
Round ==
  /\ UNCHANGED found
  /\ DOMAIN registry \subseteq DOMAIN registry'
  /\ \A id \in DOMAIN registry :
       registry'[id] = [registry[id] EXCEPT !.active = registry'[id].active]
  /\ \A id \in DOMAIN registry' \ DOMAIN registry :
       /\ registry'[id].hex \in Sensors /\ ~registry'[id].log
       /\ \A o \in DOMAIN registry' : registry'[o].hex = registry'[id].hex => o = id
  /\ \A id \in DOMAIN registry' : registry'[id].active => registry'[id].hex \in found
  /\ \A s \in found : \E id \in DOMAIN registry' :
       /\ registry'[id].hex = s /\ registry'[id].active
       /\ \A o \in DOMAIN registry' \ {id} : registry'[o].hex = s => ~registry'[o].active

\* the page wants a row logged
WantLog(id) ==
  /\ registry' = [registry EXCEPT ![id].log = TRUE]
  /\ UNCHANGED found

\* one row of the table is written by the page
PageWrite(id) ==
  /\ DOMAIN registry' = DOMAIN registry
  /\ \A o \in DOMAIN registry \ {id} : registry'[o] = registry[o]
  /\ UNCHANGED found

RegistryInit ==
  /\ \A id \in DOMAIN registry : registry[id].hex \in Sensors
  /\ found = {}

RegistryNext ==
  \/ Search
  \/ Round
  \/ \E id \in DOMAIN registry : WantLog(id)
  \/ Swapping /\ \E id \in DOMAIN registry : PageWrite(id)

RegistrySpec == RegistryInit /\ [][RegistryNext]_<<registry, found>>

=============================================================================

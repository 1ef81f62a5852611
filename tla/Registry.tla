------------------------------ MODULE Registry ------------------------------
(***************************************************************************)
(* How one agent reads the fleet's registry and publishes its own record   *)
(* (app/registrysync.go over adapters/registryalgo, with the file cache of *)
(* adapters/registryfile).  The registry is a set of boxes on a chain: its *)
(* list is read name by name while others write, and a write is a          *)
(* transaction that may land long after its sender gave up on it.  The     *)
(* other agents run the same code and appear by what they write; an        *)
(* operator removes records.  A record is its static facts: versions and   *)
(* update rounds decide nothing, and sealing and balances are left out.    *)
(***************************************************************************)
EXTENDS Integers, FiniteSets

CONSTANTS
  Self,         \* this agent
  Others,       \* the agents of the other nodes
  Facts,        \* the static facts a record may hold
  None,         \* no record
  MaxChanges,   \* bound on what the others, the operator and the node change
  MaxFaults,    \* bound on the reads, writes and cache files that fail
  MaxRestarts   \* bound on the restarts of the agent

ASSUME RegistryAssumption ==
  /\ Self \notin Others /\ None \notin Facts
  /\ MaxChanges \in Nat /\ MaxFaults \in Nat /\ MaxRestarts \in Nat

VARIABLES
  box,        \* the registry: each agent's record
  sent,       \* the writes of this agent that are under way
  undone,     \* who overwrote its record since this run last read or wrote it
  want,       \* localRecord: what its configuration and its node say of it
  said,       \* what it registered, or is registering
  pc,         \* where Run is
  names,      \* the boxes that List has yet to read
  recs,       \* what it has read
  registered, \* Run's flag
  kick,       \* the channel of RefreshNow holds an element
  rested,     \* a tenth of the refresh period has passed since the last one
  known,      \* the records of the directory (SetRecords)
  cache,      \* the cache file
  spent       \* the changes, faults and restarts so far

chain == <<box, sent, undone>>
reading == <<pc, names, recs>>
running == <<want, said, registered, kick, rested, known, cache>>
registryVars == <<chain, reading, running, spent>>

Agents == {Self} \cup Others
NoRecords == [a \in Agents |-> None]
Nobody == [a \in Others |-> None]

Spend(what, bound) == spent[what] < bound /\ spent' = [spent EXCEPT ![what] = @ + 1]
Change == Spend("changes", MaxChanges)
Fault == Spend("faults", MaxFaults)

RegistryInit ==
  /\ box \in [Agents -> Facts \cup {None}]
  /\ sent = {} /\ undone = "no"
  /\ want \in Facts /\ said = None
  /\ pc = "read" /\ names = {} /\ recs = NoRecords
  /\ registered = FALSE
  /\ kick = FALSE /\ rested = TRUE
  /\ known = Nobody /\ cache = NoRecords
  /\ spent = [changes |-> 0, faults |-> 0, restarts |-> 0]

-----------------------------------------------------------------------------
(* The chain, the other agents, the operator and the node.                 *)

\* Another agent registers, or an operator removes its record.
OtherWrites(a) ==
  /\ Change
  /\ \E f \in (Facts \cup {None}) \ {box[a]} : box' = [box EXCEPT ![a] = f]
  /\ UNCHANGED <<sent, undone, reading, running>>

\* registry rm, of this agent's record.
RemoveRecord ==
  /\ box[Self] # None /\ Change
  /\ box' = [box EXCEPT ![Self] = None]
  /\ undone' = "removed"
  /\ UNCHANGED <<sent, reading, running>>

\* The monitor read the node's files again, and found another token.
TokenChanges ==
  /\ pc # "down" /\ Change
  /\ want' \in Facts \ {want}
  /\ UNCHANGED <<chain, reading, said, registered, kick, rested, known, cache>>

\* A transaction of the agent is confirmed, whether or not it waits for it.
TxLands(f) ==
  /\ f \in sent
  /\ sent' = sent \ {f}
  /\ box' = [box EXCEPT ![Self] = f]
  /\ undone' = IF pc = "write" /\ f = said THEN "no" ELSE "late"
  /\ pc' = IF pc = "write" /\ f = said THEN "landed" ELSE pc
  /\ UNCHANGED <<names, recs, running, spent>>

\* It is dropped.
TxDies(f) ==
  /\ f \in sent /\ Fault
  /\ sent' = sent \ {f}
  /\ UNCHANGED <<box, undone, reading, running>>

-----------------------------------------------------------------------------
(* List.                                                                   *)

ListNames ==
  /\ pc = "read"
  /\ names' = {a \in Agents : box[a] # None}
  /\ recs' = NoRecords
  /\ pc' = "boxes"
  /\ UNCHANGED <<chain, running, spent>>

\* A record that is gone by now is skipped.
ReadBox(a) ==
  /\ pc = "boxes" /\ a \in names
  /\ names' = names \ {a}
  /\ recs' = [recs EXCEPT ![a] = box[a]]
  /\ undone' = IF a = Self /\ ~registered THEN "no" ELSE undone
  /\ UNCHANGED <<box, sent, pc, running, spent>>

\* refresh fails, and nothing is applied.
ReadFails ==
  /\ pc \in {"read", "boxes"} /\ Fault
  /\ names' = {} /\ recs' = NoRecords
  /\ pc' = "retry"
  /\ UNCHANGED <<chain, running>>

-----------------------------------------------------------------------------
(* refresh: register, SetRecords, Save.                                    *)

ListRead == pc = "boxes" /\ names = {}

\* AutoRegister is on.
Registers == ~registered

\* (mutant) any record of this agent is taken for the one it wants
AnyRecord == recs[Self] # None

\* StaticEqual
UpToDate == recs[Self] = want

\* Nothing is registered any more, or not yet: the local record is not known,
\* or the write fails before it is sent.
NotRegistered ==
  /\ ListRead
  /\ (~Registers /\ UNCHANGED spent) \/ Fault
  /\ pc' = "apply"
  /\ UNCHANGED <<chain, names, recs, running>>

AlreadyThere ==
  /\ ListRead /\ Registers /\ UpToDate
  /\ said' = want
  /\ registered' = TRUE
  /\ pc' = "apply"
  /\ UNCHANGED <<chain, names, recs, want, kick, rested, known, cache, spent>>

Put ==
  /\ ListRead /\ Registers /\ ~UpToDate
  /\ said' = want
  /\ sent' = sent \cup {want}
  /\ pc' = "write"
  /\ UNCHANGED <<box, undone, names, recs, want, registered, kick, rested, known, cache, spent>>

\* The wait ends well, and upsert adds the record to what was read.
Confirmed ==
  /\ pc = "landed"
  /\ recs' = [recs EXCEPT ![Self] = said]
  /\ registered' = TRUE
  /\ pc' = "apply"
  /\ UNCHANGED <<chain, names, want, said, kick, rested, known, cache, spent>>

\* It fails: the transaction has landed, or will, or is dropped.
ConfirmFails ==
  /\ pc \in {"write", "landed"}
  /\ (said \notin sent /\ pc = "write" /\ UNCHANGED spent) \/ Fault
  /\ pc' = "apply"
  /\ UNCHANGED <<chain, names, recs, running>>

\* (mutant) records that are gone stay
Added == [a \in Others |-> IF recs[a] = None THEN known[a] ELSE recs[a]]

\* SetRecords: the list replaces the peers, and this agent is none of them.
Replaced == [a \in Others |-> recs[a]]

SetRecords ==
  /\ pc = "apply"
  /\ known' = Replaced
  /\ pc' = "save"
  /\ UNCHANGED <<chain, names, recs, want, said, registered, kick, rested, cache, spent>>

\* The file is replaced at once, or stays as it was.  Run waits for the next
\* refresh, or retries sooner.
Save ==
  /\ pc = "save"
  /\ \/ cache' = recs /\ UNCHANGED spent
     \/ Fault /\ UNCHANGED cache
  /\ pc' = IF registered THEN "idle" ELSE "retry"
  /\ recs' = NoRecords
  /\ UNCHANGED <<chain, names, want, said, registered, kick, rested, known>>

-----------------------------------------------------------------------------
(* Run's waits, RefreshNow, and the process.                               *)

\* The sleep before a retry ends, or the refresh period.
Wakes ==
  /\ pc \in {"retry", "idle"}
  /\ pc' = "read"
  /\ UNCHANGED <<chain, names, recs, running, spent>>

\* Only a Run that waits for the period takes the kick.
Kicked ==
  /\ pc = "idle" /\ kick
  /\ kick' = FALSE
  /\ pc' = "read"
  /\ UNCHANGED <<chain, names, recs, want, said, registered, rested, known, cache, spent>>

\* A heartbeat of a node the directory does not know.
RefreshNow(a) ==
  /\ pc # "down" /\ known[a] = None /\ rested
  /\ kick' = TRUE
  /\ rested' = FALSE
  /\ UNCHANGED <<chain, reading, want, said, registered, known, cache, spent>>

Rests ==
  /\ ~rested
  /\ rested' = TRUE
  /\ UNCHANGED <<chain, reading, want, said, registered, kick, known, cache, spent>>

\* The process ends, anywhere.
Crash ==
  /\ pc # "down" /\ Spend("restarts", MaxRestarts)
  /\ pc' = "down" /\ names' = {} /\ recs' = NoRecords
  /\ said' = None /\ registered' = FALSE
  /\ kick' = FALSE /\ rested' = TRUE
  /\ known' = Nobody
  /\ UNCHANGED <<chain, want, cache>>

\* Run begins with the cache, if it can be read; the configuration may be
\* another.
Start ==
  /\ pc = "down"
  /\ want' \in Facts
  /\ \/ known' = [a \in Others |-> cache[a]] /\ UNCHANGED spent
     \/ Fault /\ UNCHANGED known
  /\ pc' = "read"
  /\ undone' = "no"
  /\ UNCHANGED <<box, sent, names, recs, said, registered, kick, rested, cache>>

-----------------------------------------------------------------------------
Refresh ==
  \/ ListNames \/ (\E a \in Agents : ReadBox(a)) \/ ReadFails
  \/ NotRegistered \/ AlreadyThere \/ Put \/ Confirmed \/ ConfirmFails
  \/ SetRecords \/ Save \/ Wakes \/ Kicked

RegistryNext ==
  \/ (\E a \in Others : OtherWrites(a) \/ RefreshNow(a))
  \/ RemoveRecord \/ TokenChanges
  \/ (\E f \in Facts : TxLands(f) \/ TxDies(f))
  \/ Refresh \/ Rests \/ Crash \/ Start

-----------------------------------------------------------------------------
(* Properties.                                                             *)

RegistryTypeOK ==
  /\ box \in [Agents -> Facts \cup {None}]
  /\ recs \in [Agents -> Facts \cup {None}] /\ cache \in [Agents -> Facts \cup {None}]
  /\ known \in [Others -> Facts \cup {None}]
  /\ sent \subseteq Facts /\ undone \in {"no", "removed", "late"}
  /\ want \in Facts /\ said \in Facts \cup {None}
  /\ registered \in BOOLEAN /\ kick \in BOOLEAN /\ rested \in BOOLEAN
  /\ pc \in {"down", "read", "boxes", "write", "landed", "apply", "save", "retry", "idle"}
  /\ names \subseteq Agents
  /\ spent \in [changes : 0 .. MaxChanges, faults : 0 .. MaxFaults, restarts : 0 .. MaxRestarts]

\* When the registry is left alone, a running agent comes to know all of it,
\* though the kick of a newcomer may fall into the quiet time of another, or
\* into a refresh that had listed the boxes before.
RegistryIsLearnt == <>[](pc # "down" => \A a \in Others : known[a] = box[a])

\* What a run does not see any more once it has looked at its record: an
\* operator takes the record out, an older write of the agent lands on it, or
\* the agent comes to want another one.  The code does not look again, though
\* registrysync.go says that it keeps the node's own record up to date.
Overlooked == undone # "no" \/ want # said

\* Whatever was wrong with the agent's record when a run last looked at it is
\* set right by that run: what happened before its start or before its last
\* read, and the reads and writes that failed since, leave no trace.  What is
\* Overlooked stays wrong until the agent is started again.
RecordIsSetRight ==
  <>[](pc # "down" => registered /\ (box[Self] = want \/ Overlooked))
=============================================================================

----------------------------- MODULE ProbeLedger -----------------------------
(***************************************************************************)
(* What the slot table promises the owner of the probes, without slots,    *)
(* keys, saves or copies: a ledger of what each probe is used for.  A      *)
(* request changes the entry of one probe, and at most takes a channel     *)
(* from another; a restart may come at any moment, and brings every entry  *)
(* back of which the owner has been told.                                  *)
(***************************************************************************)
CONSTANTS
  Addrs,     \* the probes
  Channels,  \* the roles only one probe may have
  Names, NoName

VARIABLES
  entry,  \* what the running device uses each probe for
  told    \* what the owner was last told of it, or Open

ledger == <<entry, told>>

Uses    == [role : Channels \cup {"none", "custom"}, name : Names \cup {NoName}]
NoUse   == [role |-> "none", name |-> NoName]
Open    == [role |-> "open", name |-> NoName]

LInit == entry \in [Addrs -> Uses] /\ told = [a \in Addrs |-> Open]

\* Probe b loses channel r, if it has it, and keeps any other use.
Loses(b, r) ==
  entry'[b] = IF r \in Channels /\ entry[b].role = r THEN NoUse ELSE entry[b]

\* Nobody has been told of an entry that has just changed.
KeepTold == told' = [b \in Addrs |-> IF entry'[b] = told[b] THEN told[b] ELSE Open]

\* Probe a is given a role; a custom name belongs to one probe.
Give(a, r, name) ==
  /\ entry'[a] = [role |-> r, name |-> IF r = "custom" THEN name ELSE NoName]
  /\ \A b \in Addrs \ {a} : Loses(b, r)
  /\ r = "custom" =>
       /\ name # NoName
       /\ \A b \in Addrs \ {a} : ~(entry[b].role = "custom" /\ entry[b].name = name)

\* A request that fails for want of room has taken the channel all the same.
TakeAway(r) == \A b \in Addrs : Loses(b, r)

Request == /\ entry' \in [Addrs -> Uses]
           /\ KeepTold
           /\ \/ \E a \in Addrs, r \in Channels \cup {"none", "custom"},
                   n \in Names \cup {NoName} : Give(a, r, n)
              \/ \E r \in Channels : TakeAway(r)

\* The request is answered: everything is saved.
Tell == told' = entry /\ UNCHANGED entry

\* A restart.  Entries nobody has been told of come back as anything.
Restart ==
  /\ UNCHANGED told
  /\ entry' \in [Addrs -> Uses]
  /\ \A a \in Addrs : told[a] # Open => entry'[a] = told[a]

LNext == Restart \/ Tell \/ Request

LSpec == LInit /\ [][LNext]_ledger

\* The ledger on a medium that is erased as a whole before it is written: a
\* restart may find it blank.
Blank == entry' = [a \in Addrs |-> NoUse] /\ UNCHANGED told

ErasingSpec == LInit /\ [][LNext \/ Blank]_ledger
=============================================================================

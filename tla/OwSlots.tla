------------------------------- MODULE OwSlots -------------------------------
(***************************************************************************)
(* The 1-Wire slot table and its rules (hcs_sensor_logic.h): which probe   *)
(* feeds the outdoor and the return channel, and which is published under  *)
(* a custom name.  Pure operators on tables, used by SettingsStore and     *)
(* Probes.  The hex codec is abstracted: an address is a model value, and  *)
(* an address the parser rejects is BadAddr.  A custom name is the value   *)
(* ow_sanitize_name makes of it, NoName when it rejects what was sent.     *)
(***************************************************************************)
EXTENDS Naturals

CONSTANTS NSlots,   \* kOwMaxSlots (8 in the code)
          Addrs,    \* ROM addresses of the probes that may be named
          NoAddr,   \* the empty address of a free slot
          Names,    \* custom names that pass ow_sanitize_name
          NoName    \* no name, and a name ow_sanitize_name rejects

ASSUME SlotAssumption == /\ NSlots \in Nat \ {0}
                         /\ NoAddr \notin Addrs
                         /\ NoName \notin Names

Slots    == 1 .. NSlots
Channels == {"outdoor", "return"}
Roles    == Channels \cup {"none", "custom"}
Slot     == [addr : Addrs \cup {NoAddr}, role : Roles, name : Names \cup {NoName}]
Table    == [Slots -> Slot]

EmptySlot  == [addr |-> NoAddr, role |-> "none", name |-> NoName]
EmptyTable == [i \in Slots |-> EmptySlot]

\* The lowest-numbered slot of a set of slots; 0 when there is none (-1 in the code).
First(S) == IF S = {} THEN 0 ELSE CHOOSE i \in S : \A j \in S : i <= j

\* ow_slot_find and ow_slot_free.
SlotFind(t, a) == First({i \in Slots : t[i].addr = a})
SlotFree(t)    == First({i \in Slots : t[i].addr = NoAddr})

\* ow_addr_for_role: the probe that holds a channel.
AddrForRole(t, r) ==
  LET i == First({j \in Slots : t[j].addr # NoAddr /\ t[j].role = r})
  IN  IF i = 0 THEN NoAddr ELSE t[i].addr

-----------------------------------------------------------------------------
(* ow_assign *)

\* Another slot with the custom role has the name; a slot without an address counts.
NameTaken(t, a, name) ==
  \E i \in Slots : t[i].role = "custom" /\ t[i].addr # a /\ t[i].name = name

\* A channel role is taken from every other slot; the slot keeps its address.
KeepOthers(t, a, r) == t
Steal(t, a, r) ==
  [i \in Slots |-> IF r \in Channels /\ t[i].role = r /\ t[i].addr # a
                     THEN [t[i] EXCEPT !.role = "none", !.name = NoName] ELSE t[i]]

\* The slot the assignment writes; 0 when the probe is new and the table is full.
FirstFreeSlot(t, a) == SlotFree(t)
Target(t, a) == IF SlotFind(t, a) # 0 THEN SlotFind(t, a) ELSE SlotFree(t)

NameRefused(t, a, r, name) == r = "custom" /\ (name = NoName \/ NameTaken(t, a, name))

Accepted(t, a, r, name) ==
  /\ a \in Addrs
  /\ ~NameRefused(t, a, r, name)
  /\ r = "none" \/ Target(t, a) # 0

AssignKeepingName(t, a, r, name) ==
  LET s == Steal(t, a, r)
      i == Target(s, a)
  IN  CASE a \notin Addrs \/ NameRefused(t, a, r, name) -> t
        [] a \in Addrs /\ r = "none" ->
             [j \in Slots |-> IF j = SlotFind(s, a) THEN EmptySlot ELSE s[j]]
        [] OTHER ->
             [j \in Slots |-> IF j = i THEN [addr |-> a, role |-> r, name |-> name] ELSE s[j]]
\* The table ow_assign leaves, accepted or not: a refusal for want of a slot
\* comes after the steal.
Assign(t, a, r, name) ==
  LET s == Steal(t, a, r)
      i == Target(s, a)
  IN  CASE a \notin Addrs \/ NameRefused(t, a, r, name) -> t
        [] a \in Addrs /\ r = "none" ->
             [j \in Slots |-> IF j = SlotFind(s, a) THEN EmptySlot ELSE s[j]]
        [] OTHER ->
             [j \in Slots |-> IF j = i THEN [addr |-> a, role |-> r,
                                             name |-> IF r = "custom" THEN name ELSE NoName]
                                       ELSE s[j]]

\* ow_slots_from_legacy
FromLegacy(out, ret) ==
  LET o == IF out = NoAddr THEN EmptyTable ELSE Assign(EmptyTable, out, "outdoor", NoName)
  IN  IF ret = NoAddr THEN o ELSE Assign(o, ret, "return", NoName)
-----------------------------------------------------------------------------
(* What a table should be *)

OneSlotEach(t) ==
  \A i, j \in Slots : t[i].addr # NoAddr /\ t[i].addr = t[j].addr => i = j

OneHolder(t, r) ==
  \A i, j \in Slots :
    t[i].addr # NoAddr /\ t[j].addr # NoAddr /\ t[i].role = r /\ t[j].role = r => i = j
=============================================================================

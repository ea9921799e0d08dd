--------------------------- MODULE SettingsProofs ---------------------------
(***************************************************************************)
(* The slot table for any number of slots and probes: no probe is ever in  *)
(* two slots, in any copy, and between requests the copies agree.          *)
(*                                                                         *)
(* A save writes one slot at a time over an older table, so what has to be *)
(* shown is that old and new slots can be mixed.  The invariant says that  *)
(* no probe is in one slot of the flash and in another of the RAM (Cross): *)
(* an assignment moves no probe it finds, and adds one only to a table     *)
(* that has it nowhere.                                                    *)
(***************************************************************************)
EXTENDS SettingsStore, WellFoundedInduction, TLAPS

SameAddresses(t, u) == \A i \in Slots : t[i].addr = u[i].addr

\* No probe in different slots of t and u.
Apart(t, u) ==
  \A i, j \in Slots : u[j].addr # NoAddr /\ t[i].addr = u[j].addr => i = j

EachOnce == OneSlotEach(slots) /\ OneSlotEach(sens) /\ OneSlotEach(flash.slots)
Cross    == Apart(flash.slots, slots)
Migrated == flash.kind # "current" => flash.slots = EmptyTable

\* What a save has put so far.
Put == /\ pc \in {"start", "led", "ow_n"} => key_i = 1
       /\ pc \in {"addr", "role", "name", "legacy", "idle"} => flash.kind = "current"
       /\ pc \in {"ow_n", "addr", "role", "name", "legacy"} => flash.led = led
       /\ pc \in {"addr", "role", "name"} =>
            \A i \in Slots : i < key_i => flash.slots[i] = slots[i]
       /\ pc \in {"role", "name"} => flash.slots[key_i].addr = slots[key_i].addr
       /\ pc = "name" => flash.slots[key_i].role = slots[key_i].role
       /\ pc = "legacy" => flash.slots = slots
       /\ pc \in {"erase", "program"} => board = "esp8266"

\* What is saved when none is running.
Saved == pc = "idle" => /\ SameAddresses(flash.slots, slots)
                        /\ "flash" \notin behind => flash.slots = slots
                        /\ board = "esp32" /\ "led" \notin behind => flash.led = led

\* What routes, unless a save is running that will wire the sensors.
Routed == pc = "idle" \/ (pc \in Saving /\ asked \notin Roles) =>
            /\ SameAddresses(sens, slots)
            /\ "sens" \notin behind => sens = slots

Rest == EachOnce /\ Cross /\ Migrated /\ Put /\ Saved /\ Routed
IInv == TypeOK /\ Rest
-----------------------------------------------------------------------------
(* The rules of the table *)

\* First picks a member, and 0 only when there is none.
LEMMA FirstIsMember ==
  ASSUME NEW S \in SUBSET Slots
  PROVE  /\ S = {} => First(S) = 0
         /\ S # {} => First(S) \in S /\ First(S) # 0
<1>1. CASE S = {}
  BY <1>1 DEF First
<1>2. CASE S # {}
  <2>1. S \subseteq Nat /\ 0 \notin S
    BY SlotAssumption DEF Slots
  <2>2. PICK i \in S : \A j \in S : <<j, i>> \notin OpToRel(<, Nat)
    BY <1>2, <2>1, NatLessThanWellFounded, WFMin, Zenon
  <2>3. \A j \in S : i <= j
    <3> TAKE j \in S
    <3>1. i \in Nat /\ j \in Nat
      BY <2>1
    <3>2. ~(j < i)
      BY <2>2, <3>1 DEF OpToRel
    <3> QED
      BY <3>1, <3>2
  <2>4. First(S) \in S
    BY <1>2, <2>3 DEF First
  <2> QED
    BY <1>2, <2>1, <2>4
<1> QED
  BY <1>1, <1>2

\* SlotFind and SlotFree find what there is.
LEMMA Finding ==
  ASSUME NEW t \in Table, NEW a \in Addrs
  PROVE  /\ SlotFind(t, a) # 0 => SlotFind(t, a) \in Slots /\ t[SlotFind(t, a)].addr = a
         /\ SlotFind(t, a) = 0 => \A i \in Slots : t[i].addr # a
         /\ SlotFree(t) # 0 => SlotFree(t) \in Slots /\ t[SlotFree(t)].addr = NoAddr
<1>1. {i \in Slots : t[i].addr = a} \in SUBSET Slots
  OBVIOUS
<1>2. {i \in Slots : t[i].addr = NoAddr} \in SUBSET Slots
  OBVIOUS
<1>3. /\ SlotFind(t, a) # 0 => SlotFind(t, a) \in Slots /\ t[SlotFind(t, a)].addr = a
      /\ SlotFind(t, a) = 0 => \A i \in Slots : t[i].addr # a
  BY <1>1, FirstIsMember DEF SlotFind
<1>4. SlotFree(t) # 0 => SlotFree(t) \in Slots /\ t[SlotFree(t)].addr = NoAddr
  BY <1>2, FirstIsMember DEF SlotFree
<1> QED
  BY <1>3, <1>4

LEMMA TheSlot ==
  ASSUME NEW t \in Table, NEW i \in Slots
  PROVE  /\ t[i] \in Slot /\ t[i].addr \in Addrs \cup {NoAddr}
         /\ t[i].role \in Roles /\ t[i].name \in Names \cup {NoName}
BY DEF Table, Slot

LEMMA EmptyTableType == EmptyTable \in Table /\ \A i \in Slots : EmptyTable[i].addr = NoAddr
BY DEF EmptyTable, EmptySlot, Table, Slot, Roles

\* Taking a channel from its holder moves no probe.
LEMMA StealKeeps ==
  ASSUME NEW t \in Table, NEW a, NEW r \in Roles
  PROVE  Steal(t, a, r) \in Table /\ SameAddresses(Steal(t, a, r), t)
<1> DEFINE s == Steal(t, a, r)
<1>1. \A i \in Slots : s[i] = t[i] \/ s[i] = [t[i] EXCEPT !.role = "none", !.name = NoName]
  BY DEF Steal
<1>2. \A i \in Slots : s[i] \in Slot /\ s[i].addr = t[i].addr
  <2> TAKE i \in Slots
  <2>1. t[i] \in Slot  BY TheSlot
  <2>2. s[i] = t[i] \/ s[i] = [t[i] EXCEPT !.role = "none", !.name = NoName]  BY <1>1
  <2> QED BY ONLY <2>1, <2>2 DEF Slot, Roles
<1>3. s = [i \in Slots |-> s[i]]
  BY DEF Steal
<1> HIDE DEF s
<1>4. s \in Table
  BY <1>2, <1>3 DEF Table
<1> QED
  BY <1>2, <1>4 DEF SameAddresses, s

\* What ow_assign writes, seen slot by slot.
LEMMA AssignSlots ==
  ASSUME NEW t \in Table, NEW a, NEW r \in Roles, NEW name \in Names \cup {NoName}
  PROVE  /\ Assign(t, a, r, name) \in Table
         /\ \A i \in Slots :
              LET u == Assign(t, a, r, name)
              IN  \/ u[i].addr = t[i].addr
                  \/ u[i].addr = NoAddr
                  \/ u[i].addr = a /\ t[i].addr = NoAddr
                     /\ (\A j \in Slots : t[j].addr # a)
                     /\ (\A j \in Slots : u[j].addr = a => i = j)
<1> DEFINE s == Steal(t, a, r)
           u == Assign(t, a, r, name)
<1>1. s \in Table /\ \A i \in Slots : s[i].addr = t[i].addr
  BY StealKeeps DEF SameAddresses
<1>2. CASE a \notin Addrs \/ NameRefused(t, a, r, name)
  <2>1. u = t
    BY <1>2 DEF Assign, NameRefused
  <2> QED
    BY <2>1
<1>3. CASE a \in Addrs /\ ~NameRefused(t, a, r, name) /\ r = "none"
  <2>1. u = [j \in Slots |-> IF j = SlotFind(s, a) THEN EmptySlot ELSE s[j]]
    BY <1>3 DEF Assign
  <2> HIDE DEF u, s
  <2>2. \A j \in Slots : u[j] = EmptySlot \/ u[j] = s[j]
    BY <2>1
  <2>3. EmptySlot \in Slot /\ EmptySlot.addr = NoAddr
    BY DEF EmptySlot, Slot, Roles
  <2>4. u \in Table
    BY <1>1, <2>1, <2>3, TheSlot DEF Table
  <2> QED
    BY <1>1, <2>2, <2>3, <2>4 DEF u
<1>4. CASE a \in Addrs /\ ~NameRefused(t, a, r, name) /\ r # "none"
  <2> DEFINE e == [addr |-> a, role |-> r, name |-> IF r = "custom" THEN name ELSE NoName]
             k == Target(s, a)
  <2>1. u = [j \in Slots |-> IF j = k THEN e ELSE s[j]]
    BY <1>4 DEF Assign
  <2>2. e \in Slot /\ e.addr = a
    BY <1>4 DEF Slot
  <2>3. \/ k \in Slots /\ s[k].addr = a
        \/ k \in Slots /\ s[k].addr = NoAddr /\ \A j \in Slots : s[j].addr # a
        \/ k \notin Slots
    <3> HIDE DEF s
    <3>1. 0 \notin Slots
      BY DEF Slots
    <3> QED
      BY <1>1, <1>4, <3>1, Finding DEF Target
  <2> HIDE DEF u, s, e, k
  <2>4. \A j \in Slots : (j = k /\ u[j] = e) \/ (j # k /\ u[j] = s[j])
    BY <2>1
  <2>5. u \in Table
    BY <1>1, <2>1, <2>2, TheSlot DEF Table
  <2>6. ASSUME NEW i \in Slots
        PROVE  \/ u[i].addr = t[i].addr
               \/ u[i].addr = a /\ t[i].addr = NoAddr
                  /\ (\A j \in Slots : t[j].addr # a)
                  /\ (\A j \in Slots : u[j].addr = a => i = j)
    BY <1>1, <2>2, <2>3, <2>4
  <2> QED
    BY <2>5, <2>6 DEF u
<1> QED
  BY <1>2, <1>3, <1>4

\* An assignment keeps every probe in one slot, also against an older copy that
\* has the same probes in the same slots.
LEMMA AssignKeepsApart ==
  ASSUME NEW t \in Table, NEW f \in Table, NEW a \in Addrs \cup {BadAddr},
         NEW r \in Roles, NEW name \in Names \cup {NoName},
         OneSlotEach(t), SameAddresses(f, t)
  PROVE  OneSlotEach(Assign(t, a, r, name)) /\ Apart(f, Assign(t, a, r, name))
<1> DEFINE u == Assign(t, a, r, name)
<1>1. \A i \in Slots : \/ u[i].addr = t[i].addr
                       \/ u[i].addr = NoAddr
                       \/ u[i].addr = a /\ t[i].addr = NoAddr
                          /\ (\A j \in Slots : t[j].addr # a)
                          /\ (\A j \in Slots : u[j].addr = a => i = j)
  BY AssignSlots
<1> HIDE DEF u
<1>2. OneSlotEach(u)
  BY <1>1 DEF OneSlotEach
<1>3. Apart(f, u)
  BY <1>1 DEF OneSlotEach, Apart, SameAddresses
<1> QED
  BY <1>2, <1>3 DEF u

\* A refused assignment moves no probe.
LEMMA RefusalMovesNothing ==
  ASSUME NEW t \in Table, NEW a \in Addrs \cup {BadAddr},
         NEW r \in Roles, NEW name \in Names \cup {NoName}, ~Accepted(t, a, r, name)
  PROVE  SameAddresses(Assign(t, a, r, name), t)
<1> DEFINE s == Steal(t, a, r)
           u == Assign(t, a, r, name)
<1>1. s \in Table /\ \A i \in Slots : s[i].addr = t[i].addr
  BY StealKeeps DEF SameAddresses
<1>2. CASE a \notin Addrs \/ NameRefused(t, a, r, name)
  BY <1>2 DEF Assign, NameRefused, SameAddresses
<1>3. CASE a \in Addrs /\ ~NameRefused(t, a, r, name)
  <2>1. r # "none" /\ Target(t, a) = 0
    BY <1>3 DEF Accepted
  <2>2. Target(s, a) = Target(t, a)
    <3>1. {i \in Slots : s[i].addr = a} = {i \in Slots : t[i].addr = a}
      BY <1>1
    <3>2. {i \in Slots : s[i].addr = NoAddr} = {i \in Slots : t[i].addr = NoAddr}
      BY <1>1
    <3> HIDE DEF s
    <3> QED
      BY <3>1, <3>2 DEF Target, SlotFind, SlotFree
  <2>3. \A j \in Slots : j # 0
    BY DEF Slots
  <2>4. \A j \in Slots : u[j] = s[j]
    BY <1>3, <2>1, <2>2, <2>3 DEF Assign
  <2> HIDE DEF s, u
  <2>5. SameAddresses(u, t)
    BY <1>1, <2>4 DEF SameAddresses
  <2> QED
    BY <2>5 DEF u
<1> QED
  BY <1>2, <1>3

\* So does the migration of an older table.
LEMMA MigrationKeepsApart ==
  ASSUME NEW o \in Addrs \cup {NoAddr}, NEW q \in Addrs \cup {NoAddr}
  PROVE  FromLegacy(o, q) \in Table /\ OneSlotEach(FromLegacy(o, q))
<1>1. EmptyTable \in Table /\ OneSlotEach(EmptyTable)
  BY EmptyTableType DEF OneSlotEach
<1>2. ASSUME NEW t \in Table, NEW a \in Addrs, NEW r \in Roles, OneSlotEach(t)
      PROVE  Assign(t, a, r, NoName) \in Table /\ OneSlotEach(Assign(t, a, r, NoName))
  <2>1. SameAddresses(t, t)
    BY DEF SameAddresses
  <2> QED
    BY <1>2, <2>1, AssignSlots, AssignKeepsApart
<1> DEFINE u == IF o = NoAddr THEN EmptyTable ELSE Assign(EmptyTable, o, "outdoor", NoName)
<1>3. u \in Table /\ OneSlotEach(u)
  BY <1>1, <1>2 DEF Roles, Channels
<1>4. FromLegacy(o, q) = IF q = NoAddr THEN u ELSE Assign(u, q, "return", NoName)
  BY DEF FromLegacy
<1> HIDE DEF u
<1> QED
  BY <1>2, <1>3, <1>4 DEF Roles, Channels

-----------------------------------------------------------------------------
(* What ow_assign does, probe by probe *)

NoEntry == [role |-> "none", name |-> NoName]

\* The slot an assignment writes, and what it writes there.
Written(t, a, r)  == IF r = "none" THEN SlotFind(t, a) ELSE Target(t, a)
Given(a, r, name) == IF r = "none" THEN EmptySlot
                     ELSE [addr |-> a, role |-> r,
                           name |-> IF r = "custom" THEN name ELSE NoName]

OneRole(t, c) == \A i, j \in Slots : t[i].role = c /\ t[j].role = c => i = j

LEMMA EntryAt ==
  ASSUME NEW t \in Table, NEW a \in Addrs, OneSlotEach(t)
  PROVE  /\ \A i \in Slots : t[i].addr = a =>
              EntryOf(t, a) = [role |-> t[i].role, name |-> t[i].name]
         /\ (\A i \in Slots : t[i].addr # a) => EntryOf(t, a) = NoEntry
<1>1. ASSUME NEW i \in Slots, t[i].addr = a
      PROVE  EntryOf(t, a) = [role |-> t[i].role, name |-> t[i].name]
  <2>1. SlotFind(t, a) # 0 /\ SlotFind(t, a) \in Slots /\ t[SlotFind(t, a)].addr = a
    BY <1>1, Finding
  <2>2. SlotFind(t, a) = i
    BY <1>1, <2>1, SlotAssumption DEF OneSlotEach
  <2> QED
    BY <2>1, <2>2 DEF EntryOf
<1>2. ASSUME \A i \in Slots : t[i].addr # a
      PROVE  EntryOf(t, a) = NoEntry
  <2>1. SlotFind(t, a) = 0
    BY <1>2, Finding
  <2> QED
    BY <2>1 DEF EntryOf, NoEntry
<1> QED
  BY <1>1, <1>2

LEMMA TheHolder ==
  ASSUME NEW t \in Table, NEW c
  PROVE  /\ AddrForRole(t, c) # NoAddr =>
              \E i \in Slots : t[i].addr = AddrForRole(t, c) /\ t[i].role = c
         /\ \A i \in Slots : t[i].addr # NoAddr /\ t[i].role = c /\ OneHolder(t, c) =>
              AddrForRole(t, c) = t[i].addr
<1> DEFINE H == {j \in Slots : t[j].addr # NoAddr /\ t[j].role = c}
<1>1. H \in SUBSET Slots
  OBVIOUS
<1>2. AddrForRole(t, c) = IF First(H) = 0 THEN NoAddr ELSE t[First(H)].addr
  BY DEF AddrForRole
<1>3. /\ H = {} => First(H) = 0
      /\ H # {} => First(H) \in H /\ First(H) # 0
  BY <1>1, FirstIsMember
<1> QED
  BY <1>2, <1>3 DEF OneHolder

\* A steal empties the channel's other slots and leaves the rest as they are.
LEMMA StealTakes ==
  ASSUME NEW t \in Table, NEW a, NEW r \in Roles, NEW i \in Slots
  PROVE  LET s == Steal(t, a, r)
         IN  /\ s[i].addr = t[i].addr
             /\ IF r \in Channels /\ t[i].role = r /\ t[i].addr # a
                  THEN s[i].role = "none" /\ s[i].name = NoName
                  ELSE s[i] = t[i]
<1>1. t[i] \in Slot
  BY TheSlot
<1>2. Steal(t, a, r)[i] = IF r \in Channels /\ t[i].role = r /\ t[i].addr # a
                           THEN [t[i] EXCEPT !.role = "none", !.name = NoName] ELSE t[i]
  BY DEF Steal
<1> HIDE DEF Steal
<1> QED
  BY <1>1, <1>2 DEF Slot

\* An assignment that is not refused for its name writes one slot of the table
\* the steal leaves, or none.
LEMMA AssignWrites ==
  ASSUME NEW t \in Table, NEW a \in Addrs, NEW r \in Roles, NEW name \in Names \cup {NoName},
         ~NameRefused(t, a, r, name)
  PROVE  Assign(t, a, r, name) =
           [j \in Slots |-> IF j = Written(t, a, r) THEN Given(a, r, name)
                                                    ELSE Steal(t, a, r)[j]]
<1> DEFINE s == Steal(t, a, r)
<1>1. \A i \in Slots : s[i].addr = t[i].addr
  BY StealKeeps DEF SameAddresses
<1> HIDE DEF s
<1>2. /\ {i \in Slots : s[i].addr = a} = {i \in Slots : t[i].addr = a}
      /\ {i \in Slots : s[i].addr = NoAddr} = {i \in Slots : t[i].addr = NoAddr}
  BY <1>1
<1>3. SlotFind(s, a) = SlotFind(t, a) /\ Target(s, a) = Target(t, a)
  BY <1>2 DEF Target, SlotFind, SlotFree
<1>4. CASE r = "none"
  BY <1>3, <1>4 DEF Assign, Written, Given, s
<1>5. CASE r # "none"
  BY <1>3, <1>5 DEF Assign, Written, Given, s
<1> QED
  BY <1>4, <1>5

\* The slot written is the probe's, or a free one for a probe the table has not.
LEMMA WrittenSlot ==
  ASSUME NEW t \in Table, NEW a \in Addrs, NEW r \in Roles
  PROVE  /\ Written(t, a, r) # 0 =>
              /\ Written(t, a, r) \in Slots
              /\ \/ t[Written(t, a, r)].addr = a
                 \/ r # "none" /\ t[Written(t, a, r)].addr = NoAddr
                    /\ \A j \in Slots : t[j].addr # a
         /\ Written(t, a, r) = 0 => \A j \in Slots : t[j].addr # a
BY Finding DEF Written, Target

\* Slot by slot: the roles an assignment leaves.
LEMMA AssignRoles ==
  ASSUME NEW t \in Table, NEW a \in Addrs \cup {BadAddr}, NEW r \in Roles,
         NEW name \in Names \cup {NoName}, OneSlotEach(t)
  PROVE  LET u == Assign(t, a, r, name)
         IN  /\ \A c \in Channels, i \in Slots : c # r /\ u[i].role = c => t[i].role = c
             /\ a \in Addrs /\ r \in Channels => OneRole(u, r)
             /\ \A i \in Slots : u[i].addr = a /\ t[i].addr # a => u[i].role = r /\ r # "none"
             /\ ~Accepted(t, a, r, name) =>
                  \A c \in Channels, i \in Slots : u[i].role = c => t[i].role = c
<1> DEFINE u == Assign(t, a, r, name)
           W == Written(t, a, r)
           G == Given(a, r, name)
<1>1. CASE a \notin Addrs \/ NameRefused(t, a, r, name)
  <2>1. u = t
    BY <1>1 DEF Assign, NameRefused
  <2>2. ~(a \in Addrs /\ r \in Channels)
    BY <1>1 DEF NameRefused, Channels
  <2> QED
    BY <2>1, <2>2
<1>2. CASE a \in Addrs /\ ~NameRefused(t, a, r, name)
  <2>1. \A j \in Slots : u[j] = IF j = W THEN G ELSE Steal(t, a, r)[j]
    BY <1>2, AssignWrites
  <2>2. /\ W # 0 => W \in Slots /\ (t[W].addr = a \/ \A j \in Slots : t[j].addr # a)
        /\ W = 0 => \A j \in Slots : t[j].addr # a
    BY <1>2, WrittenSlot
  <2>3. r # "none" => G.addr = a /\ G.role = r
    BY DEF Given
  <2>4. r = "none" => G.addr = NoAddr /\ G.role = "none"
    BY DEF Given, EmptySlot
  <2>5. "none" \notin Channels
    BY DEF Channels
  <2>6. a # NoAddr /\ 0 \notin Slots
    BY <1>2, SlotAssumption DEF Slots
  <2>7. ~Accepted(t, a, r, name) => W = 0
    BY <1>2 DEF Accepted, Written
  <2>8. \A j \in Slots : /\ Steal(t, a, r)[j].addr = t[j].addr
                         /\ \/ Steal(t, a, r)[j].role = "none"
                            \/ /\ Steal(t, a, r)[j].role = t[j].role
                               /\ r \in Channels /\ t[j].role = r => t[j].addr = a
    BY StealTakes
  <2> HIDE DEF u, W, G
  <2>9. \A c \in Channels, i \in Slots : c # r /\ u[i].role = c => t[i].role = c
    BY <2>1, <2>3, <2>4, <2>5, <2>8
  <2>10. r \in Channels => OneRole(u, r)
    <3> SUFFICES ASSUME r \in Channels, NEW i \in Slots, u[i].role = r PROVE i = W
      BY DEF OneRole
    <3>1. CASE i # W
      <4>1. t[i].addr = a
        BY <2>1, <2>5, <2>8, <3>1
      <4>2. W # 0 /\ t[W].addr = a /\ W \in Slots
        BY <2>2, <4>1
      <4> QED
        BY <2>6, <4>1, <4>2 DEF OneSlotEach
    <3> QED
      BY <3>1
  <2>11. \A i \in Slots : u[i].addr = a /\ t[i].addr # a => u[i].role = r /\ r # "none"
    BY <2>1, <2>3, <2>4, <2>6, <2>8
  <2>12. ~Accepted(t, a, r, name) =>
           \A c \in Channels, i \in Slots : u[i].role = c => t[i].role = c
    BY <2>1, <2>5, <2>6, <2>7, <2>8
  <2> QED
    BY <2>9, <2>10, <2>11, <2>12 DEF u
<1> QED
  BY <1>1, <1>2

\* ow_assign does what it was asked, for every table without a probe in two
\* slots: the probe has the role and the name given, it alone holds the channel,
\* and of the other probes only a former holder of that channel loses anything.
THEOREM AssignDoesWhatItIsAsked ==
  ASSUME NEW t \in Table, NEW a \in Addrs, NEW r \in Roles, NEW name \in Names \cup {NoName},
         OneSlotEach(t), Accepted(t, a, r, name)
  PROVE  LET u == Assign(t, a, r, name)
         IN  /\ EntryOf(u, a) = [role |-> r, name |-> IF r = "custom" THEN name ELSE NoName]
             /\ r \in Channels => AddrForRole(u, r) = a /\ OneHolder(u, r)
             /\ \A b \in Addrs \ {a} :
                  EntryOf(u, b) = IF r \in Channels /\ EntryOf(t, b).role = r
                                    THEN NoEntry ELSE EntryOf(t, b)
<1> DEFINE u == Assign(t, a, r, name)
           W == Written(t, a, r)
           G == Given(a, r, name)
<1>1. ~NameRefused(t, a, r, name) /\ (r # "none" => W # 0)
  BY DEF Accepted, Written
<1>2. \A j \in Slots : u[j] = IF j = W THEN G ELSE Steal(t, a, r)[j]
  BY <1>1, AssignWrites
<1>3. u \in Table /\ OneSlotEach(u)
  <2>1. SameAddresses(t, t)
    BY DEF SameAddresses
  <2> QED
    BY <2>1, AssignSlots, AssignKeepsApart
<1>4. /\ W # 0 => /\ W \in Slots
                  /\ t[W].addr = a \/ (t[W].addr = NoAddr /\ \A j \in Slots : t[j].addr # a)
      /\ W = 0 => \A j \in Slots : t[j].addr # a
      /\ W # 0 /\ r = "none" => t[W].addr = a
  BY WrittenSlot
<1>5. a # NoAddr /\ 0 \notin Slots /\ "none" \notin Channels
  BY SlotAssumption DEF Slots, Channels
<1>6. \A j \in Slots : Steal(t, a, r)[j].addr = t[j].addr
  BY StealTakes
<1> HIDE DEF u, W
<1>7. EntryOf(u, a) = [role |-> r, name |-> IF r = "custom" THEN name ELSE NoName]
  <2>1. CASE r = "none"
    <3>1. \A j \in Slots : u[j].addr # a
      <4> SUFFICES ASSUME NEW j \in Slots, u[j].addr = a PROVE FALSE
        OBVIOUS
      <4>1. j # W
        BY <1>2, <1>5, <2>1 DEF Given, EmptySlot
      <4>2. t[j].addr = a
        BY <1>2, <1>6, <4>1
      <4>3. W \in Slots /\ t[W].addr = a
        BY <1>4, <2>1, <4>2
      <4> QED
        BY <1>5, <4>1, <4>2, <4>3 DEF OneSlotEach
    <3>2. EntryOf(u, a) = NoEntry
      BY <1>3, <3>1, EntryAt
    <3> QED
      BY <2>1, <3>2 DEF NoEntry
  <2>2. CASE r # "none"
    <3>1. W \in Slots /\ u[W] = G
      BY <1>1, <1>2, <1>4, <2>2
    <3>2. /\ u[W].addr = a /\ u[W].role = r
          /\ u[W].name = IF r = "custom" THEN name ELSE NoName
      BY <2>2, <3>1 DEF Given
    <3>3. EntryOf(u, a) = [role |-> u[W].role, name |-> u[W].name]
      BY <1>3, <3>1, <3>2, EntryAt
    <3> QED
      BY <3>2, <3>3
  <2> QED
    BY <2>1, <2>2
<1>8. ASSUME r \in Channels
      PROVE  AddrForRole(u, r) = a /\ OneHolder(u, r)
  <2>1. W \in Slots /\ u[W].addr = a /\ u[W].role = r
    BY <1>1, <1>2, <1>4, <1>5, <1>8 DEF Given
  <2>2. OneRole(u, r)
    BY <1>8, AssignRoles DEF u
  <2>3. OneHolder(u, r)
    BY <2>2 DEF OneRole, OneHolder
  <2> QED
    BY <1>3, <1>5, <2>1, <2>3, TheHolder
<1>9. ASSUME NEW b \in Addrs \ {a}
      PROVE  EntryOf(u, b) = IF r \in Channels /\ EntryOf(t, b).role = r
                               THEN NoEntry ELSE EntryOf(t, b)
  <2>1. b \in Addrs /\ b # a /\ b # NoAddr
    BY SlotAssumption
  <2>2. G.addr # b
    BY <2>1 DEF Given, EmptySlot
  <2>3. CASE \E i \in Slots : t[i].addr = b
    <3>1. PICK i \in Slots : t[i].addr = b
      BY <2>3
    <3>2. i # W
      BY <1>4, <1>5, <2>1, <3>1
    <3>3. u[i] = Steal(t, a, r)[i] /\ u[i].addr = b
      BY <1>2, <1>6, <3>1, <3>2
    <3>4. /\ EntryOf(t, b) = [role |-> t[i].role, name |-> t[i].name]
          /\ EntryOf(u, b) = [role |-> u[i].role, name |-> u[i].name]
      BY <1>3, <2>1, <3>1, <3>3, EntryAt
    <3>5. IF r \in Channels /\ t[i].role = r
            THEN u[i].role = "none" /\ u[i].name = NoName ELSE u[i] = t[i]
      BY <2>1, <3>1, <3>3, StealTakes
    <3> QED
      BY <3>4, <3>5 DEF NoEntry
  <2>4. CASE \A i \in Slots : t[i].addr # b
    <3>1. \A i \in Slots : u[i].addr # b
      BY <1>2, <1>6, <2>2, <2>4
    <3>2. EntryOf(t, b) = NoEntry /\ EntryOf(u, b) = NoEntry
      BY <1>3, <2>1, <2>4, <3>1, EntryAt
    <3> QED
      BY <3>2
  <2> QED
    BY <2>3, <2>4
<1> QED
  BY <1>7, <1>8, <1>9 DEF u

\* The two legacy keys a save writes for an older firmware hold the channels:
\* the table migrated from them has the same holders, for every table.
THEOREM LegacyKeysHoldTheChannels ==
  ASSUME NEW t \in Table, NEW c \in Channels, OneSlotEach(t)
  PROVE  AddrForRole(FromLegacy(AddrForRole(t, "outdoor"), AddrForRole(t, "return")), c)
           = AddrForRole(t, c)
<1> DEFINE o == AddrForRole(t, "outdoor")
           q == AddrForRole(t, "return")
           u == IF o = NoAddr THEN EmptyTable ELSE Assign(EmptyTable, o, "outdoor", NoName)
           v == IF q = NoAddr THEN u ELSE Assign(u, q, "return", NoName)
<1>1. /\ o # NoAddr => \E i \in Slots : t[i].addr = o /\ t[i].role = "outdoor"
      /\ q # NoAddr => \E i \in Slots : t[i].addr = q /\ t[i].role = "return"
  BY TheHolder
<1>2. /\ o # NoAddr => o \in Addrs
      /\ q # NoAddr => q \in Addrs
  BY <1>1, TheSlot
<1>3. FromLegacy(o, q) = v
  BY DEF FromLegacy
<1>4. /\ "outdoor" \in Roles /\ "return" \in Roles /\ NoName \in Names \cup {NoName}
      /\ "outdoor" \in Channels /\ "return" \in Channels
  BY DEF Roles, Channels
<1>5. /\ EmptyTable \in Table /\ OneSlotEach(EmptyTable)
      /\ \A i \in Slots : EmptyTable[i] = EmptySlot
  BY EmptyTableType DEF OneSlotEach, EmptyTable
<1>6. EmptySlot.addr = NoAddr /\ EmptySlot.role = "none"
  BY DEF EmptySlot
<1>7. ASSUME NEW w \in Table, OneSlotEach(w), NEW a \in Addrs, NEW r \in Channels,
             \A i \in Slots : w[i].role # r, \E i \in Slots : w[i].addr = NoAddr
      PROVE  \E k \in Slots :
               /\ w[k].addr = a \/ w[k].addr = NoAddr
               /\ \A j \in Slots : Assign(w, a, r, NoName)[j] =
                    IF j = k THEN [addr |-> a, role |-> r, name |-> NoName] ELSE w[j]
  <2> DEFINE k == Written(w, a, r)
  <2>1. r \in Roles /\ r # "none" /\ r # "custom"
    BY <1>7 DEF Channels, Roles
  <2>2. SlotFree(w) # 0
    <3>1. {i \in Slots : w[i].addr = NoAddr} \in SUBSET Slots
      OBVIOUS
    <3> QED
      BY <1>7, <3>1, FirstIsMember DEF SlotFree
  <2>3. k # 0
    BY <2>1, <2>2 DEF Written, Target
  <2>4. k \in Slots /\ (w[k].addr = a \/ w[k].addr = NoAddr)
    BY <1>7, <2>1, <2>3, WrittenSlot
  <2>5. \A j \in Slots : Steal(w, a, r)[j] = w[j]
    BY <1>7, <2>1, StealTakes
  <2>6. Given(a, r, NoName) = [addr |-> a, role |-> r, name |-> NoName]
    BY <2>1 DEF Given
  <2>7. ~NameRefused(w, a, r, NoName)
    BY <2>1 DEF NameRefused
  <2>8. \A j \in Slots : Assign(w, a, r, NoName)[j] = IF j = k THEN Given(a, r, NoName)
                                                               ELSE Steal(w, a, r)[j]
    BY <1>4, <1>7, <2>1, <2>7, AssignWrites
  <2> HIDE DEF k
  <2> QED
    BY <2>4, <2>5, <2>6, <2>8
<1>8. \E i \in Slots : TRUE
  BY SlotAssumption DEF Slots
<1>9. u \in Table /\ OneSlotEach(u) /\ v \in Table /\ OneSlotEach(v)
  <2>1. u = FromLegacy(o, NoAddr)
    BY DEF FromLegacy
  <2> QED
    BY <1>2, <1>3, <2>1, MigrationKeepsApart
\* The table after the first key.
<1>10. /\ o = NoAddr => \A j \in Slots : u[j] = EmptySlot
       /\ o # NoAddr => \E k \in Slots : /\ u[k].addr = o /\ u[k].role = "outdoor"
                                         /\ \A j \in Slots : j # k => u[j] = EmptySlot
  <2>1. CASE o = NoAddr
    BY <1>5, <2>1
  <2>2. CASE o # NoAddr
    <3> DEFINE e == [addr |-> o, role |-> "outdoor", name |-> NoName]
    <3>1. PICK k \in Slots : \A j \in Slots : u[j] = IF j = k THEN e ELSE EmptyTable[j]
      <4>1. /\ o \in Addrs /\ \A i \in Slots : EmptyTable[i].role # "outdoor"
            /\ \E i \in Slots : EmptyTable[i].addr = NoAddr
        BY <1>2, <1>5, <1>6, <1>8, <2>2
      <4>2. u = Assign(EmptyTable, o, "outdoor", NoName)
        BY <2>2
      <4> HIDE DEF o, u
      <4> QED
        BY <1>4, <1>5, <1>7, <4>1, <4>2
    <3>2. e.addr = o /\ e.role = "outdoor"
      OBVIOUS
    <3> HIDE DEF e, u, o
    <3> QED
      BY <1>5, <2>2, <3>1, <3>2
  <2> QED
    BY <2>1, <2>2
<1> HIDE DEF o, q, u
<1>11. /\ \A i \in Slots : u[i].role # "return"
       /\ \A i, j \in Slots : u[i].role = "outdoor" /\ u[j].role = "outdoor" => i = j
  BY <1>6, <1>10
\* The second key: there is room, for two probes sit in two slots of t.
<1>12. CASE q = NoAddr
  <2>1. v = u
    BY <1>12
  <2>2. OneHolder(v, "outdoor") /\ OneHolder(v, "return")
    BY <1>11, <2>1 DEF OneHolder
  <2>3. AddrForRole(v, "return") = NoAddr
    BY <1>9, <1>11, <2>1, TheHolder
  <2>4. AddrForRole(v, "outdoor") = o
    BY <1>6, <1>9, <1>10, <2>1, <2>2, TheHolder
  <2> QED
    BY <1>3, <1>12, <2>3, <2>4 DEF Channels, o, q
<1>13. CASE q # NoAddr
  <2>1. \E i \in Slots : u[i].addr = NoAddr
    <3>1. CASE o = NoAddr
      BY <1>6, <1>8, <1>10, <3>1
    <3>2. CASE o # NoAddr
      <4>1. PICK i \in Slots, j \in Slots : /\ t[i].role = "outdoor" /\ t[j].role = "return"
        BY <1>1, <1>13, <3>2
      <4>2. i # j
        BY <4>1
      <4> QED
        BY <1>6, <1>10, <3>2, <4>2
    <3> QED
      BY <3>1, <3>2
  <2>2. o # q
    <3> SUFFICES ASSUME o = q PROVE FALSE
      OBVIOUS
    <3>1. PICK i \in Slots, j \in Slots :
             t[i].addr = q /\ t[i].role = "outdoor" /\ t[j].addr = q /\ t[j].role = "return"
      BY <1>1, <1>13
    <3> QED
      BY <1>13, <3>1 DEF OneSlotEach
  <2> DEFINE e == [addr |-> q, role |-> "return", name |-> NoName]
  <2>3. PICK k \in Slots : /\ u[k].addr = q \/ u[k].addr = NoAddr
                           /\ \A j \in Slots : v[j] = IF j = k THEN e ELSE u[j]
    BY <1>2, <1>4, <1>7, <1>9, <1>11, <1>13, <2>1
  <2>4. e.addr = q /\ e.role = "return"
    OBVIOUS
  <2> HIDE DEF e, v
  <2>5. OneHolder(v, "return") /\ OneHolder(v, "outdoor")
    BY <1>11, <2>3, <2>4 DEF OneHolder
  <2>6. AddrForRole(v, "return") = q
    BY <1>9, <1>13, <2>3, <2>4, <2>5, TheHolder
  <2>7. AddrForRole(v, "outdoor") = o
    <3>1. CASE o = NoAddr
      BY <1>6, <1>9, <1>10, <2>3, <2>4, <3>1, TheHolder
    <3>2. CASE o # NoAddr
      <4>1. PICK i \in Slots : u[i].addr = o /\ u[i].role = "outdoor"
        BY <1>10, <3>2
      <4>2. v[i].addr = o /\ v[i].role = "outdoor"
        BY <2>2, <2>3, <3>2, <4>1
      <4> QED
        BY <1>9, <2>5, <3>2, <4>2, TheHolder
    <3> QED
      BY <3>1, <3>2
  <2> QED
    BY <1>3, <2>6, <2>7 DEF Channels, o, q
<1> QED
  BY <1>12, <1>13

-----------------------------------------------------------------------------
(* Type correctness *)

LEMMA FirstProbe ==
  ASSUME NEW t \in Table, NEW r
  PROVE  AddrForRole(t, r) \in Addrs \cup {NoAddr}
<1>1. {j \in Slots : t[j].addr # NoAddr /\ t[j].role = r} \in SUBSET Slots
  OBVIOUS
<1> QED
  BY <1>1, FirstIsMember, TheSlot DEF AddrForRole

LEMMA LoadedTable ==
  ASSUME NEW f \in Flash
  PROVE  /\ Load(f) \in Table
         /\ f.kind # "current" => OneSlotEach(Load(f))
         /\ f.kind = "current" => Load(f) = f.slots
<1>1. CASE f.kind = "current"
  BY <1>1 DEF Load, Flash
<1>2. CASE f.kind = "legacy"
  <2>1. f.out \in Addrs \cup {NoAddr} /\ f.ret \in Addrs \cup {NoAddr}
    BY DEF Flash
  <2>2. Load(f) = FromLegacy(f.out, f.ret)
    BY <1>2 DEF Load
  <2> QED
    BY <1>2, <2>1, <2>2, MigrationKeepsApart
<1>3. CASE f.kind = "blank"
  BY <1>3, EmptyTableType DEF Load, OneSlotEach
<1> QED
  BY <1>1, <1>2, <1>3 DEF Flash

LEMMA EntryType ==
  ASSUME NEW t \in Table, NEW a \in Addrs
  PROVE  EntryOf(t, a) \in Entry
<1>1. CASE SlotFind(t, a) = 0
  BY <1>1 DEF EntryOf, Entry, Roles
<1>2. CASE SlotFind(t, a) # 0
  BY <1>2, Finding, TheSlot DEF EntryOf, Entry
<1> QED
  BY <1>1, <1>2

LEMMA PromisedType ==
  ASSUME NEW t \in Table
  PROVE  Promised(t) \in [Addrs -> Entry \cup {Open}]
BY EntryType DEF Promised

\* The new promise of an assignment.
LEMMA KeptType ==
  ASSUME NEW p \in [Addrs -> Entry \cup {Open}], NEW t
  PROVE  [b \in Addrs |-> IF EntryOf(t, b) = p[b] THEN p[b] ELSE Open]
           \in [Addrs -> Entry \cup {Open}]
OBVIOUS

LEMMA ImageType == TypeOK => Image \in Flash
<1> SUFFICES ASSUME TypeOK PROVE Image \in Flash
  OBVIOUS
<1>1. AddrForRole(slots, "outdoor") \in Addrs \cup {NoAddr}
      /\ AddrForRole(slots, "return") \in Addrs \cup {NoAddr}
  BY FirstProbe DEF TypeOK
<1> QED
  BY <1>1 DEF Image, Flash, TypeOK

LEMMA InitInv == Init => IInv
<1> SUFFICES ASSUME Init PROVE IInv
  OBVIOUS
<1>1. PICK o \in Addrs \cup {NoAddr}, q \in Addrs \cup {NoAddr}, l \in Brightness :
        flash = [kind |-> "legacy", slots |-> EmptyTable, out |-> o, ret |-> q, led |-> l]
  BY StoreAssumption DEF Init
<1>2. flash \in Flash /\ flash.led = l /\ flash.slots = EmptyTable
  BY <1>1, EmptyTableType DEF Flash
<1>3. TypeOK
  <2>1. 1 \in Slots
    BY SlotAssumption DEF Slots
  <2> QED
    BY <1>2, <2>1, EmptyTableType DEF Init, TypeOK, Roles, Entry
<1>4. EachOnce /\ Cross
  BY <1>2, EmptyTableType DEF Init, EachOnce, OneSlotEach, Cross, Apart
<1>5. Migrated /\ Put /\ Saved /\ Routed
  BY <1>2 DEF Init, Migrated, Put, Saved, Routed, Saving, Keys
<1> QED
  BY <1>3, <1>4, <1>5 DEF IInv, Rest

LEMMA SaveTypes ==
  ASSUME TypeOK, Save
  PROVE  TypeOK'
<1>1. board' = board /\ slots' = slots /\ led' = led /\ asked' = asked /\ recent' = recent
  BY DEF Save
<1>2. 1 \in Slots
  BY SlotAssumption DEF Slots
<1>3. ASSUME SaveEnds
      PROVE  /\ pc' = "idle" /\ key_i' \in Slots /\ sens' \in Table
             /\ behind' \subseteq {"flash", "sens", "led"} /\ torn' \subseteq Channels
             /\ promise' \in [Addrs -> Entry \cup {Open}]
  BY <1>2, <1>3, PromisedType DEF SaveEnds, TypeOK
<1>4. flash' \in Flash
  <2>1. CASE PutScalars
    BY <2>1 DEF PutScalars, TypeOK, Flash
  <2>2. CASE PutCount
    BY <2>2 DEF PutCount, TypeOK, Flash
  <2>3. ASSUME NEW e \in Slot, NEW i \in Slots
        PROVE  [flash EXCEPT !.slots[i] = e] \in Flash
    BY <2>3 DEF TypeOK, Flash, Table
  <2>4. flash.slots \in Table /\ key_i \in Slots
    BY DEF TypeOK, Flash
  <2>5. CASE PutAddr
    <3> DEFINE e == [flash.slots[key_i] EXCEPT !.addr = slots[key_i].addr]
    <3>1. e \in Slot
      BY <2>4, TheSlot DEF TypeOK, Slot
    <3>2. flash' = [flash EXCEPT !.slots[key_i] = e]
      BY <2>5, <2>4 DEF PutAddr, TypeOK, Flash, Table
    <3> QED
      BY <2>3, <2>4, <3>1, <3>2
  <2>6. CASE PutRole
    <3> DEFINE e == [flash.slots[key_i] EXCEPT !.role = slots[key_i].role]
    <3>1. e \in Slot
      BY <2>4, TheSlot DEF TypeOK, Slot
    <3>2. flash' = [flash EXCEPT !.slots[key_i] = e]
      BY <2>6, <2>4 DEF PutRole, TypeOK, Flash, Table
    <3> QED
      BY <2>3, <2>4, <3>1, <3>2
  <2>7. CASE PutName
    <3> DEFINE e == [flash.slots[key_i] EXCEPT !.name = slots[key_i].name]
    <3>1. e \in Slot
      BY <2>4, TheSlot DEF TypeOK, Slot
    <3>2. flash' = [flash EXCEPT !.slots[key_i] = e]
      BY <2>7, <2>4 DEF PutName, TypeOK, Flash, Table
    <3> QED
      BY <2>3, <2>4, <3>1, <3>2
  <2>8. CASE PutLegacy
    BY <2>8, FirstProbe DEF PutLegacy, TypeOK, Flash
  <2>9. CASE Erase
    <3>1. NoImage \in Flash
      BY ImageType, EmptyTableType DEF NoImage, Flash
    <3> QED
      BY <2>9, <3>1 DEF Erase, TypeOK
  <2>10. CASE Program
    BY <2>10, ImageType DEF Program
  <2> QED
    BY <2>1, <2>2, <2>5, <2>6, <2>7, <2>8, <2>9, <2>10 DEF Save
<1>5. CASE SaveEnds
  BY <1>1, <1>3, <1>4, <1>5 DEF TypeOK
<1>6. CASE ~SaveEnds
  <2>1. UNCHANGED <<sens, history>> /\ pc' \in Saving
    BY <1>6
       DEF Save, PutScalars, PutCount, PutAddr, PutRole, PutName, PutLegacy, Erase, Program,
           Saving, Keys
  <2>2. key_i' = key_i \/ (key_i < NSlots /\ key_i' = key_i + 1)
    BY <1>6
       DEF Save, PutScalars, PutCount, PutAddr, PutRole, PutName, PutLegacy, Erase, Program
  <2>3. key_i' \in Slots
    BY <2>2, SlotAssumption DEF TypeOK, Slots
  <2> QED
    BY <1>1, <1>4, <2>1, <2>3 DEF TypeOK, history
<1> QED
  BY <1>5, <1>6

LEMMA StepTypes == TypeOK /\ [Next]_vars => TypeOK'
<1> SUFFICES ASSUME TypeOK, [Next]_vars PROVE TypeOK'
  OBVIOUS
<1>1. 1 \in Slots
  BY SlotAssumption DEF Slots
<1>2. CASE Start
  <2>1. slots' \in Table /\ sens' \in Table
    BY <1>2, LoadedTable DEF Start, TypeOK
  <2>2. led' \in Brightness
    BY <1>2, StoreAssumption DEF Start, TypeOK, Flash
  <2> QED
    BY <1>2, <2>1, <2>2 DEF Start, TypeOK, Saving, Keys
<1>3. CASE Save
  BY <1>3, SaveTypes
<1>4. CASE PowerFail
  BY <1>4, <1>1, EmptyTableType DEF PowerFail, TypeOK
<1>5. ASSUME NEW a \in Addrs \cup {BadAddr}, NEW r \in Roles, NEW n \in Names \cup {NoName},
             AssignRequest(a, r, n)
      PROVE  TypeOK'
  <2>1. slots' \in Table
    BY <1>5, AssignSlots DEF AssignRequest, TypeOK
  <2>2. promise' \in [Addrs -> Entry \cup {Open}]
    BY <1>5, KeptType DEF AssignRequest, TypeOK
  <2>3. /\ pc' \in {"start", "idle"} \cup Saving /\ key_i' \in Slots
        /\ asked' \in Roles \cup {"config", "other", "boot"}
    BY <1>1, <1>5 DEF AssignRequest, SaveStarts, TypeOK, Saving, Keys
  <2>4. behind' \subseteq {"flash", "sens", "led"}
    BY <1>5 DEF AssignRequest, TypeOK
  <2> QED
    BY <1>5, <2>1, <2>2, <2>3, <2>4 DEF AssignRequest, TypeOK
<1>6. ASSUME NEW what \in {"config", "other"}, SaveRequest(what)
      PROVE  TypeOK'
  BY <1>1, <1>6 DEF SaveRequest, SaveStarts, TypeOK, Saving, Keys, ramVars, history
<1>7. ASSUME NEW b \in Brightness, LedCommand(b)
      PROVE  TypeOK'
  BY <1>1, <1>7 DEF LedCommand, SaveStarts, TypeOK, Saving, Keys
<1>8. CASE LedWindowEnds
  BY <1>8 DEF LedWindowEnds, TypeOK, ramVars, history
<1>9. CASE UNCHANGED vars
  BY <1>9 DEF vars, TypeOK
<1> QED
  BY <1>2, <1>3, <1>4, <1>5, <1>6, <1>7, <1>8, <1>9 DEF Next, Request

-----------------------------------------------------------------------------
(* The rest of the invariant *)

\* A put of a slot's address, role or name writes that and nothing else.
LEMMA SlotPut ==
  ASSUME IInv, PutAddr \/ PutRole \/ PutName, Save
  PROVE  /\ key_i \in Slots /\ flash'.slots \in Table
         /\ flash'.kind = flash.kind /\ flash'.led = flash.led
         /\ \A i \in Slots : i # key_i => flash'.slots[i] = flash.slots[i]
         /\ PutAddr => /\ flash'.slots[key_i].addr = slots[key_i].addr
                       /\ flash'.slots[key_i].role = flash.slots[key_i].role
                       /\ flash'.slots[key_i].name = flash.slots[key_i].name
                       /\ pc' = "role" /\ key_i' = key_i
         /\ PutRole => /\ flash'.slots[key_i].addr = flash.slots[key_i].addr
                       /\ flash'.slots[key_i].role = slots[key_i].role
                       /\ flash'.slots[key_i].name = flash.slots[key_i].name
                       /\ pc' = "name" /\ key_i' = key_i
         /\ PutName => /\ flash'.slots[key_i].addr = flash.slots[key_i].addr
                       /\ flash'.slots[key_i].role = flash.slots[key_i].role
                       /\ flash'.slots[key_i].name = slots[key_i].name
                       /\ \/ pc' = "addr" /\ key_i' = key_i + 1 /\ key_i < NSlots
                          \/ pc' = "legacy" /\ key_i >= NSlots
<1> DEFINE k == key_i
<1>1. k \in Slots /\ slots \in Table /\ flash \in Flash /\ flash.slots \in Table
  BY DEF IInv, TypeOK, Flash
<1>2. /\ flash'.kind = flash.kind /\ flash'.led = flash.led /\ flash'.slots \in Table
      /\ \A i \in Slots : i # k => flash'.slots[i] = flash.slots[i]
  <2>1. ASSUME NEW e
        PROVE  LET f == [flash EXCEPT !.slots[k] = e]
               IN  /\ f.kind = flash.kind /\ f.led = flash.led
                   /\ \A i \in Slots : i # k => f.slots[i] = flash.slots[i]
    BY <1>1 DEF Flash, Table
  <2>2. \E e : flash' = [flash EXCEPT !.slots[k] = e]
    BY <1>1 DEF PutAddr, PutRole, PutName, Flash, Table
  <2>3. flash'.slots \in Table
    BY StepTypes DEF IInv, Next, TypeOK, Flash
  <2> QED
    BY <2>1, <2>2, <2>3
<1>3. flash.slots[k] \in Slot
  BY <1>1, TheSlot
<1>4. CASE PutAddr
  BY <1>1, <1>2, <1>3, <1>4 DEF PutAddr, PutRole, PutName, Flash, Table, Slot
<1>5. CASE PutRole
  BY <1>1, <1>2, <1>3, <1>5 DEF PutAddr, PutRole, PutName, Flash, Table, Slot
<1>6. CASE PutName
  <2>1. NSlots \in Nat /\ k \in Nat
    BY <1>1, SlotAssumption DEF Slots
  <2> QED
    BY <1>1, <1>2, <1>3, <1>6, <2>1 DEF PutAddr, PutRole, PutName, Flash, Table, Slot
<1> QED
  BY <1>4, <1>5, <1>6

LEMMA SlotPutRest ==
  ASSUME IInv, PutAddr \/ PutRole \/ PutName, Save
  PROVE  Rest'
<1> DEFINE k == key_i
<1>1. /\ k \in Slots /\ slots \in Table /\ flash \in Flash /\ flash.slots \in Table
      /\ slots' = slots /\ led' = led /\ asked' = asked
      /\ sens' = sens /\ behind' = behind
  BY DEF IInv, TypeOK, Flash, Save, PutAddr, PutRole, PutName, history
<1>2. flash.kind = "current" /\ flash.led = led /\ pc \in Saving
  BY DEF IInv, Rest, Put, PutAddr, PutRole, PutName, Saving, Keys
<1>3. /\ flash'.kind = flash.kind /\ flash'.led = flash.led /\ flash'.slots \in Table
      /\ \A i \in Slots : i # k => flash'.slots[i] = flash.slots[i]
  BY SlotPut
<1>4. /\ PutAddr => /\ flash'.slots[k].addr = slots[k].addr
                    /\ pc' = "role" /\ key_i' = k
      /\ PutRole => /\ flash'.slots[k].addr = flash.slots[k].addr
                    /\ flash'.slots[k].role = slots[k].role
                    /\ pc' = "name" /\ key_i' = k
      /\ PutName => /\ flash'.slots[k].addr = flash.slots[k].addr
                    /\ flash'.slots[k].role = flash.slots[k].role
                    /\ flash'.slots[k].name = slots[k].name
                    /\ \/ pc' = "addr" /\ key_i' = k + 1 /\ k < NSlots
                       \/ pc' = "legacy" /\ k >= NSlots
  BY SlotPut
<1>5. \A i \in Slots : flash'.slots[i].addr = flash.slots[i].addr
                       \/ (i = k /\ flash'.slots[i].addr = slots[i].addr)
  BY <1>3, <1>4
<1>6. EachOnce' /\ Cross'
  BY <1>1, <1>5 DEF IInv, Rest, EachOnce, OneSlotEach, Cross, Apart
<1>7. Migrated' /\ Saved'
  BY <1>2, <1>3, <1>4 DEF Migrated, Saved
<1>8. Routed'
  <2>1. pc' \in Saving
    BY <1>4 DEF Saving, Keys
  <2>2. asked \notin Roles => /\ SameAddresses(sens, slots)
                              /\ "sens" \notin behind => sens = slots
    BY <1>2 DEF IInv, Rest, Routed
  <2>3. pc' # "idle"
    BY <1>4
  <2> QED
    BY <1>1, <2>2, <2>3 DEF Routed, SameAddresses
<1>9. Put'
  <2>1. \A i \in Slots : i < k => flash'.slots[i] = slots[i]
    <3>1. \A i \in Slots : i < k => flash.slots[i] = slots[i] /\ i # k
      BY <1>1 DEF IInv, Rest, Put, PutAddr, PutRole, PutName, Slots
    <3> QED
      BY <1>3, <3>1
  <2>2. CASE PutAddr
    BY <1>1, <1>2, <1>3, <1>4, <2>1, <2>2 DEF Put
  <2>3. CASE PutRole
    BY <1>1, <1>2, <1>3, <1>4, <2>1, <2>3 DEF Put, IInv, Rest, PutRole
  <2>4. CASE PutName
    <3>1. flash'.slots[k] = slots[k]
      <4>1. flash'.slots[k] \in Slot /\ slots[k] \in Slot
        BY <1>1, <1>3, TheSlot
      <4>2. /\ flash'.slots[k].addr = slots[k].addr /\ flash'.slots[k].role = slots[k].role
            /\ flash'.slots[k].name = slots[k].name
        BY <1>4, <2>4 DEF IInv, Rest, Put, PutName
      <4> QED
        BY <4>1, <4>2 DEF Slot
    <3>2. CASE pc' = "addr" /\ key_i' = k + 1
      <4>1. \A i \in Slots : i < k + 1 => i < k \/ i = k
        BY <1>1 DEF Slots
      <4>2. \A i \in Slots : i < key_i' => flash'.slots[i] = slots'[i]
        BY <1>1, <2>1, <3>1, <3>2, <4>1
      <4> QED
        BY <1>1, <1>2, <1>3, <3>2, <4>2 DEF Put
    <3>3. CASE pc' = "legacy" /\ k >= NSlots
      <4>1. \A i \in Slots : i < k \/ i = k
        BY <1>1, <3>3, SlotAssumption DEF Slots
      <4>2. \A i \in Slots : flash'.slots[i] = slots[i]
        BY <2>1, <3>1, <4>1
      <4>3. flash'.slots = slots
        BY <1>1, <1>3, <4>2 DEF Table
      <4> QED
        BY <1>1, <1>2, <1>3, <3>3, <4>3 DEF Put
    <3> QED
      BY <1>4, <2>4, <3>2, <3>3
  <2> QED
    BY <2>2, <2>3, <2>4
<1> QED
  BY <1>6, <1>7, <1>8, <1>9 DEF Rest

\* The end of a save, once everything is on flash.
LEMMA EndRest ==
  ASSUME IInv, SaveEnds, pc \in Saving,
         slots' = slots, led' = led, asked' = asked, board' = board,
         flash'.kind = "current", flash'.slots = slots, board = "esp32" => flash'.led = led
  PROVE  Rest'
<1>1. pc' = "idle"
  BY DEF SaveEnds
<1>2. sens' = slots \/ (asked \notin Roles /\ sens' = sens /\ behind' = behind \ {"flash", "led"})
  BY DEF SaveEnds
<1>3. EachOnce' /\ Cross'
  BY <1>2 DEF IInv, Rest, EachOnce, OneSlotEach, Cross, Apart
<1>4. Migrated' /\ Put' /\ Saved'
  BY <1>1 DEF Migrated, Put, Saved, SameAddresses
<1>5. Routed'
  <2>1. CASE sens' = slots
    <3>1. sens' = slots'
      BY <2>1
    <3>2. SameAddresses(sens', slots')
      BY <3>1 DEF SameAddresses
    <3> QED
      BY <3>1, <3>2 DEF Routed
  <2>2. CASE asked \notin Roles /\ sens' = sens /\ behind' = behind \ {"flash", "led"}
    <3>1. SameAddresses(sens, slots) /\ ("sens" \notin behind => sens = slots)
      BY <2>2 DEF IInv, Rest, Routed
    <3>2. SameAddresses(sens', slots')
      BY <2>2, <3>1 DEF SameAddresses
    <3>3. "sens" \notin behind' => "sens" \notin behind
      BY <2>2
    <3> QED
      BY <2>2, <3>1, <3>2, <3>3 DEF Routed
  <2> QED
    BY <1>2, <2>1, <2>2
<1> QED
  BY <1>3, <1>4, <1>5 DEF Rest

LEMMA SaveRest ==
  ASSUME IInv, Save
  PROVE  Rest'
<1>1. /\ slots' = slots /\ led' = led /\ asked' = asked /\ board' = board
      /\ flash \in Flash /\ slots \in Table
  BY DEF Save, IInv, TypeOK
<1>2. CASE PutScalars
  <2>1. /\ flash'.kind = flash.kind /\ flash'.slots = flash.slots /\ flash'.led = led
        /\ pc' = "ow_n" /\ pc = "led" /\ sens' = sens /\ behind' = behind
        /\ key_i' = key_i
    BY <1>1, <1>2 DEF PutScalars, Flash, history
  <2> QED
    BY <1>1, <2>1
       DEF IInv, Rest, EachOnce, Cross, Migrated, Put, Saved, Routed, Saving, Keys
<1>3. CASE PutCount
  <2>1. /\ flash'.kind = "current" /\ flash'.slots = flash.slots /\ flash'.led = flash.led
        /\ pc' = "addr" /\ pc = "ow_n" /\ sens' = sens /\ behind' = behind
        /\ key_i' = key_i
    BY <1>1, <1>3 DEF PutCount, Flash, history
  <2>2. \A i \in Slots : ~(i < key_i')
    BY <2>1 DEF IInv, Rest, Put, Slots
  <2>3. Put'
    BY <1>1, <2>1, <2>2 DEF IInv, Rest, Put
  <2> QED
    BY <1>1, <2>1, <2>3
       DEF IInv, Rest, EachOnce, Cross, Migrated, Saved, Routed, Saving, Keys
<1>4. CASE PutAddr \/ PutRole \/ PutName
  BY <1>4, SlotPutRest
<1>5. CASE PutLegacy
  <2>1. /\ flash'.kind = "current" /\ flash'.slots = slots /\ flash'.led = led
        /\ SaveEnds /\ pc \in Saving
    BY <1>1, <1>5 DEF PutLegacy, IInv, Rest, Put, Flash, Saving, Keys
  <2> QED
    BY <1>1, <2>1, EndRest
<1>6. CASE Erase
  <2> board # "esp32"
    BY <1>6 DEF Erase, IInv, Rest, Put
  <2>1. CASE flash = Image
    BY <1>1, <1>6, <2>1, EndRest DEF Erase, Image, Saving
  <2>2. CASE flash # Image
    <3>1. /\ flash'.kind = "blank" /\ flash'.slots = EmptyTable
          /\ pc' = "program" /\ pc = "erase" /\ sens' = sens /\ behind' = behind
      BY <1>6, <2>2 DEF Erase, NoImage, Image, history
    <3>2. EachOnce' /\ Cross'
      BY <1>1, <3>1, EmptyTableType DEF IInv, Rest, EachOnce, OneSlotEach, Cross, Apart
    <3> QED
      BY <1>1, <3>1, <3>2 DEF IInv, Rest, Migrated, Put, Saved, Routed, Saving, Keys
  <2> QED
    BY <2>1, <2>2
<1>7. CASE Program
  <2>1. board # "esp32"
    BY <1>7 DEF Program, IInv, Rest, Put
  <2> QED
    BY <1>1, <1>7, <2>1, EndRest DEF Program, Image, Saving
<1> QED
  BY <1>2, <1>3, <1>4, <1>5, <1>6, <1>7 DEF Save

LEMMA AssignRest ==
  ASSUME IInv, NEW a \in Addrs \cup {BadAddr}, NEW r \in Roles,
         NEW n \in Names \cup {NoName}, AssignRequest(a, r, n)
  PROVE  Rest'
<1>1. /\ pc = "idle" /\ slots' = Assign(slots, a, r, n) /\ sens' = sens /\ led' = led
      /\ flash' = flash /\ slots \in Table /\ flash \in Flash /\ flash.slots \in Table
      /\ board' = board
  BY DEF AssignRequest, IInv, TypeOK, Flash
<1>2. OneSlotEach(slots') /\ Apart(flash.slots, slots')
  <2>1. OneSlotEach(slots) /\ SameAddresses(flash.slots, slots)
    BY <1>1 DEF IInv, Rest, EachOnce, Saved
  <2> QED
    BY <1>1, <2>1, AssignKeepsApart
<1>3. EachOnce' /\ Cross' /\ Migrated'
  BY <1>1, <1>2 DEF IInv, Rest, EachOnce, Cross, Migrated
<1>4. CASE Accepted(slots, a, r, n)
  <2>1. asked' = r /\ pc' \in {"led", "erase"} /\ key_i' = 1
        /\ (pc' = "erase" => board' = "esp8266")
    BY <1>1, <1>4 DEF AssignRequest, SaveStarts, IInv, TypeOK
  <2> QED
    BY <1>3, <2>1 DEF Rest, Put, Saved, Routed
<1>5. CASE ~Accepted(slots, a, r, n)
  <2>1. SameAddresses(slots', slots)
    BY <1>1, <1>5, RefusalMovesNothing
  <2>2. /\ pc' = "idle" /\ key_i' = key_i /\ asked' = asked
        /\ behind' = IF slots' = slots THEN behind ELSE behind \cup {"flash", "sens"}
    BY <1>1, <1>5 DEF AssignRequest
  <2>3. Saved' /\ Routed'
    BY <1>1, <2>1, <2>2 DEF IInv, Rest, Saved, Routed, SameAddresses
  <2>4. Put'
    BY <1>1, <2>2 DEF IInv, Rest, Put
  <2> QED
    BY <1>3, <2>3, <2>4 DEF Rest
<1> QED
  BY <1>4, <1>5

LEMMA StepRest == IInv /\ [Next]_vars => Rest'
<1> SUFFICES ASSUME IInv, [Next]_vars PROVE Rest'
  OBVIOUS
<1>1. CASE Start
  <2>1. /\ slots' = Load(flash) /\ sens' = slots' /\ flash' = flash
        /\ pc' \in {"led", "erase"} /\ behind' = {} /\ flash \in Flash /\ key_i' = 1
        /\ (pc' = "erase" => board' = "esp8266")
    BY <1>1 DEF Start, IInv, TypeOK, Rest, Put
  <2>2. OneSlotEach(slots')
    BY <2>1, LoadedTable DEF IInv, Rest, EachOnce
  <2>3. Apart(flash.slots, slots')
    <3>1. CASE flash.kind = "current"
      BY <2>1, <3>1, LoadedTable DEF IInv, Rest, EachOnce, OneSlotEach, Apart
    <3>2. CASE flash.kind # "current"
      BY <3>2, EmptyTableType DEF IInv, Rest, Migrated, Apart
    <3> QED
      BY <3>1, <3>2
  <2> QED
    BY <2>1, <2>2, <2>3
       DEF IInv, Rest, EachOnce, Cross, Migrated, Put, Saved, Routed, SameAddresses
<1>2. CASE Save
  BY <1>2, SaveRest
<1>3. CASE PowerFail
  BY <1>3, EmptyTableType
     DEF PowerFail, IInv, Rest, EachOnce, OneSlotEach, Cross, Apart, Migrated, Put, Saved,
         Routed, Saving, Keys
<1>4. ASSUME NEW a \in Addrs \cup {BadAddr}, NEW r \in Roles, NEW n \in Names \cup {NoName},
             AssignRequest(a, r, n)
      PROVE  Rest'
  BY <1>4, AssignRest
<1>5. ASSUME NEW what \in {"config", "other"}, SaveRequest(what)
      PROVE  Rest'
  <2>1. pc' \in {"led", "erase"} /\ pc = "idle" /\ key_i' = 1
        /\ (pc' = "erase" => board' = "esp8266")
    BY <1>5 DEF SaveRequest, SaveStarts, IInv, TypeOK
  <2>2. UNCHANGED <<slots, sens, led, flash, behind>>
    BY <1>5 DEF SaveRequest, ramVars, history
  <2> QED
    BY <2>1, <2>2
       DEF IInv, Rest, EachOnce, Cross, Migrated, Put, Saved, Routed, SameAddresses
<1>6. ASSUME NEW b \in Brightness, LedCommand(b)
      PROVE  Rest'
  <2>1. pc = "idle" /\ UNCHANGED <<slots, sens, flash, board>>
    BY <1>6 DEF LedCommand
  <2>2. \/ pc' = "idle" /\ behind' = behind \cup {"led"} /\ UNCHANGED <<key_i, asked>>
        \/ pc' \in {"led", "erase"} /\ behind' = behind /\ key_i' = 1
           /\ (pc' = "erase" => board' = "esp8266")
    BY <1>6, <2>1 DEF LedCommand, SaveStarts, IInv, TypeOK
  <2>3. EachOnce' /\ Cross' /\ Migrated'
    BY <2>1 DEF IInv, Rest, EachOnce, Cross, Migrated
  <2>4. Put'
    BY <2>1, <2>2 DEF IInv, Rest, Put
  <2>5. Routed'
    BY <2>1, <2>2 DEF IInv, Rest, Routed, SameAddresses
  <2>6. Saved'
    <3>1. CASE pc' = "idle" /\ behind' = behind \cup {"led"}
      <4>1. "led" \in behind' /\ ("flash" \notin behind' => "flash" \notin behind)
        BY <3>1
      <4>2. SameAddresses(flash.slots, slots) /\ ("flash" \notin behind => flash.slots = slots)
        BY <2>1 DEF IInv, Rest, Saved
      <4> QED
        BY <2>1, <4>1, <4>2 DEF Saved, SameAddresses
    <3>2. CASE pc' \in {"led", "erase"}
      BY <3>2 DEF Saved
    <3> QED
      BY <2>2, <3>1, <3>2
  <2> QED
    BY <2>3, <2>4, <2>5, <2>6 DEF Rest
<1>7. CASE LedWindowEnds
  BY <1>7
     DEF LedWindowEnds, ramVars, history, IInv, Rest, EachOnce, Cross, Migrated, Put, Saved,
         Routed, SameAddresses
<1>8. CASE UNCHANGED vars
  BY <1>8
     DEF vars, IInv, Rest, EachOnce, Cross, Migrated, Put, Saved, Routed, SameAddresses
<1> QED
  BY <1>1, <1>2, <1>3, <1>4, <1>5, <1>6, <1>7, <1>8 DEF Next, Request

LEMMA AlwaysIInv == Spec => []IInv
<1>1. IInv /\ [Next]_vars => IInv'
  BY StepTypes, StepRest DEF IInv
<1> QED
  BY <1>1, InitInv, PTL DEF Spec

-----------------------------------------------------------------------------
(* The channels *)

Busy(c)     == pc \in Saving /\ asked = c
InUse(i, c) == slots[i].role = c \/ flash.slots[i].role = c

\* While the assignment of a channel is being saved, the RAM has the one holder
\* and the flash may have two.  At any other time, unless such a save was cut
\* off, one slot at most has the channel in RAM and flash taken together, and so
\* has every mixture of the two that a later save passes through.
ChannelInv(c) ==
  /\ Busy(c) => OneRole(slots, c)
  /\ c \notin torn /\ ~Busy(c) =>
       \A i, j \in Slots : InUse(i, c) /\ InUse(j, c) => i = j
  /\ c \notin torn => OneRole(sens, c)

LEMMA OneRoleInEmpty ==
  ASSUME NEW c \in Channels
  PROVE  OneRole(EmptyTable, c) /\ \A i \in Slots : EmptyTable[i].role # c
BY DEF EmptyTable, EmptySlot, Channels, OneRole

LEMMA MigratedOneRole ==
  ASSUME NEW o \in Addrs \cup {NoAddr}, NEW q \in Addrs \cup {NoAddr}, NEW c \in Channels
  PROVE  OneRole(FromLegacy(o, q), c)
<1> DEFINE u == IF o = NoAddr THEN EmptyTable ELSE Assign(EmptyTable, o, "outdoor", NoName)
<1>1. /\ "outdoor" \in Roles /\ "return" \in Roles /\ NoName \in Names \cup {NoName}
      /\ c \in {"outdoor", "return"} /\ c \in Channels /\ "outdoor" \in Channels
      /\ "return" \in Channels
  BY DEF Roles, Channels
<1>2. EmptyTable \in Table /\ OneSlotEach(EmptyTable)
  BY EmptyTableType DEF OneSlotEach
<1>3. u \in Table /\ OneSlotEach(u)
  <2>1. u = FromLegacy(o, NoAddr)
    BY DEF FromLegacy
  <2> QED
    BY <2>1, MigrationKeepsApart
<1>4. OneRole(u, c)
  <2>1. CASE o = NoAddr
    BY <2>1, OneRoleInEmpty
  <2>2. CASE o # NoAddr
    <3>1. o \in Addrs /\ o \in Addrs \cup {BadAddr} /\ u = Assign(EmptyTable, o, "outdoor", NoName)
      BY <2>2
    <3> HIDE DEF u
    <3>2. \A i \in Slots : c # "outdoor" => u[i].role # c
      BY <1>1, <1>2, <3>1, AssignRoles, OneRoleInEmpty
    <3>3. c = "outdoor" => OneRole(u, c)
      BY <1>1, <1>2, <3>1, AssignRoles
    <3> QED
      BY <3>2, <3>3 DEF OneRole
  <2> QED
    BY <2>1, <2>2
<1>5. FromLegacy(o, q) = IF q = NoAddr THEN u ELSE Assign(u, q, "return", NoName)
  BY DEF FromLegacy
<1> HIDE DEF u
<1>6. CASE q = NoAddr
  BY <1>4, <1>5, <1>6
<1>7. CASE q # NoAddr
  <2> DEFINE v == Assign(u, q, "return", NoName)
  <2>1. q \in Addrs /\ q \in Addrs \cup {BadAddr} /\ FromLegacy(o, q) = v
    BY <1>5, <1>7
  <2>2. \A i \in Slots : c # "return" /\ v[i].role = c => u[i].role = c
    BY <1>1, <1>3, <2>1, AssignRoles
  <2>3. c = "return" => OneRole(v, c)
    BY <1>1, <1>3, <2>1, AssignRoles
  <2> HIDE DEF v
  <2> QED
    BY <1>4, <2>1, <2>2, <2>3 DEF OneRole
<1> QED
  BY <1>6, <1>7

\* Each write of a save either leaves every slot of the flash with the role it
\* had, with that of the RAM or with none, or ends the save.
LEMMA SaveSplits ==
  ASSUME IInv, Save
  PROVE  /\ slots' = slots /\ asked' = asked /\ board' = board /\ pc \in Saving
         /\ \/ /\ pc' \in Saving /\ sens' = sens /\ torn' = torn /\ promise' = promise
               /\ \A i \in Slots : flash'.slots[i].role \in {flash.slots[i].role,
                                                            slots[i].role, "none"}
            \/ /\ SaveEnds /\ pc' = "idle"
               /\ flash'.slots = slots /\ flash'.kind = "current"
<1>1. /\ slots' = slots /\ asked' = asked /\ board' = board
      /\ flash \in Flash /\ slots \in Table
  BY DEF Save, IInv, TypeOK
<1>2. CASE PutScalars \/ PutCount
  <2>1. flash'.slots = flash.slots
    BY <1>1, <1>2 DEF PutScalars, PutCount, Flash
  <2> QED
    BY <1>1, <1>2, <2>1 DEF PutScalars, PutCount, history, Saving, Keys
<1>3. CASE PutAddr \/ PutRole \/ PutName
  <2>1. \A i \in Slots : flash'.slots[i].role \in {flash.slots[i].role, slots[i].role, "none"}
    BY <1>3, SlotPut
  <2>2. pc \in Saving /\ pc' \in Saving /\ sens' = sens /\ torn' = torn /\ promise' = promise
    BY <1>3 DEF PutAddr, PutRole, PutName, history, Saving, Keys
  <2> QED
    BY <1>1, <2>1, <2>2
<1>4. CASE PutLegacy
  <2>1. flash'.slots = flash.slots /\ flash'.kind = flash.kind
    BY <1>1, <1>4 DEF PutLegacy, Flash
  <2> QED
    BY <1>1, <1>4, <2>1 DEF PutLegacy, SaveEnds, IInv, Rest, Put, Saving, Keys
<1>5. CASE Erase
  <2>1. CASE flash = Image
    BY <1>1, <1>5, <2>1 DEF Erase, SaveEnds, Image, Saving
  <2>2. CASE flash # Image
    <3>1. flash'.slots = EmptyTable
      BY <1>5, <2>2 DEF Erase, NoImage, Image
    <3>2. \A i \in Slots : flash'.slots[i].role = "none"
      BY <3>1 DEF EmptyTable, EmptySlot
    <3> QED
      BY <1>1, <1>5, <2>2, <3>2 DEF Erase, history, Saving
  <2> QED
    BY <2>1, <2>2
<1>6. CASE Program
  BY <1>1, <1>6 DEF Program, SaveEnds, Image, Saving
<1> QED
  BY <1>2, <1>3, <1>4, <1>5, <1>6 DEF Save

\* SaveRequest and LedCommand leave the tables and the history of assignments
\* alone, and what they start to save is no channel.
LEMMA OtherRequests ==
  ASSUME \/ \E what \in {"config", "other"} : SaveRequest(what)
         \/ \E b \in Brightness : LedCommand(b)
         \/ LedWindowEnds
  PROVE  /\ UNCHANGED <<board, slots, sens, torn, promise>>
         /\ flash' = flash /\ pc = "idle"
         /\ pc' \in {"idle", "led", "erase"}
         /\ board = "esp32" => pc' \in {"idle", "led"}
         /\ pc' # "idle" => asked' \notin Channels
<1>1. "config" \notin Channels /\ "other" \notin Channels
  BY DEF Channels
<1>2. ASSUME NEW what \in {"config", "other"}, SaveRequest(what)
      PROVE  /\ UNCHANGED <<board, slots, sens, torn, promise, flash>> /\ pc = "idle"
             /\ pc' = (IF board = "esp32" THEN "led" ELSE "erase") /\ asked' \notin Channels
  BY <1>1, <1>2 DEF SaveRequest, SaveStarts, ramVars, history
<1>3. ASSUME NEW b \in Brightness, LedCommand(b)
      PROVE  /\ UNCHANGED <<board, slots, sens, torn, promise, flash>> /\ pc = "idle"
             /\ \/ pc' = "idle"
                \/ pc' = (IF board = "esp32" THEN "led" ELSE "erase") /\ asked' \notin Channels
  BY <1>1, <1>3 DEF LedCommand, SaveStarts
<1>4. ASSUME LedWindowEnds
      PROVE  UNCHANGED <<board, slots, sens, torn, promise, flash>> /\ pc = "idle" /\ pc' = "idle"
  BY <1>4 DEF LedWindowEnds, ramVars, history
<1> QED
  BY <1>2, <1>3, <1>4

LEMMA ChannelInit ==
  ASSUME Init, NEW c \in Channels
  PROVE  ChannelInv(c)
<1>1. slots = EmptyTable /\ sens = EmptyTable /\ flash.slots = EmptyTable /\ pc = "start"
  BY DEF Init
<1> QED
  BY <1>1, OneRoleInEmpty DEF ChannelInv, Busy, InUse, Saving, Keys

LEMMA ChannelAssign ==
  ASSUME IInv, NEW c \in Channels, ChannelInv(c), NEW a \in Addrs \cup {BadAddr},
         NEW r \in Roles, NEW n \in Names \cup {NoName}, AssignRequest(a, r, n)
  PROVE  ChannelInv(c)'
<1>1. /\ pc = "idle" /\ slots' = Assign(slots, a, r, n) /\ sens' = sens /\ torn' = torn
      /\ flash' = flash /\ slots \in Table /\ OneSlotEach(slots)
  BY DEF AssignRequest, IInv, TypeOK, Rest, EachOnce
<1>2. ~Busy(c)
  BY <1>1 DEF Busy, Saving, Keys
<1>3. CASE ~Accepted(slots, a, r, n)
  <2>1. \A i \in Slots : slots'[i].role = c => slots[i].role = c
    BY <1>1, <1>3, AssignRoles
  <2>2. ~Busy(c)'
    BY <1>1, <1>3 DEF AssignRequest, Busy, Saving, Keys
  <2> QED
    BY <1>1, <1>2, <2>1, <2>2 DEF ChannelInv, InUse, OneRole
<1>4. CASE Accepted(slots, a, r, n)
  <2>1. asked' = r /\ pc' \in Saving /\ a \in Addrs
    BY <1>4 DEF AssignRequest, SaveStarts, Saving, Keys, Accepted
  <2>2. CASE r = c
    <3>1. OneRole(slots', c) /\ Busy(c)'
      BY <1>1, <2>1, <2>2, AssignRoles DEF Busy
    <3> QED
      BY <1>1, <3>1 DEF ChannelInv, OneRole
  <2>3. CASE r # c
    <3>1. \A i \in Slots : slots'[i].role = c => slots[i].role = c
      BY <1>1, <2>3, AssignRoles
    <3>2. ~Busy(c)'
      BY <2>1, <2>3 DEF Busy
    <3> QED
      BY <1>1, <1>2, <3>1, <3>2 DEF ChannelInv, InUse, OneRole
  <2> QED
    BY <2>2, <2>3
<1> QED
  BY <1>3, <1>4

LEMMA ChannelStep ==
  ASSUME IInv, NEW c \in Channels, ChannelInv(c), [Next]_vars
  PROVE  ChannelInv(c)'
<1>1. CASE Start
  <2>1. /\ slots' = Load(flash) /\ sens' = slots' /\ flash' = flash /\ torn' = torn
        /\ asked' = "boot" /\ pc = "start" /\ flash \in Flash
    BY <1>1 DEF Start, IInv, TypeOK
  <2>2. ~Busy(c) /\ ~Busy(c)'
    BY <2>1 DEF Busy, Saving, Keys, Channels
  <2>3. CASE flash.kind = "current"
    <3>1. slots' = flash.slots
      BY <2>1, <2>3, LoadedTable
    <3> QED
      BY <2>1, <2>2, <3>1 DEF ChannelInv, InUse, OneRole
  <2>4. CASE flash.kind # "current"
    <3>1. \A i \in Slots : flash.slots[i].role # c
      BY <2>4, OneRoleInEmpty DEF IInv, Rest, Migrated
    <3>2. OneRole(slots', c)
      <4>1. CASE flash.kind = "legacy"
        BY <2>1, <4>1, MigratedOneRole DEF Load, Flash
      <4>2. CASE flash.kind = "blank"
        BY <2>1, <4>2, OneRoleInEmpty DEF Load
      <4> QED
        BY <2>1, <2>4, <4>1, <4>2 DEF Flash
    <3> QED
      BY <2>1, <2>2, <3>1, <3>2 DEF ChannelInv, InUse, OneRole
  <2> QED
    BY <2>3, <2>4
<1>2. CASE Save
  <2>1. slots' = slots /\ asked' = asked /\ pc \in Saving
    BY <1>2, SaveSplits
  <2>2. CASE /\ pc' \in Saving /\ sens' = sens /\ torn' = torn
             /\ \A i \in Slots : flash'.slots[i].role \in {flash.slots[i].role,
                                                          slots[i].role, "none"}
    <3>1. \A i \in Slots : InUse(i, c)' => InUse(i, c)
      BY <2>1, <2>2 DEF InUse, Channels
    <3>2. Busy(c)' = Busy(c)
      BY <2>1, <2>2 DEF Busy
    <3> QED
      BY <2>1, <2>2, <3>1, <3>2 DEF ChannelInv, OneRole
  <2>3. CASE SaveEnds /\ pc' = "idle" /\ flash'.slots = slots
    <3>1. ~Busy(c)'
      BY <2>3 DEF Busy, Saving, Keys
    <3>2. \A i \in Slots : InUse(i, c)' => slots[i].role = c
      BY <2>1, <2>3 DEF InUse
    <3>3. c \notin torn' => OneRole(slots, c)
      BY <2>1, <2>3 DEF SaveEnds, ChannelInv, Busy, InUse, OneRole
    <3>4. c \notin torn' => sens' = slots \/ (sens' = sens /\ c \notin torn)
      BY <2>3 DEF SaveEnds
    <3> QED
      BY <3>1, <3>2, <3>3, <3>4 DEF ChannelInv, OneRole
  <2> QED
    BY <1>2, <2>2, <2>3, SaveSplits
<1>3. CASE PowerFail
  <2>1. /\ slots' = EmptyTable /\ sens' = EmptyTable /\ flash' = flash /\ pc' = "start"
        /\ torn' = IF pc = "idle" THEN torn ELSE torn \cup (Channels \cap {asked})
        /\ pc # "start"
    BY <1>3 DEF PowerFail
  <2>2. ~Busy(c)'
    BY <2>1 DEF Busy, Saving, Keys
  <2>3. c \notin torn' => c \notin torn /\ ~Busy(c)
    BY <2>1 DEF Busy, Saving, Keys
  <2> QED
    BY <2>1, <2>2, <2>3, OneRoleInEmpty DEF ChannelInv, InUse
<1>4. ASSUME NEW a \in Addrs \cup {BadAddr}, NEW r \in Roles, NEW n \in Names \cup {NoName},
             AssignRequest(a, r, n)
      PROVE  ChannelInv(c)'
  BY <1>4, ChannelAssign
<1>5. CASE \/ \E what \in {"config", "other"} : SaveRequest(what)
           \/ \E b \in Brightness : LedCommand(b)
           \/ LedWindowEnds
  <2>1. /\ UNCHANGED <<slots, sens, torn>> /\ flash' = flash /\ pc = "idle"
        /\ pc' = "idle" \/ asked' \notin Channels
    BY <1>5, OtherRequests
  <2>2. ~Busy(c) /\ ~Busy(c)'
    BY <2>1 DEF Busy, Saving, Keys
  <2> QED
    BY <2>1, <2>2 DEF ChannelInv, InUse, OneRole
<1>6. CASE UNCHANGED vars
  BY <1>6 DEF vars, ChannelInv, Busy, InUse, OneRole
<1> QED
  BY <1>1, <1>2, <1>3, <1>4, <1>5, <1>6 DEF Next, Request

-----------------------------------------------------------------------------
(* The promises *)

\* Probe a is in t as e says, or e is the entry of no probe and it is not there.
At(t, a, e) ==
  /\ \A i \in Slots : t[i].addr = a => t[i].role = e.role /\ t[i].name = e.name
  /\ (\A i \in Slots : t[i].addr # a) => e.role = "none" /\ e.name = NoName

Kept(t) == \A a \in Addrs : promise[a] # Open => At(t, a, promise[a])

\* What the owner was told is so in RAM and in flash; a promised probe that the
\* RAM has is in the same slot of the flash, whatever is being written there.
PromiseInv ==
  /\ pc \notin {"erase", "program"}
  /\ flash.kind # "current" => \A a \in Addrs : promise[a] = Open
  /\ Kept(flash.slots)
  /\ pc # "start" =>
       /\ Kept(slots)
       /\ \A i \in Slots, a \in Addrs :
            promise[a] # Open /\ slots[i].addr = a => flash.slots[i].addr = a

LEMMA EntryIsAt ==
  ASSUME NEW t \in Table, NEW a \in Addrs, NEW e \in Entry, OneSlotEach(t)
  PROVE  EntryOf(t, a) = e <=> At(t, a, e)
<1>1. CASE \E i \in Slots : t[i].addr = a
  <2>1. PICK i \in Slots : t[i].addr = a
    BY <1>1
  <2>2. \A j \in Slots : t[j].addr = a => j = i
    BY <2>1, SlotAssumption DEF OneSlotEach
  <2>3. EntryOf(t, a) = [role |-> t[i].role, name |-> t[i].name]
    BY <2>1, EntryAt
  <2>4. EntryOf(t, a) = e <=> t[i].role = e.role /\ t[i].name = e.name
    BY <2>3 DEF Entry
  <2> QED
    BY <2>1, <2>2, <2>4 DEF At
<1>2. CASE \A i \in Slots : t[i].addr # a
  <2>1. EntryOf(t, a) = NoEntry
    BY <1>2, EntryAt
  <2> QED
    BY <1>2, <2>1 DEF At, NoEntry, Entry
<1> QED
  BY <1>1, <1>2

LEMMA PromiseIsEntry ==
  ASSUME TypeOK, NEW a \in Addrs, promise[a] # Open
  PROVE  promise[a] \in Entry
BY DEF TypeOK

\* After a save every promise is kept, whatever was promised before.
LEMMA PromisedKept ==
  ASSUME NEW t \in Table, OneSlotEach(t), NEW a \in Addrs
  PROVE  At(t, a, Promised(t)[a])
BY EntryType, EntryIsAt DEF Promised

LEMMA PromisePut ==
  ASSUME IInv, PromiseInv, PutAddr \/ PutRole \/ PutName, Save
  PROVE  PromiseInv'
<1> DEFINE k == key_i
<1>1. /\ k \in Slots /\ slots' = slots /\ promise' = promise
      /\ flash.kind = "current" /\ flash'.kind = "current"
      /\ pc' \notin {"start", "erase", "program"}
      /\ Kept(slots)
      /\ \A i \in Slots, a \in Addrs :
           promise[a] # Open /\ slots[i].addr = a => flash.slots[i].addr = a
  BY SlotPut DEF Save, PutAddr, PutRole, PutName, history, IInv, Rest, Put, PromiseInv
<1>2. /\ \A i \in Slots : i # k => flash'.slots[i] = flash.slots[i]
      /\ PutAddr => /\ flash'.slots[k].addr = slots[k].addr
                    /\ flash'.slots[k].role = flash.slots[k].role
                    /\ flash'.slots[k].name = flash.slots[k].name
      /\ PutRole => /\ flash'.slots[k].addr = flash.slots[k].addr
                    /\ flash'.slots[k].role = slots[k].role
                    /\ flash'.slots[k].name = flash.slots[k].name
      /\ PutName => /\ flash'.slots[k].addr = flash.slots[k].addr
                    /\ flash'.slots[k].role = flash.slots[k].role
                    /\ flash'.slots[k].name = slots[k].name
  BY SlotPut
<1>3. PutRole \/ PutName => flash.slots[k].addr = slots[k].addr
  BY DEF IInv, Rest, Put, PutRole, PutName
<1>4. ASSUME NEW a \in Addrs, promise[a] # Open
      PROVE  At(flash'.slots, a, promise[a])
  <2> DEFINE e == promise[a]
  <2>1. At(flash.slots, a, e) /\ At(slots, a, e) /\ a # NoAddr
    BY <1>1, <1>4, SlotAssumption DEF PromiseInv, Kept
  <2> HIDE DEF e
  <2>2. ASSUME NEW i \in Slots, flash'.slots[i].addr = a
        PROVE  flash'.slots[i].role = e.role /\ flash'.slots[i].name = e.name
    <3>1. CASE i # k
      BY <1>2, <2>1, <2>2, <3>1 DEF At
    <3>2. CASE i = k /\ PutAddr
      <4>1. flash.slots[k].addr = a
        BY <1>1, <1>2, <1>4, <2>2, <3>2
      <4> QED
        BY <1>1, <1>2, <2>1, <3>2, <4>1 DEF At
    <3>3. CASE i = k /\ (PutRole \/ PutName)
      <4>1. flash.slots[k].addr = a /\ slots[k].addr = a
        BY <1>2, <1>3, <2>2, <3>3
      <4>2. /\ flash.slots[k].role = e.role /\ flash.slots[k].name = e.name
            /\ slots[k].role = e.role /\ slots[k].name = e.name
        BY <1>1, <2>1, <4>1 DEF At
      <4> QED
        BY <1>2, <3>3, <4>2
    <3> QED
      BY <3>1, <3>2, <3>3
  <2>3. ASSUME \A i \in Slots : flash'.slots[i].addr # a
        PROVE  e.role = "none" /\ e.name = NoName
    <3>1. CASE \A i \in Slots : flash.slots[i].addr # a
      BY <2>1, <3>1 DEF At
    <3>2. CASE \E i \in Slots : flash.slots[i].addr = a
      <4>1. PutAddr /\ flash.slots[k].addr = a /\ slots[k].addr # a
        BY <1>1, <1>2, <2>3, <3>2
      <4>2. \A j \in Slots : slots[j].addr # a
        BY <1>1, <2>1, <4>1 DEF IInv, Rest, Cross, Apart
      <4> QED
        BY <2>1, <4>2 DEF At
    <3> QED
      BY <3>1, <3>2
  <2> QED
    BY <2>2, <2>3 DEF At, e
<1>5. \A i \in Slots, a \in Addrs :
        promise[a] # Open /\ slots[i].addr = a => flash'.slots[i].addr = a
  BY <1>1, <1>2
<1> HIDE DEF k
<1> QED
  BY <1>1, <1>4, <1>5 DEF PromiseInv, Kept

LEMMA PromiseAssign ==
  ASSUME IInv, IInv', PromiseInv, board = "esp32", NEW a \in Addrs \cup {BadAddr},
         NEW r \in Roles, NEW n \in Names \cup {NoName}, AssignRequest(a, r, n)
  PROVE  PromiseInv'
<1>1. /\ pc = "idle" /\ slots' = Assign(slots, a, r, n) /\ flash' = flash
      /\ slots \in Table /\ slots' \in Table /\ OneSlotEach(slots) /\ OneSlotEach(slots')
      /\ promise \in [Addrs -> Entry \cup {Open}]
  BY DEF AssignRequest, IInv, TypeOK, Rest, EachOnce
<1>2. pc' \in {"idle", "led"}
  BY DEF AssignRequest, SaveStarts
<1>3. ASSUME NEW b \in Addrs, promise'[b] # Open
      PROVE  /\ promise[b] # Open /\ promise'[b] = promise[b] /\ promise[b] \in Entry
             /\ EntryOf(slots', b) = promise[b]
  BY <1>1, <1>3 DEF AssignRequest
<1>4. Kept(slots)' /\ Kept(flash.slots)'
  BY <1>1, <1>3, EntryIsAt DEF PromiseInv, Kept
<1>5. ASSUME NEW i \in Slots, NEW b \in Addrs, promise'[b] # Open, slots'[i].addr = b
      PROVE  flash'.slots[i].addr = b
  <2>1. CASE slots[i].addr = b
    BY <1>1, <1>3, <1>5, <2>1 DEF PromiseInv
  <2>2. CASE slots[i].addr # b
    <3>1. b = a /\ \A j \in Slots : slots[j].addr # b
      BY <1>1, <1>5, <2>2, AssignSlots, SlotAssumption
    <3>2. slots'[i].role = r /\ r # "none"
      BY <1>1, <1>5, <2>2, <3>1, AssignRoles
    <3>3. promise[b].role = "none"
      BY <1>1, <1>3, <1>5, <3>1 DEF PromiseInv, Kept, At
    <3>4. slots'[i].role = promise[b].role
      BY <1>3, <1>4, <1>5 DEF Kept, At
    <3> QED
      BY <3>2, <3>3, <3>4
  <2> QED
    BY <2>1, <2>2
<1>6. flash'.kind # "current" => \A b \in Addrs : promise'[b] = Open
  BY <1>1, <1>3 DEF PromiseInv
<1> QED
  BY <1>2, <1>4, <1>5, <1>6 DEF PromiseInv

LEMMA BoardStays == [Next]_vars => board' = board
BY DEF Next, Start, Save, PowerFail, Request, AssignRequest, SaveRequest, LedCommand,
       LedWindowEnds, vars

LEMMA PromiseStep ==
  ASSUME IInv, IInv', PromiseInv, board = "esp32", [Next]_vars
  PROVE  PromiseInv' /\ board' = "esp32"
<1>1. CASE Start
  <2>1. /\ slots' = Load(flash) /\ flash' = flash /\ promise' = promise /\ board' = board
        /\ pc' = "led" /\ flash \in Flash
    BY <1>1 DEF Start, IInv, TypeOK
  <2>2. flash.kind = "current" => slots' = flash.slots
    BY <2>1, LoadedTable
  <2> QED
    BY <2>1, <2>2 DEF PromiseInv, Kept
<1>2. CASE Save
  <2>1. slots' = slots /\ board' = board /\ pc \in Saving /\ slots \in Table /\ flash \in Flash
        /\ OneSlotEach(slots)
    BY <1>2, SaveSplits DEF IInv, TypeOK, Rest, EachOnce
  <2>2. CASE PutAddr \/ PutRole \/ PutName
    BY <1>2, <2>1, <2>2, PromisePut
  <2>3. CASE PutScalars \/ PutCount
    <3>1. /\ flash'.slots = flash.slots /\ promise' = promise /\ pc' \in {"ow_n", "addr"}
          /\ flash'.kind = "current" \/ flash'.kind = flash.kind
          /\ pc # "start"
      BY <2>1, <2>3 DEF PutScalars, PutCount, Flash, history
    <3> QED
      BY <2>1, <3>1 DEF PromiseInv, Kept
  <2>4. CASE SaveEnds /\ pc' = "idle" /\ flash'.slots = slots /\ flash'.kind = "current"
    <3>1. promise' = Promised(slots)
      BY <2>4 DEF SaveEnds
    <3>2. \A a \in Addrs : At(slots, a, promise'[a])
      BY <2>1, <3>1, PromisedKept
    <3> QED
      BY <2>1, <2>4, <3>2 DEF PromiseInv, Kept
  <2>5. CASE PutLegacy
    <3>1. flash'.slots = flash.slots /\ flash'.kind = flash.kind
      BY <2>1, <2>5 DEF PutLegacy, Flash
    <3>2. /\ SaveEnds /\ pc' = "idle" /\ flash'.slots = slots /\ flash'.kind = "current"
      BY <2>5, <3>1 DEF PutLegacy, SaveEnds, IInv, Rest, Put
    <3> QED
      BY <2>4, <3>2
  <2>6. CASE Erase \/ Program
    BY <2>6 DEF Erase, Program, PromiseInv
  <2> QED
    BY <1>2, <2>2, <2>3, <2>5, <2>6 DEF Save
<1>3. CASE PowerFail
  <2>1. flash' = flash /\ promise' = promise /\ board' = board /\ pc' = "start"
    BY <1>3 DEF PowerFail
  <2> QED
    BY <2>1 DEF PromiseInv, Kept
<1>4. ASSUME NEW a \in Addrs \cup {BadAddr}, NEW r \in Roles, NEW n \in Names \cup {NoName},
             AssignRequest(a, r, n)
      PROVE  PromiseInv' /\ board' = "esp32"
  BY <1>4, PromiseAssign DEF AssignRequest
<1>5. CASE \/ \E what \in {"config", "other"} : SaveRequest(what)
           \/ \E b \in Brightness : LedCommand(b)
           \/ LedWindowEnds
  <2>1. /\ UNCHANGED <<board, slots, promise>> /\ flash' = flash /\ pc = "idle"
        /\ pc' \in {"idle", "led"}
    BY <1>5, OtherRequests
  <2> QED
    BY <2>1 DEF PromiseInv, Kept
<1>6. CASE UNCHANGED vars
  BY <1>6 DEF vars, PromiseInv, Kept
<1> QED
  BY <1>1, <1>2, <1>3, <1>4, <1>5, <1>6 DEF Next, Request

\* The ESP8266 writes one image: what is stored is blank or keeps every promise,
\* and so does what is about to be stored.
AllOrNothing ==
  /\ pc \notin Keys
  /\ Load(flash) = EmptyTable \/ Kept(Load(flash))
  /\ pc = "idle" => Kept(slots)
  /\ pc \in {"erase", "program"} => slots = EmptyTable \/ Kept(slots)

Promises == IF board = "esp32" THEN PromiseInv ELSE AllOrNothing

LEMMA WholeAssign ==
  ASSUME IInv, IInv', AllOrNothing, board # "esp32", NEW a \in Addrs \cup {BadAddr},
         NEW r \in Roles, NEW n \in Names \cup {NoName}, AssignRequest(a, r, n)
  PROVE  AllOrNothing'
<1>1. /\ pc = "idle" /\ flash' = flash
      /\ slots' \in Table /\ OneSlotEach(slots')
      /\ promise \in [Addrs -> Entry \cup {Open}]
  BY DEF AssignRequest, IInv, TypeOK, Rest, EachOnce
<1>2. pc' \in {"idle", "erase"}
  BY <1>1 DEF AssignRequest, SaveStarts
<1>3. ASSUME NEW b \in Addrs, promise'[b] # Open
      PROVE  /\ promise[b] # Open /\ promise'[b] = promise[b] /\ promise[b] \in Entry
             /\ EntryOf(slots', b) = promise[b]
  BY <1>1, <1>3 DEF AssignRequest
<1>4. Kept(slots)'
  BY <1>1, <1>3, EntryIsAt DEF Kept
<1>5. Load(flash') = Load(flash)
  BY <1>1
<1>6. Kept(Load(flash)) => Kept(Load(flash))'
  BY <1>3, <1>5 DEF Kept
<1> QED
  BY <1>2, <1>4, <1>5, <1>6 DEF AllOrNothing, Keys

LEMMA WholeStep ==
  ASSUME IInv, IInv', AllOrNothing, board # "esp32", [Next]_vars
  PROVE  AllOrNothing'
<1> USE DEF Keys
<1>1. CASE Start
  <2>1. slots' = Load(flash) /\ flash' = flash /\ promise' = promise /\ pc' = "erase"
    BY <1>1 DEF Start
  <2> QED
    BY <2>1 DEF AllOrNothing, Kept
<1>2. CASE Save
  <2>1. slots' = slots /\ slots \in Table /\ OneSlotEach(slots) /\ flash' \in Flash
    BY <1>2, SaveSplits DEF IInv, TypeOK, Rest, EachOnce
  <2>2. CASE SaveEnds /\ pc' = "idle" /\ flash'.slots = slots /\ flash'.kind = "current"
    <3>1. promise' = Promised(slots) /\ Load(flash') = slots
      BY <2>2 DEF SaveEnds, Load
    <3>2. \A a \in Addrs : At(slots, a, promise'[a])
      BY <2>1, <3>1, PromisedKept
    <3> QED
      BY <2>1, <2>2, <3>1, <3>2 DEF AllOrNothing, Kept
  <2>3. CASE ~SaveEnds
    <3>1. pc \notin Keys
      BY DEF AllOrNothing
    <3>2. pc = "erase" /\ pc' = "program" /\ flash' = NoImage /\ promise' = promise
      BY <1>2, <2>3, <3>1
         DEF Save, PutScalars, PutCount, PutAddr, PutRole, PutName, PutLegacy, Erase, Program,
             history
    <3>3. Load(flash') = EmptyTable
      BY <3>2 DEF Load, NoImage, Image
    <3> QED
      BY <2>1, <3>2, <3>3 DEF AllOrNothing, Kept
  <2>4. SaveEnds => pc' \notin Saving
    BY DEF SaveEnds, Saving, Keys
  <2> QED
    BY <1>2, <2>2, <2>3, <2>4, SaveSplits
<1>3. CASE PowerFail
  <2>1. flash' = flash /\ promise' = promise /\ pc' = "start"
    BY <1>3 DEF PowerFail
  <2> QED
    BY <2>1 DEF AllOrNothing, Kept
<1>4. ASSUME NEW a \in Addrs \cup {BadAddr}, NEW r \in Roles, NEW n \in Names \cup {NoName},
             AssignRequest(a, r, n)
      PROVE  AllOrNothing'
  BY <1>4, WholeAssign
<1>5. CASE \/ \E what \in {"config", "other"} : SaveRequest(what)
           \/ \E b \in Brightness : LedCommand(b)
           \/ LedWindowEnds
  <2>1. /\ slots' = slots /\ promise' = promise /\ flash' = flash /\ pc = "idle"
        /\ pc' \in {"idle", "led", "erase"}
    BY <1>5, OtherRequests
  <2>2. pc' # "led"
    BY <1>5 DEF SaveRequest, LedCommand, LedWindowEnds, SaveStarts
  <2> QED
    BY <2>1, <2>2 DEF AllOrNothing, Kept
<1>6. CASE UNCHANGED vars
  BY <1>6 DEF vars, AllOrNothing, Kept
<1> QED
  BY <1>1, <1>2, <1>3, <1>4, <1>5, <1>6 DEF Next, Request

LEMMA PromisesInit == Init => Promises
<1> SUFFICES ASSUME Init PROVE Promises
  OBVIOUS
<1>1. Kept(flash.slots) /\ Kept(slots) /\ Kept(Load(flash)) /\ pc = "start"
  BY DEF Init, Kept
<1> QED
  BY <1>1 DEF Init, Promises, PromiseInv, AllOrNothing, Keys

LEMMA PromisesStep == IInv /\ IInv' /\ Promises /\ [Next]_vars => Promises'
BY BoardStays, PromiseStep, WholeStep DEF Promises

LEMMA LoadKeepsPromises == IInv /\ Promises => PromisesKept
<1> SUFFICES ASSUME IInv, Promises PROVE PromisesKept
  OBVIOUS
<1>1. CASE board = "esp32"
  <2> SUFFICES ASSUME NEW a \in Addrs, promise[a] # Open
               PROVE  EntryOf(Load(flash), a) = promise[a]
    BY DEF PromisesKept
  <2>1. flash \in Flash /\ flash.kind = "current" /\ OneSlotEach(flash.slots)
    BY <1>1 DEF IInv, TypeOK, Rest, EachOnce, Promises, PromiseInv
  <2>2. Load(flash) = flash.slots /\ flash.slots \in Table /\ promise[a] \in Entry
    BY <2>1, LoadedTable, PromiseIsEntry DEF IInv
  <2> QED
    BY <1>1, <2>1, <2>2, EntryIsAt DEF Promises, PromiseInv, Kept
<1>2. CASE board = "esp8266" /\ Kept(Load(flash))
  <2> SUFFICES ASSUME NEW a \in Addrs, promise[a] # Open
               PROVE  EntryOf(Load(flash), a) = promise[a]
    BY DEF PromisesKept
  <2>1. promise[a] \in Entry
    BY PromiseIsEntry DEF IInv
  <2>2. Load(flash) \in Table /\ OneSlotEach(Load(flash))
    BY LoadedTable DEF IInv, TypeOK, Rest, EachOnce
  <2> QED
    BY <1>2, <2>1, <2>2, EntryIsAt DEF Kept
<1> QED
  BY <1>1, <1>2 DEF IInv, TypeOK, Promises, AllOrNothing, PromisesKept

-----------------------------------------------------------------------------
(* The ledger *)

\* A request that was refused has at most taken the channel it was about.
LEMMA RefusalTakesTheChannel ==
  ASSUME NEW t \in Table, NEW a \in Addrs \cup {BadAddr}, NEW r \in Roles,
         NEW name \in Names \cup {NoName}, OneSlotEach(t), ~Accepted(t, a, r, name)
  PROVE  LET u == Assign(t, a, r, name)
         IN  \/ u = t
             \/ /\ r \in Channels
                /\ \A b \in Addrs : EntryOf(u, b) = IF r \in Channels /\ EntryOf(t, b).role = r
                                                      THEN NoEntry ELSE EntryOf(t, b)
<1> DEFINE u == Assign(t, a, r, name)
           s == Steal(t, a, r)
<1>1. CASE a \notin Addrs \/ NameRefused(t, a, r, name)
  BY <1>1 DEF Assign, NameRefused
<1>2. CASE a \in Addrs /\ ~NameRefused(t, a, r, name)
  <2>1. r # "none" /\ Written(t, a, r) = 0
    BY <1>2 DEF Accepted, Written
  <2>2. \A j \in Slots : t[j].addr # a
    BY <1>2, <2>1, WrittenSlot
  <2>3. u \in Table /\ s \in Table
    BY AssignSlots, StealKeeps
  <2>4. u = s
    <3>1. \A j \in Slots : j # Written(t, a, r)
      BY <2>1 DEF Slots
    <3>2. \A j \in Slots : u[j] = s[j]
      BY <1>2, <3>1, AssignWrites
    <3> HIDE DEF u, s
    <3> QED
      BY <2>3, <3>2 DEF Table
  <2>5. CASE r \notin Channels
    <3>1. \A j \in Slots : s[j] = t[j]
      BY <2>5, StealTakes
    <3> HIDE DEF u, s
    <3>2. s = t
      BY <2>3, <3>1 DEF Table
    <3> QED
      BY <2>4, <3>2 DEF u
  <2>6. CASE r \in Channels
    <3>1. \A j \in Slots : /\ s[j].addr = t[j].addr
                           /\ IF t[j].role = r THEN s[j].role = "none" /\ s[j].name = NoName
                                               ELSE s[j] = t[j]
      BY <2>2, <2>6, StealTakes
    <3> HIDE DEF u, s
    <3>2. OneSlotEach(s)
      BY <3>1 DEF OneSlotEach
    <3>3. ASSUME NEW b \in Addrs
          PROVE  EntryOf(s, b) = IF EntryOf(t, b).role = r THEN NoEntry ELSE EntryOf(t, b)
      <4>1. CASE \E j \in Slots : t[j].addr = b
        <5>1. PICK j \in Slots : t[j].addr = b
          BY <4>1
        <5>2. /\ EntryOf(t, b) = [role |-> t[j].role, name |-> t[j].name]
              /\ EntryOf(s, b) = [role |-> s[j].role, name |-> s[j].name]
          BY <2>3, <3>1, <3>2, <5>1, EntryAt
        <5> QED
          BY <3>1, <5>2 DEF NoEntry
      <4>2. CASE \A j \in Slots : t[j].addr # b
        <5>1. EntryOf(t, b) = NoEntry /\ EntryOf(s, b) = NoEntry
          BY <2>3, <3>1, <3>2, <4>2, EntryAt
        <5> QED
          BY <5>1
      <4> QED
        BY <4>1, <4>2
    <3> QED
      BY <2>4, <2>6, <3>3 DEF u
  <2> QED
    BY <2>5, <2>6
<1> QED
  BY <1>1, <1>2

\* A custom name that is accepted is no other probe's.
LEMMA NamesDiffer ==
  ASSUME NEW t \in Table, NEW a \in Addrs, NEW name \in Names \cup {NoName}, OneSlotEach(t),
         Accepted(t, a, "custom", name), NEW b \in Addrs \ {a}
  PROVE  name # NoName /\ ~(EntryOf(t, b).role = "custom" /\ EntryOf(t, b).name = name)
<1>1. name # NoName /\ ~NameTaken(t, a, name)
  BY DEF Accepted, NameRefused
<1>2. CASE \E i \in Slots : t[i].addr = b
  <2>1. PICK i \in Slots : t[i].addr = b
    BY <1>2
  <2>2. EntryOf(t, b) = [role |-> t[i].role, name |-> t[i].name]
    BY <2>1, EntryAt
  <2> QED
    BY <1>1, <2>1, <2>2 DEF NameTaken
<1>3. CASE \A i \in Slots : t[i].addr # b
  <2>1. EntryOf(t, b) = NoEntry
    BY <1>3, EntryAt
  <2> QED
    BY <1>1, <2>1 DEF NoEntry
<1> QED
  BY <1>2, <1>3

LEMMA EntriesType ==
  IInv => /\ Entries \in [Addrs -> Entry]
          /\ pc # "start" => \A b \in Addrs : Entries[b] = EntryOf(slots, b)
          /\ pc = "start" => \A b \in Addrs : Entries[b] = EntryOf(Load(flash), b)
<1> SUFFICES ASSUME IInv
             PROVE  /\ Entries \in [Addrs -> Entry]
                    /\ pc # "start" => \A b \in Addrs : Entries[b] = EntryOf(slots, b)
                    /\ pc = "start" => \A b \in Addrs : Entries[b] = EntryOf(Load(flash), b)
  OBVIOUS
<1>1. slots \in Table /\ Load(flash) \in Table
  BY LoadedTable DEF IInv, TypeOK
<1> QED
  BY <1>1, EntryType DEF Entries, Promised

\* A promise kept is an entry of the ledger.
LEMMA KeptInLedger ==
  IInv /\ Promises =>
    /\ pc = "idle" => \A b \in Addrs : promise[b] # Open => Entries[b] = promise[b]
    /\ pc = "start" =>
         \/ board = "esp8266" /\ Entries = [b \in Addrs |-> NoEntry]
         \/ \A b \in Addrs : promise[b] # Open => Entries[b] = promise[b]
<1> SUFFICES ASSUME IInv, Promises
             PROVE  /\ pc = "idle" => \A b \in Addrs : promise[b] # Open => Entries[b] = promise[b]
                    /\ pc = "start" =>
                         \/ board = "esp8266" /\ Entries = [b \in Addrs |-> NoEntry]
                         \/ \A b \in Addrs : promise[b] # Open => Entries[b] = promise[b]
  OBVIOUS
<1>1. ASSUME pc = "idle", NEW b \in Addrs, promise[b] # Open
      PROVE  Entries[b] = promise[b]
  <2>1. Kept(slots)
    BY <1>1 DEF Promises, PromiseInv, AllOrNothing
  <2>2. promise[b] \in Entry
    BY <1>1, PromiseIsEntry DEF IInv
  <2>3. EntryOf(slots, b) = promise[b]
    BY <1>1, <2>1, <2>2, EntryIsAt DEF Kept, IInv, TypeOK, Rest, EachOnce
  <2> QED
    BY <1>1, <2>3, EntriesType
<1>2. ASSUME pc = "start"
      PROVE  \/ board = "esp8266" /\ Entries = [b \in Addrs |-> NoEntry]
             \/ \A b \in Addrs : promise[b] # Open => Entries[b] = promise[b]
  <2>1. \A b \in Addrs : Entries[b] = EntryOf(Load(flash), b)
    BY <1>2, EntriesType
  <2>2. CASE board = "esp8266" /\ Load(flash) = EmptyTable
    <3>1. \A b \in Addrs : \A j \in Slots : EmptyTable[j].addr # b
      BY SlotAssumption DEF EmptyTable, EmptySlot
    <3>2. \A b \in Addrs : EntryOf(EmptyTable, b) = NoEntry
      <4>1. EmptyTable \in Table /\ OneSlotEach(EmptyTable)
        BY EmptyTableType, SlotAssumption DEF OneSlotEach
      <4> QED
        BY <3>1, <4>1, EntryAt
    <3>3. \A b \in Addrs : Entries[b] = NoEntry
      BY <2>1, <2>2, <3>2
    <3>4. Entries \in [Addrs -> Entry]
      BY EntriesType
    <3> QED
      BY <2>2, <3>3, <3>4
  <2>3. CASE \A a \in Addrs : promise[a] # Open => EntryOf(Load(flash), a) = promise[a]
    BY <2>1, <2>3
  <2> QED
    <3>1. PromisesKept
      BY LoadKeepsPromises
    <3>2. \/ board = "esp8266" /\ Load(flash) = EmptyTable
          \/ \A a \in Addrs : promise[a] # Open => EntryOf(Load(flash), a) = promise[a]
      BY <3>1 DEF PromisesKept
    <3> QED
      BY <2>2, <2>3, <3>2
<1> QED
  BY <1>1, <1>2

LEMMA UsesAreEntries == Ledger!Uses = Entry /\ Ledger!Open = Open /\ Ledger!NoUse = NoEntry
BY DEF Ledger!Uses, Ledger!Open, Ledger!NoUse, Entry, Roles, Open, NoEntry

\* An assignment is a request of the ledger.
LEMMA LedgerAssign ==
  ASSUME IInv, IInv', Promises, NEW a \in Addrs \cup {BadAddr},
         NEW r \in Roles, NEW n \in Names \cup {NoName}, AssignRequest(a, r, n)
  PROVE  Ledger!LNext \/ (Entries' = Entries /\ promise' = promise)
<1>1. /\ pc = "idle" /\ slots' = Assign(slots, a, r, n)
      /\ slots \in Table /\ OneSlotEach(slots) /\ promise \in [Addrs -> Entry \cup {Open}]
      /\ promise' = [b \in Addrs |-> IF EntryOf(slots', b) = promise[b] THEN promise[b] ELSE Open]
  BY DEF AssignRequest, IInv, TypeOK, Rest, EachOnce
<1>2. pc' # "start" /\ pc # "start"
  BY <1>1 DEF AssignRequest, SaveStarts
<1>3. Entries \in [Addrs -> Entry] /\ \A b \in Addrs : Entries[b] = EntryOf(slots, b)
  BY <1>2, EntriesType
<1>4. Entries' \in [Addrs -> Entry] /\ \A b \in Addrs : Entries'[b] = EntryOf(slots', b)
  <2>1. (/\ Entries \in [Addrs -> Entry]
         /\ pc # "start" => \A b \in Addrs : Entries[b] = EntryOf(slots, b))'
    BY EntriesType, PTL
  <2> QED
    BY <1>2, <2>1
<1>5. Ledger!KeepTold
  BY <1>1, <1>4, UsesAreEntries DEF Ledger!KeepTold
<1>6. CASE Accepted(slots, a, r, n)
  <2>1. a \in Addrs
    BY <1>6 DEF Accepted
  <2>2. Entries'[a] = [role |-> r, name |-> IF r = "custom" THEN n ELSE NoName]
    BY <1>1, <1>4, <1>6, <2>1, AssignDoesWhatItIsAsked
  <2>3. \A b \in Addrs \ {a} : Ledger!Loses(b, r)
    BY <1>1, <1>3, <1>4, <1>6, <2>1, AssignDoesWhatItIsAsked, UsesAreEntries
       DEF Ledger!Loses
  <2>4. r = "custom" =>
          /\ n # NoName
          /\ \A b \in Addrs \ {a} : ~(Entries[b].role = "custom" /\ Entries[b].name = n)
    <3> SUFFICES ASSUME r = "custom"
                 PROVE  /\ n # NoName
                        /\ \A b \in Addrs \ {a} :
                             ~(Entries[b].role = "custom" /\ Entries[b].name = n)
      OBVIOUS
    <3>1. n # NoName
      BY <1>6 DEF Accepted, NameRefused
    <3>2. \A b \in Addrs \ {a} : ~(EntryOf(slots, b).role = "custom" /\ EntryOf(slots, b).name = n)
      BY <1>1, <1>6, <2>1, NamesDiffer
    <3> QED
      BY <1>3, <3>1, <3>2
  <2>5. Ledger!Give(a, r, n)
    BY <2>2, <2>3, <2>4 DEF Ledger!Give
  <2>6. Ledger!Request
    BY <1>4, <1>5, <2>1, <2>5, UsesAreEntries DEF Ledger!Request, Roles
  <2> QED
    BY <2>6 DEF Ledger!LNext
<1>7. CASE ~Accepted(slots, a, r, n) /\ slots' = slots
  <2>1. Entries' = Entries
    BY <1>2, <1>7 DEF Entries
  <2>2. \A b \in Addrs : promise'[b] = promise[b]
    BY <1>1, <1>3, <1>7, KeptInLedger
  <2>3. promise' = promise
    BY <1>1, <2>2
  <2> QED
    BY <2>1, <2>3
<1>8. CASE ~Accepted(slots, a, r, n) /\ slots' # slots
  <2>1. /\ r \in Channels
        /\ \A b \in Addrs : EntryOf(slots', b) =
             IF r \in Channels /\ EntryOf(slots, b).role = r THEN NoEntry ELSE EntryOf(slots, b)
    <3>1. \/ Assign(slots, a, r, n) = slots
          \/ /\ r \in Channels
             /\ \A b \in Addrs : EntryOf(Assign(slots, a, r, n), b) =
                  IF r \in Channels /\ EntryOf(slots, b).role = r THEN NoEntry
                                                               ELSE EntryOf(slots, b)
      <4> SUFFICES ASSUME NEW t, t = slots
                   PROVE  \/ Assign(t, a, r, n) = t
                          \/ /\ r \in Channels
                             /\ \A b \in Addrs : EntryOf(Assign(t, a, r, n), b) =
                                  IF r \in Channels /\ EntryOf(t, b).role = r THEN NoEntry
                                                                           ELSE EntryOf(t, b)
        OBVIOUS
      <4>1. t \in Table /\ OneSlotEach(t) /\ ~Accepted(t, a, r, n)
        BY <1>1, <1>8
      <4> QED
        BY <4>1, RefusalTakesTheChannel
    <3>2. slots' = Assign(slots, a, r, n) /\ slots' # slots
      BY <1>1, <1>8
    <3> QED
      BY <3>1, <3>2
  <2>2. Ledger!TakeAway(r)
    BY <1>3, <1>4, <2>1, UsesAreEntries DEF Ledger!TakeAway, Ledger!Loses
  <2>3. Ledger!Request
    BY <1>4, <1>5, <2>1, <2>2, UsesAreEntries DEF Ledger!Request
  <2> QED
    BY <2>3 DEF Ledger!LNext
<1> QED
  BY <1>6, <1>7, <1>8

\* Every step is a step of the ledger: a request, an answer, a restart, or
\* nothing at all.
LEMMA LedgerStep ==
  ASSUME IInv, IInv', Promises, Promises', [Next]_vars
  PROVE  \/ Ledger!LNext
         \/ board = "esp8266" /\ Ledger!Blank
         \/ Entries' = Entries /\ promise' = promise
<1>1. CASE Start
  <2>1. /\ pc = "start" /\ pc' # "start" /\ slots' = Load(flash) /\ promise' = promise
    BY <1>1 DEF Start
  <2>2. Entries' = Entries
    BY <2>1 DEF Entries
  <2> QED
    BY <2>1, <2>2
<1>2. CASE Save
  <2>1. /\ slots' = slots /\ pc \in Saving
        /\ \/ pc' \in Saving /\ promise' = promise
           \/ SaveEnds /\ pc' = "idle"
    BY <1>2, SaveSplits
  <2>2. Entries = Promised(slots) /\ Entries' = Entries
    BY <2>1 DEF Entries, Saving, Keys
  <2>3. CASE SaveEnds
    <3>1. promise' = Entries
      BY <2>2, <2>3 DEF SaveEnds
    <3>2. Ledger!Tell
      BY <2>2, <3>1 DEF Ledger!Tell
    <3> QED
      BY <3>2 DEF Ledger!LNext
  <2> QED
    BY <2>1, <2>2, <2>3
<1>3. CASE PowerFail
  <2>1. promise' = promise /\ pc' = "start" /\ board' = board
    BY <1>3 DEF PowerFail
  <2>2. (/\ IInv => Entries \in [Addrs -> Entry]
         /\ IInv /\ Promises /\ pc = "start" =>
              \/ board = "esp8266" /\ Entries = [b \in Addrs |-> NoEntry]
              \/ \A b \in Addrs : promise[b] # Open => Entries[b] = promise[b])'
    BY EntriesType, KeptInLedger, PTL
  <2>3. CASE \A b \in Addrs : promise'[b] # Open => Entries'[b] = promise'[b]
    <3>1. Ledger!Restart
      BY <2>1, <2>2, <2>3, UsesAreEntries DEF Ledger!Restart
    <3> QED
      BY <3>1 DEF Ledger!LNext
  <2>4. CASE board = "esp8266" /\ Entries' = [b \in Addrs |-> NoEntry]
    BY <2>1, <2>4, UsesAreEntries DEF Ledger!Blank
  <2> QED
    BY <2>1, <2>2, <2>3, <2>4
<1>4. ASSUME NEW a \in Addrs \cup {BadAddr}, NEW r \in Roles, NEW n \in Names \cup {NoName},
             AssignRequest(a, r, n)
      PROVE  Ledger!LNext \/ (Entries' = Entries /\ promise' = promise)
  BY <1>4, LedgerAssign
<1>5. CASE \/ \E what \in {"config", "other"} : SaveRequest(what)
           \/ \E b \in Brightness : LedCommand(b)
           \/ LedWindowEnds
  <2>1. /\ slots' = slots /\ promise' = promise /\ pc = "idle"
        /\ pc' \in {"idle", "led", "erase"}
    BY <1>5, OtherRequests
  <2> QED
    BY <2>1 DEF Entries
<1>6. CASE UNCHANGED vars
  BY <1>6 DEF vars, Entries
<1> QED
  BY <1>1, <1>2, <1>3, <1>4, <1>5, <1>6 DEF Next, Request

-----------------------------------------------------------------------------
(* The theorems *)

\* Type correctness of the three copies, of a save under way and of the history.
THEOREM StoreTypeCorrect == Spec => []TypeOK
BY AlwaysIInv, PTL DEF IInv

\* No probe is ever in two slots: neither in RAM, nor in the sensors' copy, nor
\* in what the next boot would load, wherever a save was cut off.
THEOREM ProbesSitOnce == Spec => []NoProbeTwice
<1>1. IInv => NoProbeTwice
  BY LoadedTable DEF IInv, TypeOK, Rest, EachOnce, NoProbeTwice
<1> QED
  BY <1>1, AlwaysIInv, PTL

\* Between requests RAM, sensors and flash agree but for what a refused request
\* or the LED debounce left behind, and always on where each probe is.
THEOREM CopiesStayTogether == Spec => []CopiesAgree
<1>1. IInv => CopiesAgree
  BY DEF IInv, Rest, Put, Saved, Routed, CopiesAgree, SameAddresses
<1> QED
  BY <1>1, AlwaysIInv, PTL

\* A channel has one holder in RAM and in the sensors' copy, unless the power
\* failed in the middle of a save of that very channel's assignment.
THEOREM ChannelsHaveOneHolder == Spec => []ChannelsUnique
<1> DEFINE AllChannels == \A c \in Channels : ChannelInv(c)
<1>1. Init => AllChannels
  BY ChannelInit
<1>2. IInv /\ AllChannels /\ [Next]_vars => AllChannels'
  BY ChannelStep
<1>3. IInv /\ AllChannels => ChannelsUnique
  BY DEF ChannelInv, OneRole, OneHolder, InUse, ChannelsUnique
<1> QED
  BY <1>1, <1>2, <1>3, AlwaysIInv, PTL DEF Spec

\* The next boot loads of each probe what its owner was last told, at every
\* write of a save, until a request concerns that probe; on the ESP8266 it may
\* find nothing instead, but never a part of it.
THEOREM PromisesAreKept == Spec => []PromisesKept
BY PromisesInit, PromisesStep, LoadKeepsPromises, AlwaysIInv, PTL DEF Spec

\* The store implements the ledger of the probes: through refusals, saves and
\* power failures between any two of their writes, a request changes one entry,
\* and what the owner was told of comes back, or on the ESP8266 nothing does.
THEOREM StoreIsALedger == Spec => IsLedger
<1> DEFINE Step == Ledger!LNext \/ (board = "esp8266" /\ Ledger!Blank)
<1>1. Spec => []IInv
  BY AlwaysIInv
<1>2. Spec => []Promises
  BY <1>1, PromisesInit, PromisesStep, PTL DEF Spec
<1>3. IInv /\ IInv' /\ Promises /\ Promises' /\ [Next]_vars => [Step]_(Ledger!ledger)
  BY LedgerStep DEF Ledger!ledger
<1>4. Init => Ledger!LInit
  <2> SUFFICES ASSUME Init PROVE Ledger!LInit
    OBVIOUS
  <2>1. IInv
    BY InitInv
  <2> QED
    BY <2>1, EntriesType, UsesAreEntries DEF Init, Ledger!LInit
<1> QED
  BY <1>1, <1>2, <1>3, <1>4, PTL DEF Spec, IsLedger
=============================================================================

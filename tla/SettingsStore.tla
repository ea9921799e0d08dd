---------------------------- MODULE SettingsStore ----------------------------
(***************************************************************************)
(* The slot table through its life: the copy in RAM that requests edit     *)
(* (settings.ow_slots), the copy the sensors route by (HcsSensors), and    *)
(* the copy in flash, written key by key on the ESP32 and as one erased    *)
(* and reprogrammed image on the ESP8266 (settings_store.cpp).  The power  *)
(* may fail between any two writes; the next boot loads what is there,     *)
(* migrates a table of an older firmware, and saves it again.              *)
(*                                                                         *)
(* Every save writes the whole settings.  Of the scalars only the LED      *)
(* brightness is kept here: the one that is applied before it is saved,    *)
(* and the one the two boards treat differently.  It is a key of the       *)
(* ESP32; the image of the ESP8266 has no field for it, so there it is     *)
(* never stored and comes back as the default at every boot.               *)
(***************************************************************************)
EXTENDS OwSlots, FiniteSets

CONSTANTS BadAddr,     \* an address ow_hex_to_addr rejects
          Brightness,  \* LED settings (on, off, 1..255 in the code)
          DefaultLed   \* the one HcsSettings starts with

ASSUME StoreAssumption == BadAddr \notin Addrs \cup {NoAddr} /\ DefaultLed \in Brightness

VARIABLES
  board,   \* "esp32" or "esp8266"
  slots,   \* settings.ow_slots
  sens,    \* HcsSensors::slots_
  led,     \* settings.led_brightness
  flash,   \* the stored settings; the LED's key is the ESP32's alone
  pc, key_i,    \* what runs next: "start", "idle", or the next write of save()
  asked,   \* what the save is for: the role assigned, "config", "other" or "boot"
  recent,  \* less than 30 s since the last save of the LED (or since the boot)
  behind,  \* history: copies a refused request or the LED debounce left behind
  torn,    \* history: channels whose assignment a power failure interrupted
  promise  \* history: what the owner of each probe was last told, or Open

vars == <<board, slots, sens, led, flash, pc, key_i, asked, recent, behind, torn, promise>>
ramVars == <<slots, sens, led>>
history == <<behind, torn, promise>>

Open  == [role |-> "open", name |-> NoName]
Entry == [role : Roles, name : Names \cup {NoName}]
Flash == [kind : {"blank", "legacy", "current"}, slots : Table,
          out : Addrs \cup {NoAddr}, ret : Addrs \cup {NoAddr}, led : Brightness]

\* The stages of save(): the keys of the ESP32 in the order they are put, and
\* the two halves of EEPROM.commit() on the ESP8266.
Keys   == {"led", "ow_n", "addr", "role", "name", "legacy"}
Saving == Keys \cup {"erase", "program"}

EntryOf(t, a) == LET i == SlotFind(t, a)
                 IN  IF i = 0 THEN [role |-> "none", name |-> NoName]
                     ELSE [role |-> t[i].role, name |-> t[i].name]
Promised(t)   == [a \in Addrs |-> EntryOf(t, a)]

\* SettingsStore::load, the slot table.
Load(f) == CASE f.kind = "current" -> f.slots
             [] f.kind = "legacy"  -> FromLegacy(f.out, f.ret)
             [] f.kind = "blank"   -> EmptyTable
-----------------------------------------------------------------------------
Init ==
  /\ board \in {"esp32", "esp8266"}
  /\ \E o, r \in Addrs \cup {NoAddr},
        l \in IF board = "esp32" THEN Brightness ELSE {DefaultLed} :
       flash = [kind |-> "legacy", slots |-> EmptyTable, out |-> o, ret |-> r, led |-> l]
  /\ slots = EmptyTable /\ sens = EmptyTable /\ led = flash.led
  /\ pc = "start" /\ key_i = 1 /\ asked = "boot" /\ recent = TRUE
  /\ behind = {} /\ torn = {} /\ promise = [a \in Addrs |-> Open]

\* setup(): load, configure the sensors, and (beginWifi) save again.
Start ==
  /\ pc = "start"
  /\ slots' = Load(flash)
  /\ sens' = slots'
  /\ led' = IF board = "esp32" THEN flash.led ELSE DefaultLed
  /\ pc' = IF board = "esp32" THEN "led" ELSE "erase"
  /\ asked' = "boot" /\ recent' = TRUE /\ behind' = {}
  /\ UNCHANGED <<board, flash, key_i, torn, promise>>

\* The RAM goes, the flash stays as far as it was written.
PowerFail ==
  /\ pc # "start" /\ pc' = "start"
  /\ slots' = EmptyTable /\ sens' = EmptyTable /\ key_i' = 1
  /\ torn' = IF pc = "idle" THEN torn ELSE torn \cup (Channels \cap {asked})
  /\ asked' = "boot" /\ behind' = {}
  /\ UNCHANGED <<board, led, flash, recent, promise>>
-----------------------------------------------------------------------------
(* save(), one write at a time *)

SaveStarts(what) ==
  /\ asked' = what /\ key_i' = 1
  /\ pc' = IF board = "esp32" THEN "led" ELSE "erase"

\* The save is over: an assignment or a configuration wires the sensors, and
\* what the owner was told is what was saved.
SaveEndsUnwired ==
  /\ pc' = "idle" /\ key_i' = 1
  /\ behind' = {} /\ UNCHANGED <<sens, torn>>
  /\ promise' = Promised(slots)
SaveEnds ==
  /\ pc' = "idle" /\ key_i' = 1
  /\ IF asked \in Roles \cup {"config"}
       THEN sens' = slots /\ behind' = {} /\ torn' = torn \ {asked}
       ELSE UNCHANGED <<sens, torn>> /\ behind' = behind \ {"flash", "led"}
  /\ promise' = Promised(slots)

\* The scalars that come before the slot table.
PutScalars ==
  /\ pc = "led" /\ pc' = "ow_n"
  /\ flash' = [flash EXCEPT !.led = led]
  /\ UNCHANGED <<key_i, sens, history>>

\* With ow_n the slot keys count, and the two legacy keys no longer do.
PutCount ==
  /\ pc = "ow_n" /\ pc' = "addr"
  /\ flash' = [flash EXCEPT !.kind = "current"]
  /\ UNCHANGED <<key_i, sens, history>>

PutAddr ==
  /\ pc = "addr" /\ pc' = "role"
  /\ flash' = [flash EXCEPT !.slots[key_i].addr = slots[key_i].addr]
  /\ UNCHANGED <<key_i, sens, history>>

PutRole ==
  /\ pc = "role" /\ pc' = "name"
  /\ flash' = [flash EXCEPT !.slots[key_i].role = slots[key_i].role]
  /\ UNCHANGED <<key_i, sens, history>>

PutNameOneTooFew ==
  /\ pc = "name"
  /\ flash' = [flash EXCEPT !.slots[key_i].name = slots[key_i].name]
  /\ IF key_i < NSlots - 1 THEN pc' = "addr" /\ key_i' = key_i + 1
                           ELSE pc' = "legacy" /\ UNCHANGED key_i
  /\ UNCHANGED <<sens, history>>
PutName ==
  /\ pc = "name"
  /\ flash' = [flash EXCEPT !.slots[key_i].name = slots[key_i].name]
  /\ IF key_i < NSlots
       THEN pc' = "addr" /\ key_i' = key_i + 1
       ELSE pc' = "legacy" /\ UNCHANGED key_i
  /\ UNCHANGED <<sens, history>>

\* The keys an older firmware would read, and after them the three of the
\* failsafe, which nothing here depends on.
PutLegacy ==
  /\ pc = "legacy"
  /\ flash' = [flash EXCEPT !.out = AddrForRole(slots, "outdoor"),
                            !.ret = AddrForRole(slots, "return")]
  /\ SaveEnds

\* The image the ESP8266 writes, which has no field for the LED: commit() writes
\* nothing when the image has not changed, so a save for the LED alone writes
\* nothing at all.
Image == [kind |-> "current", slots |-> slots, led |-> flash.led,
          out |-> AddrForRole(slots, "outdoor"), ret |-> AddrForRole(slots, "return")]
NoImage == [Image EXCEPT !.kind = "blank", !.slots = EmptyTable,
                         !.out = NoAddr, !.ret = NoAddr]
Erase ==
  /\ pc = "erase"
  /\ IF flash = Image
       THEN SaveEnds /\ UNCHANGED flash
       ELSE /\ pc' = "program" /\ flash' = NoImage
            /\ UNCHANGED <<key_i, sens, history>>
Program ==
  /\ pc = "program"
  /\ flash' = Image
  /\ SaveEnds

Save == /\ PutScalars \/ PutCount \/ PutAddr \/ PutRole \/ PutName \/ PutLegacy
           \/ Erase \/ Program
        /\ UNCHANGED <<board, slots, led, asked, recent>>
-----------------------------------------------------------------------------
(* Requests, one at a time and only when no save is running *)

\* /api/sensors/assign.  A refusal for a full table has already stolen the
\* role, in RAM only.
AssignRequest(a, r, name) ==
  /\ pc = "idle"
  /\ slots' = Assign(slots, a, r, name)
  /\ promise' = [b \in Addrs |-> IF EntryOf(slots', b) = promise[b] THEN promise[b] ELSE Open]
  /\ IF Accepted(slots, a, r, name)
       THEN /\ SaveStarts(r)
            /\ UNCHANGED behind
       ELSE /\ behind' = IF slots' = slots THEN behind ELSE behind \cup {"flash", "sens"}
            /\ UNCHANGED <<pc, key_i, asked>>
  /\ UNCHANGED <<board, sens, led, flash, recent, torn>>

\* /api/sensors/config, and the saves that change no probe: the failsafe and
\* the weather-compensation settings, the gateway role, the portal's form.
SaveRequest(what) ==
  /\ pc = "idle"
  /\ SaveStarts(what)
  /\ UNCHANGED <<board, ramVars, flash, recent, history>>

\* applyLedPayload: applied at once, saved at most every 30 s.
LedCommand(b) ==
  /\ pc = "idle" /\ b # led
  /\ led' = b
  /\ IF recent THEN behind' = behind \cup {"led"} /\ UNCHANGED <<pc, key_i, asked, recent>>
               ELSE SaveStarts("other") /\ recent' = TRUE /\ UNCHANGED behind
  /\ UNCHANGED <<board, slots, sens, flash, torn, promise>>

LedWindowEnds ==
  /\ pc = "idle" /\ recent /\ recent' = FALSE
  /\ UNCHANGED <<board, ramVars, flash, pc, key_i, asked, history>>

Request == \/ \E a \in Addrs \cup {BadAddr}, r \in Roles, n \in Names \cup {NoName} :
                AssignRequest(a, r, n)
           \/ \E what \in {"config", "other"} : SaveRequest(what)
           \/ \E b \in Brightness : LedCommand(b)

Next == Start \/ Save \/ Request \/ LedWindowEnds \/ PowerFail

Spec == Init /\ [][Next]_vars
-----------------------------------------------------------------------------
(* Properties *)

TypeOK ==
  /\ board \in {"esp32", "esp8266"}
  /\ slots \in Table /\ sens \in Table /\ led \in Brightness /\ flash \in Flash
  /\ pc \in {"start", "idle"} \cup Saving /\ key_i \in Slots
  /\ asked \in Roles \cup {"config", "other", "boot"} /\ recent \in BOOLEAN
  /\ behind \subseteq {"flash", "sens", "led"}
  /\ torn \subseteq Channels
  /\ promise \in [Addrs -> Entry \cup {Open}]

\* No probe ever sits in two slots, in any of the three copies, wherever a save
\* was cut off: a probe in two slots could not be unassigned.
NoProbeTwice == OneSlotEach(slots) /\ OneSlotEach(sens) /\ OneSlotEach(Load(flash))

\* A channel has one holder in the table requests edit and in the one that
\* routes, unless a power failure cut off the save of an assignment of that
\* very channel; the next assignment of the channel repairs it.
ChannelsUnique ==
  \A r \in Channels \ torn : OneHolder(slots, r) /\ OneHolder(sens, r)

\* What the owner was told of a probe is what the next boot will load, at every
\* moment, mid-save included, until a request concerns that probe.  The ESP8266
\* keeps all of it or nothing at all: a power failure may blank the whole table,
\* but never loses one probe and keeps another.
PromisesKept ==
  \/ board = "esp8266" /\ Load(flash) = EmptyTable
  \/ \A a \in Addrs : promise[a] # Open => EntryOf(Load(flash), a) = promise[a]

\* Between requests the three copies agree, except for what a refused request
\* or, on the ESP32, the LED debounce left behind, and those never disagree on
\* where a probe is.  (The ESP8266 stores no LED setting to agree with.)
CopiesAgree ==
  pc = "idle" =>
    /\ flash.kind = "current"
    /\ "flash" \notin behind => flash.slots = slots
    /\ "sens" \notin behind => sens = slots
    /\ board = "esp32" /\ "led" \notin behind => flash.led = led
    /\ \A i \in Slots : flash.slots[i].addr = slots[i].addr /\ sens[i].addr = slots[i].addr

\* The whole machinery is a ledger of what each probe is used for: a request
\* changes one entry and at most takes a channel from another, and a power
\* failure between any two writes loses no entry the owner was told of, or, on
\* the ESP8266 with the image erased, all of them.
Entries == IF pc = "start" THEN Promised(Load(flash)) ELSE Promised(slots)
Ledger  == INSTANCE ProbeLedger WITH entry <- Entries, told <- promise
IsLedger == /\ Ledger!LInit
            /\ [][Ledger!LNext \/ (board = "esp8266" /\ Ledger!Blank)]_(Ledger!ledger)
=============================================================================

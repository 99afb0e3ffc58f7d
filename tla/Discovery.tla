------------------------------- MODULE Discovery -------------------------------
(***************************************************************************)
(* From a builder to an initialized device: discovery.rs, NusbTransport::  *)
(* open in usb/mod.rs, the selection of DeviceBuilder in device.rs and the *)
(* outcome of Session::initialize, while devices are plugged and unplugged *)
(* and several builders open at once.                                      *)
(*                                                                         *)
(* Every step of `open' is one call to the operating system or one         *)
(* transfer; between any two of them the bus may change, and the future    *)
(* may be dropped.  The sequences of transfers that configure the radio    *)
(* and shut it down are those of Session and Hardware: here they are one   *)
(* step that powers the radio and one that tries to power it down.         *)
(***************************************************************************)
EXTENDS Naturals, FiniteSets, Sequences, SequencesExt

CONSTANTS
  Openers,     \* builders, each opening once
  Devices,
  Traits,      \* what each device is, and which of its strings the OS lists
  Calls,       \* what may be asked of a builder: tuples <<method, argument>>
  Hf,          \* openers that ask for a frequency below 28.8 MHz
  None,        \* no string, no index, no opener
  WebUsb,      \* whether devices are visible only after permission
  MaxCalls,    \* bound: calls on one builder
  MaxPlugs     \* bound: devices plugged and unplugged

\* `None' is none of the things it stands for the absence of; a builder is asked
\* for an index, a serial or IDs.
ASSUME DiscoveryAssumption ==
  /\ None \notin Openers \cup Calls \cup {"RTLSDRBlog", "Blog V4"}
  /\ None \notin Nat /\ None \notin Devices \X Nat
  /\ \A choice \in Calls : \/ choice[1] = "index" /\ choice[2] \in Nat
                           \/ choice[1] = "serial" /\ choice[2] # None
                           \/ choice[1] = "ids"
  /\ Hf \subseteq Openers /\ IsFiniteSet(Devices)

VARIABLES
  bus,         \* the attached devices in the order the OS lists them, each
               \* with the number of its attachment: <<device, number>>
  plugs,       \* how often the bus has changed
  granted,     \* the attachments the browser shows (WebUsb)
  active,      \* the attachments whose USB configuration 1 is active
  holder,      \* who has claimed interface 0 of a device
  powered,     \* the attachments whose receiver a driver has switched on
  op           \* each opener: its selector and how far it has come
vars == <<bus, plugs, granted, active, holder, powered, op>>

-----------------------------------------------------------------------------
(* Selection                                                                *)

Ids(d) == Traits[d].ids
Listed(d, string) == IF string \in Traits[d].listed THEN Traits[d][string] ELSE None

\* DeviceDescriptor::from_nusb
FromNusb(index, at) ==
  [index |-> index, serial |-> Listed(at[1], "serial"),
   manufacturer |-> Listed(at[1], "manufacturer"), product |-> Listed(at[1], "product")]

BlogV4(descriptor) == descriptor.manufacturer = "RTLSDRBlog" /\ descriptor.product = "Blog V4"

MatchesId(selector, at) == Ids(at[1]) = selector.ids

Matches(selector, index, at) ==
  /\ selector.index \in {None, index}
  /\ selector.serial \in {None, Listed(at[1], "serial")}

\* The places on the bus of the devices that are listed for a selector,
Places(selector) ==
  {i \in DOMAIN bus : (WebUsb => bus[i] \in granted) /\ MatchesId(selector, bus[i])}

\* and a device's index among them.
Index(selector, i) == Cardinality({j \in Places(selector) : j < i})
Entry(selector, i) == <<bus[i], FromNusb(Index(selector, i), bus[i])>>

\* What the selector's IDs leave, and list: everything by default.
Candidates(selector) == {Entry(selector, i) : i \in Places(selector)}
Anything == [index |-> None, serial |-> None, ids |-> "standard"]

\* select: the first match and its descriptor, or nothing.
Select(selector) ==
  LET hits == {i \in Places(selector) : Matches(selector, Index(selector, i), bus[i])}
  IN  {Entry(selector, i) : i \in {h \in hits : \A j \in hits : h <= j}}

\* Mutant of Chosen: a chosen serial does not replace the index.
ChosenBoth(selector, choice) == [selector EXCEPT ![choice[1]] = choice[2]]

\* DeviceBuilder::serial, index, usb_id
Chosen(selector, choice) ==
  IF choice[1] = "ids" THEN [selector EXCEPT !.ids = choice[2]]
  ELSE [[selector EXCEPT !.serial = None, !.index = None] EXCEPT ![choice[1]] = choice[2]]

\* The devices that the dialog of request_permission shows.
Offered(selector) ==
  {at \in Range(bus) : /\ MatchesId(selector, at)
                       /\ selector.serial \in {None, Listed(at[1], "serial")}}

-----------------------------------------------------------------------------
(* Errors                                                                   *)

\* Mutant of At: context hides the error.
AtOpaque(error) == <<"Protocol">>

\* Error::at
At(error) == <<"Operation", error>>

\* Error::kind, for the errors of `open'.
Category(error) ==
  IF error[1] = "DeviceNotFound" THEN "NotFound"
  ELSE IF error[1] = "InvalidConfig" THEN "InvalidConfig"
  ELSE IF error[1] \in {"Usb", "Transfer"} /\ error[2] = "Disconnected" THEN "DeviceDisconnected"
  ELSE IF error[1] = "Usb" /\ error[2] \in {"Busy", "NotFound", "Unsupported"} THEN error[2]
  ELSE IF error[1] \in {"Usb", "Transfer"} THEN "Usb"
  ELSE "Other"
Kind(error) == IF error[1] = "Operation" THEN Category(error[2]) ELSE Category(error)

-----------------------------------------------------------------------------
(* The steps of NusbTransport::open                                         *)

Nothing == [index |-> None, serial |-> None, manufacturer |-> None, product |-> None]

Dev(o)  == op[o].at[1]
Live(o) == op[o].at \in Range(bus)

\* The stages between the claim of the interface and the end.
Claimed == {"language", "manufacturer", "product", "configure", "configuring", "ready",
            "shutdown", "cleanup"}
\* Before them the transport is not yet made.
Opening == {"list", "open", "configuration", "claim"}
\* From Session::new on, the drop of the last owner shuts the device down.
Session == {"configure", "configuring", "ready", "shutdown"}

Go(o, stage)  == op' = [op EXCEPT ![o].stage = stage]
Fail(o, error) == op' = [op EXCEPT ![o].stage = "done", ![o].result = error]

\* Mutant of Releases: the interface is kept.
ReleasesNothing(o) == UNCHANGED holder

Releases(o) == holder' = [d \in Devices |-> IF holder[d] = o THEN None ELSE holder[d]]

\* What nusb may say of a call that fails for a reason of the system's own.
UsbFaults == {"NotFound", "Unsupported", "Fault"}

\* A call to the operating system on a device: what may go wrong with it.
UsbErrors(o, busy) ==
  IF ~Live(o) THEN {"Disconnected"} ELSE IF busy THEN {"Busy"} ELSE UsbFaults
Taken(o) == holder[Dev(o)] \notin {None, o}

\* A call on the builder.
Choose(o, choice) ==
  /\ op[o].stage = "building" /\ op[o].calls < MaxCalls
  /\ op' = [op EXCEPT ![o].calls = @ + 1, ![o].selector = Chosen(@, choice),
                      ![o].asked = IF choice[1] = "ids" THEN @ ELSE choice,
                      ![o].permitted = None]
  /\ UNCHANGED <<bus, plugs, granted, active, holder, powered>>

\* request_permission: the user picks a device, or none.
RequestPermission(o) ==
  /\ WebUsb /\ op[o].stage = "building" /\ op[o].permitted = None
  /\ \E at \in Offered(op[o].selector) :
       /\ granted' = granted \cup {at}
       /\ op' = [op EXCEPT ![o].permitted = at]
  /\ UNCHANGED <<bus, plugs, active, holder, powered>>

\* DeviceBuilder::open, waited for or polled.
OpenBegin(o) ==
  /\ op[o].stage = "building"
  /\ Go(o, "list")
  /\ UNCHANGED <<bus, plugs, granted, active, holder, powered>>

\* discovery::select
ListDevices(o) ==
  /\ op[o].stage = "list"
  /\ \/ \E e \in UsbFaults : Fail(o, <<"Usb", e>>)
     \/ /\ Select(op[o].selector) = {}
        /\ op' = [op EXCEPT ![o].stage = "done", ![o].result = <<"DeviceNotFound">>,
                            ![o].seen = Candidates(op[o].selector)]
     \/ \E hit \in Select(op[o].selector) :
          op' = [op EXCEPT ![o].stage = "open", ![o].at = hit[1], ![o].descriptor = hit[2],
                           ![o].seen = Candidates(op[o].selector)]
  /\ UNCHANGED <<bus, plugs, granted, active, holder, powered>>

\* info.open()
OpenDevice(o) ==
  /\ op[o].stage = "open"
  /\ \/ Live(o) /\ Go(o, "configuration")
     \/ \E e \in UsbErrors(o, FALSE) : Fail(o, At(<<"Usb", e>>))
  /\ UNCHANGED <<bus, plugs, granted, active, holder, powered>>

\* Only a configuration that is not active is selected, which the system
\* refuses on a claimed device.
SelectConfiguration(o) ==
  /\ op[o].stage = "configuration"
  /\ \/ op[o].at \in active /\ Go(o, "claim") /\ UNCHANGED active
     \/ /\ op[o].at \notin active /\ Live(o) /\ ~Taken(o)
        /\ Go(o, "claim") /\ active' = active \cup {op[o].at}
     \/ /\ op[o].at \notin active
        /\ \E e \in UsbErrors(o, Taken(o)) : Fail(o, At(<<"Usb", e>>))
        /\ UNCHANGED active
  /\ UNCHANGED <<bus, plugs, granted, holder, powered>>

\* detach_and_claim_interface(0)
Claim(o) ==
  /\ op[o].stage = "claim"
  /\ \/ Live(o) /\ ~Taken(o) /\ Go(o, "language") /\ holder' = [holder EXCEPT ![Dev(o)] = o]
     \/ \E e \in UsbErrors(o, Taken(o)) : Fail(o, At(<<"Usb", e>>)) /\ UNCHANGED holder
  /\ UNCHANGED <<bus, plugs, granted, active, powered>>

\* A string the system did not list is read if the device has it.
Missing(o, string) == op[o].descriptor[string] = None /\ Traits[Dev(o)][string] # None

\* The language of the strings: where it cannot be read, they are read in
\* English, and a device without English will fail.
ReadLanguage(o) ==
  /\ op[o].stage = "language"
  /\ \/ Go(o, "manufacturer")
     \/ /\ Missing(o, "manufacturer") \/ Missing(o, "product")
        /\ op' = [op EXCEPT ![o].stage = "manufacturer", ![o].faults = @ \cup {"string"}]
  /\ UNCHANGED <<bus, plugs, granted, active, holder, powered>>

\* Mutant of Kept: what was listed is replaced.
KeptRead(listed, read) == read

\* Option::or
Kept(listed, read) == IF listed # None THEN listed ELSE read

\* One half of read_missing_strings; a string that cannot be read stays absent.
ReadString(o, string, next) ==
  LET Has(value) == [op[o] EXCEPT !.stage = next, !.descriptor[string] = Kept(@, value)]
  IN  /\ op[o].stage = string
      /\ \/ ~Missing(o, string) /\ op' = [op EXCEPT ![o] = Has(None)]
         \/ Missing(o, string) /\ Live(o) /\ op' = [op EXCEPT ![o] = Has(Traits[Dev(o)][string])]
         \/ /\ Missing(o, string)
            /\ op' = [op EXCEPT ![o] = [Has(None) EXCEPT !.faults = @ \cup {"string"}]]
      /\ UNCHANGED <<bus, plugs, granted, active, holder, powered>>

\* Session::initialize begins: validate_device, and the first transfers.
Configure(o) ==
  LET refused == o \in Hf /\ ~BlogV4(op[o].descriptor)
      fault   == IF Live(o) THEN "Fault" ELSE "Disconnected"
  IN  /\ op[o].stage = "configure"
      /\ \/ /\ refused /\ UNCHANGED powered
            /\ op' = [op EXCEPT ![o].stage = "shutdown", ![o].result = <<"InvalidConfig">>]
         \/ /\ ~refused /\ Live(o) /\ powered' = powered \cup {op[o].at}
            /\ Go(o, "configuring")
         \/ /\ ~refused /\ UNCHANGED powered
            /\ op' = [op EXCEPT ![o].stage = "shutdown", ![o].result = <<"Transfer", fault>>]
      /\ UNCHANGED <<bus, plugs, granted, active, holder>>

\* Session::initialize ends; after an error it shuts the device down.
Initialize(o) ==
  LET fault == IF Live(o) THEN "Fault" ELSE "Disconnected"
  IN  /\ op[o].stage = "configuring"
      /\ \/ Live(o) /\ op' = [op EXCEPT ![o].stage = "ready", ![o].result = <<"Ok">>]
         \/ op' = [op EXCEPT ![o].stage = "shutdown", ![o].result = <<"Transfer", fault>>]
      /\ UNCHANGED <<bus, plugs, granted, active, holder, powered>>

\* Session::shutdown within initialize: once it succeeds the drop of the
\* session has nothing left to do but to release the interface.
Shutdown(o) ==
  /\ op[o].stage = "shutdown"
  /\ \/ /\ Live(o) /\ Go(o, "done") /\ Releases(o)
        /\ powered' = powered \ {op[o].at}
     \/ Go(o, "cleanup") /\ UNCHANGED <<holder, powered>>
  /\ UNCHANGED <<bus, plugs, granted, active>>

\* Session::drop: one attempt, and then the interface goes.
Cleanup(o) ==
  /\ op[o].stage = "cleanup" /\ Releases(o)
  /\ \/ Live(o) /\ powered' = powered \ {op[o].at} /\ Go(o, "done")
     \/ /\ UNCHANGED powered
        /\ op' = [op EXCEPT ![o].stage = "done", ![o].faults = @ \cup {"shutdown"}]
  /\ UNCHANGED <<bus, plugs, granted, active>>

\* Mutant of DropTo: a drop only releases the interface.
DropToDone(stage) == "done"

\* From Session::new on a drop shuts the device down.
DropTo(stage) == IF stage \in Session THEN "cleanup" ELSE "done"

\* The future, or the opened device, is dropped.
Drop(o) ==
  /\ op[o].stage \in Opening \cup (Claimed \ {"cleanup"})
  /\ op' = [op EXCEPT ![o].stage = DropTo(@), ![o].result = <<"Dropped">>]
  /\ IF DropTo(op[o].stage) = "done" THEN Releases(o) ELSE UNCHANGED holder
  /\ UNCHANGED <<bus, plugs, granted, active, powered>>

-----------------------------------------------------------------------------
(* The bus                                                                  *)

\* A device is attached, anywhere in the system's list, in any configuration.
Plug(d) ==
  /\ plugs < MaxPlugs /\ \A at \in Range(bus) : at[1] # d
  /\ plugs' = plugs + 1
  /\ \E i \in 1..(Len(bus) + 1) : bus' = InsertAt(bus, i, <<d, plugs + 1>>)
  /\ active' \in {active, active \cup {<<d, plugs + 1>>}}
  /\ UNCHANGED <<granted, holder, powered, op>>

Unplug(d) ==
  /\ plugs < MaxPlugs /\ plugs' = plugs + 1
  /\ \E i \in DOMAIN bus : bus[i][1] = d /\ bus' = RemoveAt(bus, i)
  /\ holder' = [holder EXCEPT ![d] = None]
  /\ UNCHANGED <<granted, active, powered, op>>

New == [stage |-> "building", selector |-> Anything, asked |-> None, calls |-> 0, permitted |-> None,
        at |-> None, descriptor |-> Nothing, seen |-> {}, faults |-> {}, result |-> <<"Pending">>]

Init ==
  /\ bus \in {[i \in DOMAIN ds |-> <<ds[i], 0>>] : ds \in SetToSeqs(Devices)}
  /\ plugs = 0 /\ powered = {}
  /\ granted \in {{}, IF WebUsb THEN Range(bus) ELSE {}}
  /\ active \in {{}, Range(bus)}
  /\ holder = [d \in Devices |-> None]
  /\ op = [o \in Openers |-> New]

Step(o) ==
  \/ ListDevices(o) \/ OpenDevice(o) \/ SelectConfiguration(o) \/ Claim(o) \/ ReadLanguage(o)
  \/ ReadString(o, "manufacturer", "product") \/ ReadString(o, "product", "configure")
  \/ Configure(o) \/ Initialize(o) \/ Shutdown(o) \/ Cleanup(o)

Next ==
  \/ \E o \in Openers : \/ Step(o) \/ OpenBegin(o) \/ RequestPermission(o) \/ Drop(o)
                        \/ \E choice \in Calls : Choose(o, choice)
  \/ \E d \in Devices : Plug(d) \/ Unplug(d)

Spec == Init /\ [][Next]_vars

-----------------------------------------------------------------------------
(* Properties                                                               *)

\* Without a change of the bus in between, every device of `list' is the one
\* that its index, or a serial nobody else has, selects (list, select).
ListSelectAgree ==
  \A entry \in Candidates(Anything) :
    LET twins == {e \in Candidates(Anything) : e[2].serial = entry[2].serial}
    IN  /\ Select([Anything EXCEPT !.index = entry[2].index]) = {entry}
        /\ entry[2].serial # None /\ twins = {entry} =>
             Select([Anything EXCEPT !.serial = entry[2].serial]) = {entry}

\* A device picked in the browser's dialog is found by the builder that showed
\* the dialog, as long as it chooses by serial or IDs (request_permission).
PermissionSuffices ==
  \A o \in Openers :
    op[o].permitted \in Range(bus) /\ op[o].selector.index = None => Select(op[o].selector) # {}

\* What the builder was asked for last is what is opened, whatever was plugged
\* in since a list was shown; and it is not found only if it was not there.
AsAsked(o, entry) ==
  /\ Ids(entry[1][1]) = op[o].selector.ids
  /\ op[o].asked # None =>
       IF op[o].asked[1] = "index" THEN entry[2].index = op[o].asked[2]
       ELSE Listed(entry[1][1], "serial") = op[o].asked[2]
FoundAsAsked ==
  \A o \in Openers :
    /\ op[o].at # None => \E entry \in op[o].seen : entry[1] = op[o].at /\ AsAsked(o, entry)
    /\ op[o].result = <<"DeviceNotFound">> => ~\E entry \in op[o].seen : AsAsked(o, entry)

\* What is listed, picked in a dialog or asked for is what is selected: list,
\* request_permission and select agree, after any calls on the builder.
SelectedAsAsked == ListSelectAgree /\ PermissionSuffices /\ FoundAsAsked

\* Below 28.8 MHz a board is only opened if it is a Blog V4, and a Blog V4 is
\* only refused if one of its strings could not be read.
IsV4(d) == Traits[d].manufacturer = "RTLSDRBlog" /\ Traits[d].product = "Blog V4"
HfNeedsV4 ==
  \A o \in Hf :
    /\ op[o].stage = "ready" => IsV4(Dev(o))
    /\ op[o].result = <<"InvalidConfig">> => ~IsV4(Dev(o)) \/ "string" \in op[o].faults

\* No string of a descriptor is another device's or made up, and on a device
\* that is ready none is missing but for a failed read (read_missing_strings);
\* so no board is taken for a Blog V4, and no Blog V4 for another board.
DescriptorTrue ==
  /\ \A o \in Openers : op[o].at # None =>
       \A string \in {"serial", "manufacturer", "product"} :
         \/ op[o].descriptor[string] = Traits[Dev(o)][string]
         \/ /\ op[o].descriptor[string] = None
            /\ string # "serial" /\ op[o].stage \in Session => "string" \in op[o].faults
  /\ HfNeedsV4

\* Whoever is past the claim, and nobody else, holds the interface, on the
\* configuration it belongs to: no transfer without it, and none is left over.
Ownership ==
  \A o \in Openers, d \in Devices :
    /\ holder[d] = o <=> op[o].stage \in Claimed /\ Live(o) /\ Dev(o) = d
    /\ holder[d] = o => op[o].at \in active

\* A receiver that was switched on belongs to an open device, or to one whose
\* shutdown failed (initialize, Session::drop).
PoweredIsOwned ==
  \A at \in powered \cap Range(bus) :
    \E o \in Openers : op[o].at = at /\ (holder[at[1]] = o \/ "shutdown" \in op[o].faults)

\* The kind of an error tells its cause through any context: Busy if another
\* opener has the device, DeviceDisconnected if it is gone, and only then; any
\* other failure is one of the remaining kinds of a USB error.
CauseTold(o) ==
  op[o].result # op'[o].result /\ op[o].stage \in Opening \ {"list"} /\ op'[o].result # <<"Dropped">> =>
    Kind(op'[o].result) \in (IF ~Live(o) THEN {"DeviceDisconnected"}
                             ELSE IF Taken(o) /\ op[o].stage # "open" THEN {"Busy"}
                             ELSE {"NotFound", "Unsupported", "Usb"})
KindTellsCause == [][\A o \in Openers : CauseTold(o)]_vars
===============================================================================
